---------------------------- MODULE EngineProofs ----------------------------
(***************************************************************************)
(* Theorems about Engine for any number of modules and RCPT commands, any  *)
(* relation of equality the modules declare, and any behaviour of theirs.  *)
(***************************************************************************)
EXTENDS Engine, Facts

\* A search through a non-empty vector or list of modules finds a first element.
LEMMA EarliestExists ==
  ASSUME NEW N \in Nat, NEW S \in SUBSET (1..N), S # {}
  PROVE  Earliest(S) # {}
BY LeastExists DEF Earliest
-----------------------------------------------------------------------------
(***************************************************************************)
(* What the operators of the model return.                                 *)
(***************************************************************************)

\* A run leaves a cell a cell.
LEMMA AfterRunType ==
  ASSUME NEW c \in CellState, NEW s \in Stage, NEW o \in Outcome
  PROVE  AfterRun(c, s, o) \in CellState
<1>1. Needs(o) \in SUBSET Stage
  BY DEF Needs, Stage
<1>2. LogicalNot({"FAILED"}) \in SUBSET Stage
  BY DEF LogicalNot
<1> QED BY <1>1, <1>2 DEF AfterRun, CellState, Smfi, Outcome, Failure

\* One call of Privdata::operator() changes the contents of the pool only, and of
\* the recipient only the notes.
LEMMA CallType ==
  ASSUME NEW p, p \in [DOMAIN p -> CellState], NEW r \in Recipient,
         \A m \in Mods : CellOf(r, m) \in DOMAIN p,
         NEW s \in Stage, NEW o \in [Due(p, r, s) -> Outcome]
  PROVE  /\ PoolAfter(p, r, s, o) \in [DOMAIN p -> CellState]
         /\ Noted(p, r, s, o) \in Recipient
         /\ Noted(p, r, s, o).never = r.never
         /\ Noted(p, r, s, o).modules = r.modules
         /\ Throws(p, r, s, o) \subseteq Mods
<1>1. Executed(p, r, s, o) \subseteq Due(p, r, s) /\ Due(p, r, s) \subseteq Mods
  BY DEF Executed, Due
<1>2. PoolAfter(p, r, s, o) \in [DOMAIN p -> CellState]
  <2>1. ASSUME NEW c \in DOMAIN p, NEW m \in Executed(p, r, s, o), c = CellOf(r, m)
        PROVE  AfterRun(p[c], s, o[c[1]]) \in CellState
    <3>1. c[1] = m /\ o[m] \in Outcome
      BY <1>1, <2>1 DEF CellOf
    <3> QED BY <3>1, AfterRunType
  <2> QED BY <2>1 DEF PoolAfter
<1>3. {<<m, s, o[m]>> : m \in Executed(p, r, s, o)} \subseteq Mods \X Stage \X Outcome
  BY <1>1
<1>4. /\ Noted(p, r, s, o) \in Recipient
      /\ Noted(p, r, s, o).never = r.never
      /\ Noted(p, r, s, o).modules = r.modules
  BY <1>3 DEF Noted, Recipient
<1>5. Throws(p, r, s, o) \subseteq Mods
  BY DEF Throws, Stops, Due, Earliest
<1> QED BY <1>2, <1>4, <1>5

\* The recipients are numbered by RCPT commands.
LEMMA SerialsBounded ==
  ASSUME TypeOK
  PROVE  DOMAIN recipients \subseteq Rcpt
BY EngineAssumption DEF TypeOK, Rcpt

\* The entries of the vector of answers are module numbers.
LEMMA AnswersType ==
  ASSUME NEW p
  PROVE  Answers(p) \in [DOMAIN recipients -> SUBSET Mods]
BY DEF Answers, Earliest

\* The reply to the MTA is one of three codes, or the daemon has died.
LEMMA SetResponsesType ==
  ASSUME NEW p
  PROVE  SetResponses(p) \in Reply
BY DEF SetResponses, Reply, Smfi

\* The cells of a new recipient are its own or those of an accepted one.
LEMMA CellsForType ==
  ASSUME TypeOK, NEW a \in Addr, NEW n \in Rcpt, n = serial + 1,
         NEW f \in CellsFor(a, n), NEW nv \in BOOLEAN, NEW r,
         r = [address |-> a, never |-> nv, modules |-> f, asked |-> {}]
  PROVE  /\ r \in Recipient
         /\ \A m \in Mods : CellOf(r, m) \in DOMAIN PoolWith(r, n)
         /\ PoolWith(r, n) \in [DOMAIN PoolWith(r, n) -> CellState]
         /\ DOMAIN PoolWith(r, n) \subseteq Mods \X (1..n)
         /\ DOMAIN pool \subseteq DOMAIN PoolWith(r, n)
<1>1. r \in Recipient /\ r.modules = f /\ f \in [Mods -> Rcpt]
  BY DEF CellsFor, Recipient
<1>2. ASSUME NEW m \in Mods
      PROVE  f[m] = n \/ <<m, f[m]>> \in DOMAIN pool
  <2>1. f[m] \in Owner(m, a, n)
    BY <1>2 DEF CellsFor
  <2>2. CASE EqualTo(m, a) = {}
    BY <2>1, <2>2 DEF Owner
  <2>3. CASE EqualTo(m, a) # {}
    <3>1. PICK k \in EqualTo(m, a) : f[m] = recipients[k].modules[m]
      BY <2>1, <2>3 DEF Owner
    <3>2. k \in DOMAIN recipients
      BY DEF EqualTo, Earliest
    <3> QED BY <1>2, <3>1, <3>2 DEF TypeOK, Cells, CellOf
  <2> QED BY <2>2, <2>3
<1>3. DOMAIN PoolWith(r, n) = DOMAIN pool \cup {<<m, n>> : m \in {k \in Mods : f[k] = n}}
  BY <1>1 DEF PoolWith
<1>4. \A m \in Mods : CellOf(r, m) \in DOMAIN PoolWith(r, n)
  BY <1>1, <1>2, <1>3 DEF CellOf
<1>5. ASSUME NEW c \in DOMAIN PoolWith(r, n)
      PROVE  PoolWith(r, n)[c] \in CellState
  <2>1. CASE c \in DOMAIN pool
    BY <1>5, <2>1 DEF PoolWith, TypeOK
  <2>2. CASE c \notin DOMAIN pool
    <3>1. c[1] \in Mods
      BY <1>3, <2>2
    <3>2. NewCell(c[1]) \in CellState
      BY <3>1, EngineAssumption DEF NewCell, CellState, Smfi
    <3> QED BY <1>3, <2>2, <3>2, <1>1 DEF PoolWith
  <2> QED BY <2>1, <2>2
<1>6. PoolWith(r, n) \in [DOMAIN PoolWith(r, n) -> CellState]
  <2>1. PoolWith(r, n) = [c \in DOMAIN PoolWith(r, n) |-> PoolWith(r, n)[c]]
    BY <1>3, <1>1 DEF PoolWith
  <2> QED BY <1>5, <2>1
<1>7. DOMAIN PoolWith(r, n) \subseteq Mods \X (1..n)
  <2>1. serial \in Nat /\ DOMAIN pool \subseteq Mods \X (1..serial)
    BY DEF TypeOK
  <2>2. DOMAIN pool \subseteq Mods \X (1..n) /\ n \in 1..n
    BY <2>1
  <2> QED BY <1>3, <2>2
<1> QED BY <1>1, <1>3, <1>4, <1>6, <1>7
-----------------------------------------------------------------------------
(***************************************************************************)
(* Type correctness.                                                       *)
(***************************************************************************)

\* The new recipient keeps all types, whatever its modules answer.
LEMMA EnvRcptType ==
  ASSUME TypeOK, NEW a \in Addr, NEW nv \in Never, EnvRcpt(a, nv)
  PROVE  TypeOK' /\ reply' \in Smfi
<1> DEFINE n == serial + 1
<1>1. n \in Rcpt /\ serial' = n /\ serial \in Nat
  BY DEF EnvRcpt, TypeOK
<1>2. PICK cells \in CellsFor(a, n) :
        LET r == [address |-> a, never |-> nv, modules |-> cells, asked |-> {}]
            p == PoolWith(r, n)
        IN  \E o \in Runs(p, r) : EnvRcptOutcome(n, r, p, o)
  BY Zenon DEF EnvRcpt
<1> DEFINE r == [address |-> a, never |-> nv, modules |-> cells, asked |-> {}]
           p == PoolWith(r, n)
<1>3. PICK o \in Runs(p, r) : EnvRcptOutcome(n, r, p, o)
  BY Zenon, <1>2
<1>4. nv \in BOOLEAN
  BY EngineAssumption
<1>5. /\ r \in Recipient
      /\ \A m \in Mods : CellOf(r, m) \in DOMAIN p
      /\ p \in [DOMAIN p -> CellState]
      /\ DOMAIN p \subseteq Mods \X (1..n)
      /\ DOMAIN pool \subseteq DOMAIN p
  BY <1>1, <1>4, CellsForType
<1> HIDE DEF r, p
<1>6. stage \in Stage /\ o \in [Due(p, r, stage) -> Outcome]
  BY DEF TypeOK, Runs
<1> DEFINE q == Noted(p, r, stage, o)
<1>7. /\ PoolAfter(p, r, stage, o) \in [DOMAIN p -> CellState]
      /\ q \in Recipient /\ q.modules = r.modules
      /\ Throws(p, r, stage, o) \subseteq Mods
  BY <1>5, <1>6, CallType
<1> HIDE DEF q
<1>8. pool' \in [DOMAIN p -> CellState]
  BY <1>3, <1>7 DEF EnvRcptOutcome
<1>9. reply' \in Smfi /\ (recipients' = recipients \/ Push(n, q))
  <2>1. CASE \E m \in Throws(p, r, stage, o) :
               reply' = pool'[CellOf(r, m)].smfi /\ UNCHANGED recipients
    <3>1. PICK m \in Throws(p, r, stage, o) :
            reply' = pool'[CellOf(r, m)].smfi /\ UNCHANGED recipients
      BY <2>1
    <3>2. pool'[CellOf(r, m)] \in CellState
      BY <1>5, <1>7, <1>8, <3>1
    <3> QED BY <3>1, <3>2 DEF CellState
  <2>2. CASE IF NeedsPrdr(r) /\ ~prdr
             THEN reply' = "TEMPFAIL" /\ UNCHANGED recipients
             ELSE reply' = "CONTINUE" /\ Push(n, q)
    BY <2>2 DEF Smfi
  <2> QED BY <1>3, <2>1, <2>2 DEF EnvRcptOutcome, q
<1>10. /\ DOMAIN recipients' \subseteq 1..n
       /\ DOMAIN recipients \subseteq DOMAIN recipients'
       /\ recipients' \in [DOMAIN recipients' -> Recipient]
       /\ \A k \in DOMAIN recipients', m \in Mods : CellOf(recipients'[k], m) \in DOMAIN p
  <2>1. DOMAIN recipients \subseteq 1..n /\ n \in 1..n
    BY <1>1 DEF TypeOK
  <2>2. \A k \in DOMAIN recipients, m \in Mods : CellOf(recipients[k], m) \in DOMAIN p
    BY <1>5 DEF TypeOK, Cells
  <2>3. CASE recipients' = recipients
    BY <2>1, <2>2, <2>3 DEF TypeOK
  <2>4. CASE Push(n, q)
    BY <1>5, <1>7, <2>1, <2>2, <2>4 DEF Push, TypeOK, CellOf
  <2> QED BY <1>9, <2>3, <2>4
<1>11. UNCHANGED <<prdr, envfrom, stage, phase, todo, body, answers>>
  BY DEF EnvRcpt
<1>12. serial' \in 0..MaxRcpt
  BY <1>1 DEF Rcpt
<1>13. DOMAIN pool' = DOMAIN p
  BY <1>8
<1> QED
  BY <1>1, <1>5, <1>8, <1>9, <1>10, <1>11, <1>12, <1>13 DEF TypeOK, Cells, Reply

\* One call of the operator from the loops of eoh and eom.
LEMMA LoopCallType ==
  ASSUME TypeOK, NEW n \in Earliest(todo), NEW o \in Runs(pool, recipients[n])
  PROVE  LET r == recipients[n]
         IN  /\ n \in DOMAIN recipients /\ r \in Recipient
             /\ PoolAfter(pool, r, stage, o) \in [DOMAIN pool -> CellState]
             /\ Noted(pool, r, stage, o) \in Recipient
             /\ Noted(pool, r, stage, o).never = r.never
             /\ Noted(pool, r, stage, o).modules = r.modules
             /\ Throws(pool, r, stage, o) \subseteq Mods
<1>1. n \in DOMAIN recipients /\ recipients[n] \in Recipient
  BY DEF Earliest, TypeOK
<1>2. \A m \in Mods : CellOf(recipients[n], m) \in DOMAIN pool
  BY <1>1 DEF TypeOK, Cells
<1>3. stage \in Stage /\ o \in [Due(pool, recipients[n], stage) -> Outcome]
  BY DEF TypeOK, Runs
<1>4. pool \in [DOMAIN pool -> CellState]
  BY DEF TypeOK
<1> QED BY <1>1, <1>2, <1>3, <1>4, CallType

\* A step of the loop at the end of the headers keeps the types.
LEMMA EohCallType ==
  ASSUME TypeOK, NEW n \in Rcpt, EohCall(n)
  PROVE  TypeOK'
<1>1. n \in Earliest(todo)
  BY DEF EohCall
<1> DEFINE r == recipients[n]
<1>2. PICK o \in Runs(pool, r) :
        /\ pool' = PoolAfter(pool, r, stage, o)
        /\ IF Throws(pool, r, stage, o) = {}
           THEN /\ recipients' = [recipients EXCEPT ![n] = Noted(pool, r, stage, o)]
                /\ todo' = todo \ {n}
                /\ UNCHANGED <<phase, answers, reply>>
           ELSE /\ answers' = Answers(pool')
                /\ reply' = IF SetResponses(pool') = "nullDeref" THEN "nullDeref"
                            ELSE "REJECT"
                /\ recipients' = NoFunction
                /\ todo' = {} /\ phase' = "done"
  BY DEF EohCall
<1> DEFINE q == Noted(pool, r, stage, o)
<1>3. /\ n \in DOMAIN recipients
      /\ pool' \in [DOMAIN pool -> CellState]
      /\ q \in Recipient /\ q.modules = r.modules
  BY <1>1, <1>2, LoopCallType
<1> HIDE DEF q
<1>4. UNCHANGED <<prdr, envfrom, stage, serial, body>>
  BY DEF EohCall
<1>5. CASE /\ recipients' = [recipients EXCEPT ![n] = q]
           /\ todo' = todo \ {n} /\ UNCHANGED <<phase, answers, reply>>
  <2>1. /\ DOMAIN recipients' = DOMAIN recipients
        /\ \A k \in DOMAIN recipients : recipients'[k] \in Recipient
                                      /\ recipients'[k].modules = recipients[k].modules
    BY <1>3, <1>5 DEF TypeOK
  <2>2. recipients' \in [DOMAIN recipients' -> Recipient]
    BY <1>5, <2>1
  <2> QED BY <1>3, <1>4, <1>5, <2>1, <2>2 DEF TypeOK, Cells, CellOf
<1>6. CASE /\ answers' = Answers(pool')
           /\ reply' = IF SetResponses(pool') = "nullDeref" THEN "nullDeref"
                       ELSE "REJECT"
           /\ recipients' = NoFunction /\ todo' = {} /\ phase' = "done"
  <2>1. DOMAIN recipients' = {} /\ recipients' \in [DOMAIN recipients' -> Recipient]
    BY <1>6 DEF NoFunction
  <2>2. answers' \in [DOMAIN recipients -> SUBSET Mods]
    BY <1>6, AnswersType
  <2>3. DOMAIN recipients \subseteq Rcpt
    BY SerialsBounded
  <2> QED BY <1>3, <1>4, <1>6, <2>1, <2>2, <2>3 DEF TypeOK, Reply, Smfi
<1> QED BY <1>2, <1>5, <1>6 DEF q

\* A step of the loop at the end of the message keeps the types.
LEMMA EomCallType ==
  ASSUME TypeOK, NEW n \in Rcpt, EomCall(n)
  PROVE  TypeOK'
<1>1. n \in Earliest(todo)
  BY DEF EomCall
<1> DEFINE r == recipients[n]
<1>2. PICK o \in Runs(pool, r) :
        /\ pool' = PoolAfter(pool, r, stage, o)
        /\ recipients' = [recipients EXCEPT ![n] = Noted(pool, r, stage, o)]
        /\ IF Throws(pool, r, stage, o) = {}
           THEN todo' = todo \ {n} /\ UNCHANGED <<phase, reply>>
           ELSE todo' = {} /\ phase' = "done" /\ reply' = "terminated"
  BY DEF EomCall
<1> DEFINE q == Noted(pool, r, stage, o)
<1>3. /\ n \in DOMAIN recipients
      /\ pool' \in [DOMAIN pool -> CellState]
      /\ q \in Recipient /\ q.modules = r.modules
  BY <1>1, <1>2, LoopCallType
<1> HIDE DEF q
<1>4. recipients' = [recipients EXCEPT ![n] = q]
  BY <1>2 DEF q
<1>5. UNCHANGED <<prdr, envfrom, stage, serial, body, answers>>
  BY DEF EomCall
<1>6. /\ DOMAIN recipients' = DOMAIN recipients
      /\ \A k \in DOMAIN recipients : recipients'[k] \in Recipient
                                    /\ recipients'[k].modules = recipients[k].modules
  BY <1>3, <1>4 DEF TypeOK
<1>7. recipients' \in [DOMAIN recipients' -> Recipient]
  BY <1>4, <1>6
<1>8. /\ todo' \subseteq DOMAIN recipients
      /\ phase' \in {"rcpt", "eoh", "body", "eom", "done"} /\ reply' \in Reply
      /\ phase' \notin {"eoh", "eom"} => todo' = {}
  BY <1>2 DEF TypeOK, Reply, EomCall
<1> QED BY <1>3, <1>5, <1>6, <1>7, <1>8 DEF TypeOK, Cells, CellOf

\* Every variable keeps its type, and every recipient its cells in the pool.
THEOREM TypeCorrect == Spec => []TypeOK
<1>1. Init => TypeOK
  <2> SUFFICES ASSUME Init PROVE TypeOK
    OBVIOUS
  <2>1. DOMAIN NoFunction = {} /\ \A S : NoFunction \in [DOMAIN NoFunction -> S]
    BY DEF NoFunction
  <2>2. /\ prdr \in BOOLEAN
        /\ envfrom \in {"address", "null", "dropped"} /\ 0 \in 0..MaxRcpt
    BY EngineAssumption DEF Init
  <2> QED BY <2>1, <2>2 DEF Init, TypeOK, Stage, Reply, Cells
<1>2. TypeOK /\ [Next]_vars => TypeOK'
  <2> SUFFICES ASSUME TypeOK, [Next]_vars PROVE TypeOK'
    OBVIOUS
  <2>1. ASSUME NEW a \in Addr, NEW nv \in Never, EnvRcpt(a, nv) PROVE TypeOK'
    BY <2>1, EnvRcptType
  <2>2. CASE Eoh
    BY <2>2 DEF Eoh, TypeOK, Cells, Stage
  <2>3. CASE Body
    BY <2>3 DEF Body, TypeOK, Cells, Reply, Smfi
  <2>4. CASE Eom
    BY <2>4 DEF Eom, TypeOK, Cells, Stage
  <2>5. CASE Abort
    <3>1. /\ DOMAIN recipients' = {} /\ DOMAIN pool' = {}
          /\ \A S : recipients' \in [DOMAIN recipients' -> S]
          /\ \A S : pool' \in [DOMAIN pool' -> S]
      BY <2>5 DEF Abort, NoFunction
    <3>2. todo = {}
      BY <2>5 DEF Abort, TypeOK
    <3> QED BY <2>5, <3>1, <3>2 DEF Abort, TypeOK, Cells, Reply, Smfi
  <2>6. ASSUME NEW n \in Rcpt, EohCall(n) PROVE TypeOK'
    BY <2>6, EohCallType
  <2>7. ASSUME NEW n \in Rcpt, EomCall(n) PROVE TypeOK'
    BY <2>7, EomCallType
  <2>8. CASE EohEnd
    BY <2>8 DEF EohEnd, TypeOK, Cells, Reply, Smfi
  <2>9. CASE EomEnd
    <3>1. answers' \in [DOMAIN recipients -> SUBSET Mods] /\ reply' \in Reply
      BY <2>9, AnswersType, SetResponsesType DEF EomEnd
    <3>2. DOMAIN recipients \subseteq Rcpt
      BY SerialsBounded
    <3> QED BY <2>9, <3>1, <3>2 DEF EomEnd, TypeOK, Cells
  <2>10. CASE UNCHANGED vars
    BY <2>10 DEF vars, TypeOK, Cells
  <2> QED
    BY <2>1, <2>2, <2>3, <2>4, <2>5, <2>6, <2>7, <2>8, <2>9, <2>10
       DEF Next, Callback, Finished
<1> QED BY <1>1, <1>2, PTL DEF Spec
-----------------------------------------------------------------------------
(***************************************************************************)
(* Delayed mode.  SameCellsAsFirst alone is not inductive: that the front  *)
(* of the vector exists, and stays the front when a recipient is pushed,   *)
(* comes from the serials, which grow.                                     *)
(***************************************************************************)

\* Pushing at the back leaves the front where it is.
LEMMA FrontStays ==
  ASSUME NEW s \in Nat, NEW D \in SUBSET (1..s), D # {},
         NEW f \in Earliest(D \cup {s + 1})
  PROVE  f \in Earliest(D)
<1>1. f \in D \cup {s + 1} /\ \A j \in D : f <= j
  BY DEF Earliest
<1>2. PICK d \in D : TRUE
  OBVIOUS
<1>3. d \in 1..s
  BY <1>2
<1>4. f # s + 1
  BY <1>1, <1>2, <1>3
<1> QED BY <1>1, <1>4 DEF Earliest

\* A new recipient either lets the vector alone or is pushed with the cells and
\* the flag that NeedsPrdr has looked at.
LEMMA PushedRecipient ==
  ASSUME TypeOK, NEW a \in Addr, NEW nv \in Never, EnvRcpt(a, nv)
  PROVE  \/ recipients' = recipients
         \/ \E r, q \in Recipient :
              /\ q.never = r.never /\ q.modules = r.modules
              /\ q.never \in Never /\ q.modules \in CellsFor(a, serial + 1)
              /\ ~NeedsPrdr(r) \/ prdr
              /\ Push(serial + 1, q)
<1> DEFINE n == serial + 1
<1>1. n \in Rcpt
  BY DEF EnvRcpt
<1>2. PICK cells \in CellsFor(a, n) :
        LET r == [address |-> a, never |-> nv, modules |-> cells, asked |-> {}]
            p == PoolWith(r, n)
        IN  \E o \in Runs(p, r) : EnvRcptOutcome(n, r, p, o)
  BY Zenon DEF EnvRcpt
<1> DEFINE r == [address |-> a, never |-> nv, modules |-> cells, asked |-> {}]
           p == PoolWith(r, n)
<1>3. PICK o \in Runs(p, r) : EnvRcptOutcome(n, r, p, o)
  BY Zenon, <1>2
<1>4. nv \in BOOLEAN
  BY EngineAssumption
<1>5. /\ r \in Recipient
      /\ \A m \in Mods : CellOf(r, m) \in DOMAIN p
      /\ p \in [DOMAIN p -> CellState]
  BY <1>1, <1>4, CellsForType
<1>9. r.never \in Never /\ r.modules \in CellsFor(a, n)
  OBVIOUS
<1> HIDE DEF r, p
<1>6. stage \in Stage /\ o \in [Due(p, r, stage) -> Outcome]
  BY DEF TypeOK, Runs
<1> DEFINE q == Noted(p, r, stage, o)
<1>7. q \in Recipient /\ q.never = r.never /\ q.modules = r.modules
  BY <1>5, <1>6, CallType
<1>8. recipients' = recipients \/ ((~NeedsPrdr(r) \/ prdr) /\ Push(n, q))
  BY <1>3 DEF EnvRcptOutcome
<1> HIDE DEF q
<1> QED BY <1>5, <1>7, <1>8, <1>9

\* A recipient is let in only if it belongs to the class of the first one.
LEMMA RcptKeepsClass ==
  ASSUME TypeOK, SameCellsAsFirst, NEW a \in Addr, NEW nv \in Never, EnvRcpt(a, nv)
  PROVE  SameCellsAsFirst'
<1> DEFINE n == serial + 1
           D == DOMAIN recipients
<1>1. prdr' = prdr /\ serial \in Nat /\ D \subseteq 1..serial
  BY DEF EnvRcpt, TypeOK
<1>2. CASE recipients' = recipients
  BY <1>1, <1>2 DEF SameCellsAsFirst
<1>3. ASSUME NEW r \in Recipient, NEW q \in Recipient,
             q.never = r.never, q.modules = r.modules,
             ~NeedsPrdr(r), Push(n, q), ~prdr,
             NEW f \in Earliest(D \cup {n}), NEW k \in D \cup {n}
      PROVE  recipients'[k].never \/ recipients'[k].modules = recipients'[f].modules
  <2>1. /\ DOMAIN recipients' = D \cup {n} /\ recipients'[n] = q
        /\ \A j \in D : j # n /\ recipients'[j] = recipients[j]
    BY <1>1, <1>3 DEF Push
  <2>2. CASE D = {}
    BY <2>1, <2>2, <1>3 DEF Earliest
  <2>3. CASE D # {}
    <3>1. f \in Earliest(D) /\ f \in D
      BY <1>1, <1>3, <2>3, FrontStays DEF Earliest
    <3>2. CASE k \in D
      BY <1>3, <2>1, <3>1, <3>2 DEF SameCellsAsFirst
    <3>3. CASE k = n /\ ~r.never
      <4>1. \A m \in Mods : CellOf(recipients[f], m) = CellOf(r, m)
        BY <1>3, <3>1, <3>3 DEF NeedsPrdr
      <4>2. recipients[f].modules \in [Mods -> Rcpt] /\ r.modules \in [Mods -> Rcpt]
        BY <3>1 DEF TypeOK, Recipient
      <4>3. \A m \in Mods : recipients[f].modules[m] = r.modules[m]
        BY <4>1 DEF CellOf
      <4>4. recipients[f].modules = r.modules
        BY <4>2, <4>3
      <4> QED BY <1>3, <2>1, <3>1, <3>3, <4>4
    <3>4. CASE k = n /\ r.never
      BY <1>3, <2>1, <3>4
    <3> QED BY <1>3, <3>2, <3>3, <3>4
  <2> QED BY <2>2, <2>3
<1>4. CASE \E r, q \in Recipient :
             /\ q.never = r.never /\ q.modules = r.modules
             /\ ~NeedsPrdr(r) \/ prdr
             /\ Push(n, q)
  <2>1. DOMAIN recipients' = D \cup {n}
    BY <1>4 DEF Push
  <2> QED BY <1>1, <1>3, <1>4, <2>1 DEF SameCellsAsFirst
<1> QED BY <1>2, <1>4, PushedRecipient

\* The loops change neither the cells of a recipient nor its flag.
LEMMA LoopKeepsModules ==
  ASSUME TypeOK, NEW n \in Rcpt, EohCall(n) \/ EomCall(n)
  PROVE  \/ recipients' = NoFunction
         \/ /\ DOMAIN recipients' = DOMAIN recipients
            /\ \A k \in DOMAIN recipients : /\ recipients'[k].never = recipients[k].never
                                            /\ recipients'[k].modules = recipients[k].modules
<1>1. n \in Earliest(todo)
  BY DEF EohCall, EomCall
<1>2. ASSUME NEW o \in Runs(pool, recipients[n]),
             recipients' = [recipients EXCEPT
                              ![n] = Noted(pool, recipients[n], stage, o)]
      PROVE  /\ DOMAIN recipients' = DOMAIN recipients
             /\ \A k \in DOMAIN recipients :
                  /\ recipients'[k].never = recipients[k].never
                  /\ recipients'[k].modules = recipients[k].modules
  <2> DEFINE q == Noted(pool, recipients[n], stage, o)
  <2>1. q.never = recipients[n].never /\ q.modules = recipients[n].modules
    BY <1>1, LoopCallType
  <2>2. recipients' = [recipients EXCEPT ![n] = q]
    BY <1>2
  <2> HIDE DEF q
  <2> QED BY <2>1, <2>2
<1> QED BY <1>2 DEF EohCall, EomCall

\* So they stay of one class.
LEMMA LoopKeepsClass ==
  ASSUME TypeOK, SameCellsAsFirst, NEW n \in Rcpt, EohCall(n) \/ EomCall(n)
  PROVE  SameCellsAsFirst'
<1>1. prdr' = prdr
  BY DEF EohCall, EomCall
<1>2. CASE recipients' = NoFunction
  <2>1. Earliest(DOMAIN recipients') = {}
    BY <1>2 DEF NoFunction, Earliest
  <2> QED BY <2>1 DEF SameCellsAsFirst
<1>3. CASE /\ DOMAIN recipients' = DOMAIN recipients
           /\ \A k \in DOMAIN recipients : /\ recipients'[k].never = recipients[k].never
                                           /\ recipients'[k].modules = recipients[k].modules
  <2>1. Earliest(DOMAIN recipients) \subseteq DOMAIN recipients
    BY DEF Earliest
  <2> QED BY <1>1, <1>3, <2>1 DEF SameCellsAsFirst
<1> QED BY <1>2, <1>3, LoopKeepsModules

\* Without PRDR the recipients of a message are of the first one's class, those
\* apart that want no bounces.
THEOREM DelayedMode == Spec => []SameCellsAsFirst
<1>1. Init => SameCellsAsFirst
  BY DEF Init, NoFunction, SameCellsAsFirst
<1>2. TypeOK /\ SameCellsAsFirst /\ [Next]_vars => SameCellsAsFirst'
  <2> SUFFICES ASSUME TypeOK, SameCellsAsFirst, [Next]_vars PROVE SameCellsAsFirst'
    OBVIOUS
  <2>1. ASSUME NEW a \in Addr, NEW nv \in Never, EnvRcpt(a, nv) PROVE SameCellsAsFirst'
    BY <2>1, RcptKeepsClass
  <2>2. ASSUME NEW n \in Rcpt, EohCall(n) \/ EomCall(n) PROVE SameCellsAsFirst'
    BY <2>2, LoopKeepsClass
  <2>3. CASE Abort
    <3>1. DOMAIN recipients' = {}
      BY <2>3 DEF Abort, NoFunction
    <3> QED BY <3>1 DEF SameCellsAsFirst
  <2>4. CASE UNCHANGED <<prdr, recipients>>
    BY <2>4 DEF SameCellsAsFirst
  <2> QED
    BY <2>1, <2>2, <2>3, <2>4
       DEF Next, Callback, Eoh, Body, Eom, EohEnd, EomEnd, Finished, vars
<1> QED BY <1>1, <1>2, TypeCorrect, PTL DEF Spec
-----------------------------------------------------------------------------
(***************************************************************************)
(* How recipients share cells.  A cell was made by its recipient or by an  *)
(* earlier one that was accepted and has it: this is what Envelope begins  *)
(* with for the accepted recipients, and what owner means in Sieve.        *)
(***************************************************************************)
Sharing ==
  \A n \in DOMAIN recipients, m \in Mods :
    LET k == recipients[n].modules[m]
    IN  k = n \/ (k < n /\ k \in DOMAIN recipients /\ recipients[k].modules[m] = k)

\* A recipient finds a cell of an accepted one, or makes it.
LEMMA RcptKeepsSharing ==
  ASSUME TypeOK, Sharing, NEW a \in Addr, NEW nv \in Never, EnvRcpt(a, nv)
  PROVE  Sharing'
<1> DEFINE n == serial + 1
           D == DOMAIN recipients
<1>1. serial \in Nat /\ D \subseteq 1..serial
  BY DEF TypeOK
<1>2. CASE recipients' = recipients
  BY <1>2 DEF Sharing
<1>3. ASSUME NEW q, q.modules \in CellsFor(a, n), Push(n, q)
      PROVE  Sharing'
  <2>1. /\ DOMAIN recipients' = D \cup {n} /\ recipients'[n] = q
        /\ \A j \in D : j # n /\ recipients'[j] = recipients[j]
    BY <1>1, <1>3 DEF Push
  <2>2. ASSUME NEW m \in Mods, q.modules[m] # n
        PROVE  \E k \in D : q.modules[m] = recipients[k].modules[m]
    <3>1. q.modules[m] \in Owner(m, a, n)
      BY <1>3 DEF CellsFor
    <3> QED BY <2>2, <3>1 DEF Owner, EqualTo, Earliest
  <2>3. ASSUME NEW m \in Mods, NEW k \in D
        PROVE  LET c == recipients[k].modules[m]
               IN  c < n /\ c \in D /\ recipients[c].modules[m] = c
    <3>1. k < n /\ k \in Nat
      BY <1>1
    <3>2. recipients[k].modules[m] \in Nat
      BY EngineAssumption DEF TypeOK, Recipient, Rcpt
    <3> QED BY <1>1, <3>1, <3>2 DEF Sharing
  <2>4. \A m \in Mods : LET c == q.modules[m]
                        IN  c = n \/ (c < n /\ c \in D /\ recipients[c].modules[m] = c)
    BY <2>2, <2>3
  <2> QED BY <2>1, <2>4 DEF Sharing
<1> QED BY <1>2, <1>3, PushedRecipient

\* Every cell an accepted recipient has was made by an accepted recipient that has it
\* too, at the latest its own RCPT command (prdr_envrcpt, lines 67-83).
THEOREM CellsOfAccepted == Spec => []Sharing
<1>1. Init => Sharing
  BY DEF Init, NoFunction, Sharing
<1>2. TypeOK /\ Sharing /\ [Next]_vars => Sharing'
  <2> SUFFICES ASSUME TypeOK, Sharing, [Next]_vars PROVE Sharing'
    OBVIOUS
  <2>1. ASSUME NEW a \in Addr, NEW nv \in Never, EnvRcpt(a, nv) PROVE Sharing'
    BY <2>1, RcptKeepsSharing
  <2>2. ASSUME NEW n \in Rcpt, EohCall(n) \/ EomCall(n) PROVE Sharing'
    <3>1. \/ recipients' = NoFunction
          \/ /\ DOMAIN recipients' = DOMAIN recipients
             /\ \A k \in DOMAIN recipients : recipients'[k].modules = recipients[k].modules
      BY <2>2, LoopKeepsModules
    <3> QED BY <3>1 DEF Sharing, NoFunction
  <2>3. CASE Abort
    <3>1. DOMAIN recipients' = {}
      BY <2>3 DEF Abort, NoFunction
    <3> QED BY <3>1 DEF Sharing
  <2>4. CASE UNCHANGED recipients
    BY <2>4 DEF Sharing
  <2> QED
    BY <2>1, <2>2, <2>3, <2>4
       DEF Next, Callback, Eoh, Body, Eom, EohEnd, EomEnd, Finished, vars
<1> QED BY <1>1, <1>2, TypeCorrect, PTL DEF Spec
-----------------------------------------------------------------------------
(***************************************************************************)
(* One reply is enough for a message of one class.                         *)
(***************************************************************************)

\* The module that throws leaves a rejection in its cell.
LEMMA ThrowRejects ==
  ASSUME NEW p, NEW r, NEW s, NEW o,
         \A m \in Mods : CellOf(r, m) \in DOMAIN p,
         NEW m \in Throws(p, r, s, o)
  PROVE  PoolAfter(p, r, s, o)[CellOf(r, m)].smfi # "CONTINUE"
<1> DEFINE c == CellOf(r, m)
<1>1. /\ m \in Stops(p, r, s, o) /\ o[m] \notin Failure
      /\ \A k \in Stops(p, r, s, o) : m <= k
  BY DEF Throws, Earliest
<1>2. m \in Mods /\ m \in Executed(p, r, s, o)
  BY <1>1 DEF Executed, Stops, Due
<1>3. AfterRun(p[c], s, o[m]).smfi # "CONTINUE"
  BY <1>1 DEF Stops
<1>4. c \in DOMAIN p /\ c[1] = m
  BY <1>2 DEF CellOf
<1>5. PoolAfter(p, r, s, o)[c] = AfterRun(p[c], s, o[c[1]])
  BY <1>2, <1>4 DEF PoolAfter
<1> QED BY <1>3, <1>4, <1>5

\* Recipients of one class get the same entry in the vector of answers.
LEMMA SameAnswers ==
  ASSUME TypeOK, SameCellsAsFirst, OneClass, NEW p,
         NEW n \in DOMAIN recipients, NEW k \in DOMAIN recipients
  PROVE  Answers(p)[n] = Answers(p)[k]
<1>1. serial \in Nat /\ DOMAIN recipients \in SUBSET (1..serial)
  BY DEF TypeOK
<1>2. PICK f \in Earliest(DOMAIN recipients) : TRUE
  BY <1>1, EarliestExists
<1>3. recipients[n].modules = recipients[k].modules
  BY <1>2 DEF SameCellsAsFirst, OneClass
<1>4. \A m : CellOf(recipients[n], m) = CellOf(recipients[k], m)
  BY <1>3 DEF CellOf
<1> QED BY <1>4 DEF Answers

\* So SetResponses never reaches the null pointer, and it accepts if and only if
\* nobody objects.
LEMMA UniformResponse ==
  ASSUME TypeOK, SameCellsAsFirst, OneClass, NEW p
  PROVE  /\ SetResponses(p) \in {"CONTINUE", "REJECT"}
         /\ \A n \in DOMAIN recipients :
               SetResponses(p) = "CONTINUE" <=> Answers(p)[n] = {}
<1> DEFINE nulls == {n \in DOMAIN recipients : Answers(p)[n] = {}}
<1>1. nulls = DOMAIN recipients \/ nulls = {}
  BY SameAnswers
<1>2. CASE nulls = DOMAIN recipients
  BY <1>2 DEF SetResponses
<1>3. CASE nulls = {} /\ nulls # DOMAIN recipients
  BY <1>3 DEF SetResponses
<1> QED BY <1>1, <1>2, <1>3

\* A recipient for whom the operator throws has an entry in the vector of answers.
LEMMA CallObjects ==
  ASSUME TypeOK, NEW n \in DOMAIN recipients, n \in Earliest(todo),
         NEW o \in Runs(pool, recipients[n]),
         Throws(pool, recipients[n], stage, o) # {},
         pool' = PoolAfter(pool, recipients[n], stage, o)
  PROVE  Answers(pool')[n] # {}
<1> DEFINE r == recipients[n]
<1>3. PICK m \in Throws(pool, r, stage, o) : TRUE
  OBVIOUS
<1>4. m \in Mods
  BY LoopCallType
<1>5. pool'[CellOf(r, m)].smfi # "CONTINUE"
  <2>1. \A i \in Mods : CellOf(r, i) \in DOMAIN pool
    BY DEF TypeOK, Cells
  <2> QED BY <1>3, <2>1, ThrowRejects
<1> DEFINE S == {i \in Mods : pool'[CellOf(r, i)].smfi # "CONTINUE"}
<1>6. S \in SUBSET (1..NMods) /\ S # {} /\ NMods \in Nat
  BY <1>4, <1>5, EngineAssumption DEF Mods
<1>7. Earliest(S) # {}
  BY <1>6, EarliestExists
<1>8. Answers(pool')[n] = Earliest(S)
  BY DEF Answers
<1> QED BY <1>7, <1>8

\* The same when the operator throws at the end of the headers.
LEMMA EohAnswer ==
  ASSUME TypeOK, SameCellsAsFirst, OneClass, NEW n \in Rcpt, EohCall(n),
         answers' # answers
  PROVE  /\ answers' = Answers(pool') /\ reply' = "REJECT"
         /\ \A k \in DOMAIN recipients : Answers(pool')[k] # {}
<1> DEFINE r == recipients[n]
<1>1. n \in Earliest(todo) /\ n \in DOMAIN recipients
  BY DEF EohCall, Earliest, TypeOK
<1>2. PICK o \in Runs(pool, r) :
        /\ pool' = PoolAfter(pool, r, stage, o)
        /\ Throws(pool, r, stage, o) # {}
        /\ answers' = Answers(pool')
        /\ reply' = IF SetResponses(pool') = "nullDeref" THEN "nullDeref" ELSE "REJECT"
  BY DEF EohCall
<1>6. Answers(pool')[n] # {}
  BY <1>1, <1>2, CallObjects
<1>7. SetResponses(pool') # "nullDeref"
  BY UniformResponse
<1>8. \A k \in DOMAIN recipients : Answers(pool')[k] # {}
  BY <1>1, <1>6, SameAnswers
<1> QED BY <1>2, <1>7, <1>8

\* A message whose recipients are of one class gets one answer from all of them,
\* and it is accepted if and only if none objects.
THEOREM OneReply == Spec => OneReplyForAll
<1> DEFINE A == OneClass /\ answers' # answers =>
                  /\ \A n, k \in DOMAIN answers' : answers'[n] = answers'[k]
                  /\ reply' # "nullDeref"
                  /\ \A n \in DOMAIN answers' : reply' = "CONTINUE" <=> answers'[n] = {}
<1>1. TypeOK /\ SameCellsAsFirst /\ [Next]_vars => [A]_vars
  <2> SUFFICES ASSUME TypeOK, SameCellsAsFirst, Next, OneClass, answers' # answers
               PROVE  A
    BY DEF vars
  <2>1. \A p : DOMAIN Answers(p) = DOMAIN recipients
    BY DEF Answers
  <2>2. ASSUME NEW n \in Rcpt, EohCall(n) PROVE A
    BY <2>1, <2>2, EohAnswer, SameAnswers
  <2>3. CASE EomEnd
    <3>1. answers' = Answers(pool) /\ reply' = SetResponses(pool)
      BY <2>3 DEF EomEnd
    <3>2. \A n, k \in DOMAIN answers' : answers'[n] = answers'[k]
      BY <2>1, <3>1, SameAnswers
    <3> QED BY <2>1, <3>1, <3>2, UniformResponse
  <2> QED
    BY <2>2, <2>3
       DEF Next, Callback, EnvRcpt, Eoh, Body, Eom, Abort, EohEnd, EomCall,
           Finished, vars
<1>2. [][Next]_vars /\ []TypeOK /\ []SameCellsAsFirst => [][A]_vars
  BY <1>1, PTL
<1>3. Spec => [][A]_vars
  BY <1>2, TypeCorrect, DelayedMode, PTL DEF Spec
<1> QED BY <1>3 DEF OneReplyForAll

\* When PRDR is not offered and no recipient wants NOTIFY=NEVER, SetResponses follows no
\* null pointer, whatever the modules answer and however they declare recipients equal
\* (Privdata.cpp:395-405).
THEOREM DisagreementOfClasses ==
  ASSUME Never \subseteq {FALSE}
  PROVE  Spec => [](~prdr => DisagreementIsAnswered)
<1> DEFINE NoneNever == \A n \in DOMAIN recipients : ~recipients[n].never
<1>1. Init => NoneNever /\ DisagreementIsAnswered
  BY DEF Init, NoFunction, DisagreementIsAnswered
<1>2. TypeOK /\ NoneNever /\ [Next]_vars => NoneNever'
  <2> SUFFICES ASSUME TypeOK, NoneNever, [Next]_vars PROVE NoneNever'
    OBVIOUS
  <2>1. ASSUME NEW a \in Addr, NEW nv \in Never, EnvRcpt(a, nv) PROVE NoneNever'
    <3>1. recipients' = recipients \/ \E q \in Recipient : ~q.never /\ Push(serial + 1, q)
      BY <2>1, PushedRecipient
    <3> QED BY <3>1 DEF Push
  <2>2. ASSUME NEW n \in Rcpt, EohCall(n) \/ EomCall(n) PROVE NoneNever'
    BY <2>2, LoopKeepsModules DEF NoFunction
  <2>3. CASE Abort
    BY <2>3 DEF Abort, NoFunction
  <2>4. CASE UNCHANGED recipients
    BY <2>4
  <2> QED
    BY <2>1, <2>2, <2>3, <2>4
       DEF Next, Callback, Eoh, Body, Eom, EohEnd, EomEnd, Finished, vars
<1>3. TypeOK /\ SameCellsAsFirst /\ NoneNever /\ (~prdr => DisagreementIsAnswered)
      /\ [Next]_vars => (~prdr => DisagreementIsAnswered)'
  <2> SUFFICES ASSUME TypeOK, SameCellsAsFirst, NoneNever, [Next]_vars,
                      ~prdr => DisagreementIsAnswered, ~prdr'
               PROVE  DisagreementIsAnswered'
    OBVIOUS
  <2>1. prdr' = prdr
    BY DEF Next, Callback, EnvRcpt, Eoh, Body, Eom, Abort, EohCall, EomCall, EohEnd,
           EomEnd, Finished, vars
  <2>2. OneClass /\ DisagreementIsAnswered
    BY <2>1 DEF OneClass
  <2>3. ASSUME NEW a \in Addr, NEW nv \in Never, EnvRcpt(a, nv)
        PROVE  DisagreementIsAnswered'
    <3>1. reply' \in Smfi
      BY <2>3, EnvRcptType
    <3> QED BY <3>1 DEF Smfi, DisagreementIsAnswered
  <2>4. ASSUME NEW n \in Rcpt, EohCall(n) PROVE DisagreementIsAnswered'
    <3>1. \/ reply' = reply
          \/ reply' = IF SetResponses(pool') = "nullDeref" THEN "nullDeref" ELSE "REJECT"
      BY <2>4 DEF EohCall
    <3> QED BY <2>2, <3>1, UniformResponse DEF DisagreementIsAnswered
  <2>5. CASE EomEnd
    BY <2>2, <2>5, UniformResponse DEF EomEnd, DisagreementIsAnswered
  <2>6. CASE \E n \in Rcpt : EomCall(n)
    BY <2>2, <2>6 DEF EomCall, DisagreementIsAnswered
  <2>7. CASE Eoh \/ Body \/ Eom \/ Abort \/ EohEnd \/ Finished \/ UNCHANGED vars
    BY <2>2, <2>7
    DEF Eoh, Body, Eom, Abort, EohEnd, Finished, vars, DisagreementIsAnswered
  <2> QED BY <2>3, <2>4, <2>5, <2>6, <2>7 DEF Next, Callback
<1> QED BY <1>1, <1>2, <1>3, TypeCorrect, DelayedMode, PTL DEF Spec
-----------------------------------------------------------------------------
(***************************************************************************)
(* Engine implements Verdict.  What the mapping needs beyond the types: no *)
(* answers are known before the message is over, and data comes in only    *)
(* when somebody was accepted.                                             *)
(***************************************************************************)
Undecided ==
  /\ phase # "done" => answers = NoFunction
  /\ phase \in {"eoh", "body", "eom"} => recipients # NoFunction

\* Nothing is decided before the message is over.
LEMMA UndecidedAlways == Spec => []Undecided
<1>1. Init => Undecided
  BY DEF Init, Undecided
<1>2. TypeOK /\ Undecided /\ [Next]_vars => Undecided'
  <2> SUFFICES ASSUME TypeOK, Undecided, [Next]_vars PROVE Undecided'
    OBVIOUS
  <2>1. ASSUME NEW n \in Rcpt, EohCall(n) \/ EomCall(n) PROVE Undecided'
    <3>1. n \in DOMAIN recipients /\ phase \in {"eoh", "eom"}
      BY <2>1 DEF EohCall, EomCall, Earliest, TypeOK
    <3>2. CASE phase' = "done"
      BY <3>2 DEF Undecided
    <3>3. CASE /\ UNCHANGED <<phase, answers>>
               /\ \E q : recipients' = [recipients EXCEPT ![n] = q]
      <4>1. n \in DOMAIN recipients'
        BY <3>1, <3>3
      <4> QED BY <3>1, <3>3, <4>1 DEF Undecided, NoFunction
    <3> QED BY <2>1, <3>2, <3>3 DEF EohCall, EomCall
  <2>2. ASSUME NEW a \in Addr, NEW nv \in Never, EnvRcpt(a, nv) PROVE Undecided'
    BY <2>2 DEF EnvRcpt, Undecided
  <2>3. CASE Eoh \/ Body \/ Eom \/ Abort \/ EohEnd \/ EomEnd \/ UNCHANGED vars
    BY <2>3 DEF Eoh, Body, Eom, Abort, EohEnd, EomEnd, vars, Undecided
  <2> QED BY <2>1, <2>2, <2>3 DEF Next, Callback, Finished
<1> QED BY <1>1, <1>2, TypeCorrect, PTL DEF Spec

\* RCPT TO offers a recipient, who may make the class a mixed one.
LEMMA RcptOffers ==
  ASSUME TypeOK, Undecided, NEW a \in Addr, NEW nv \in Never, EnvRcpt(a, nv)
  PROVE  Promise!Offer
<1>1. /\ serial' = serial + 1 /\ phase = "rcpt"
      /\ UNCHANGED <<phase, prdr, answers>>
  BY DEF EnvRcpt
<1>2. Ended = "rcpt" /\ Ended' = "rcpt" /\ UNCHANGED Objecting
  BY <1>1 DEF Ended, Objecting
<1>3. CASE recipients' = recipients
  <2>1. UNCHANGED <<Addressees, Mixed>>
    BY <1>1, <1>2, <1>3 DEF Addressees, Mixed, OneClass
  <2> QED BY <1>1, <1>2, <2>1 DEF Promise!Offer
<1>4. CASE \E q \in Recipient : Push(serial + 1, q)
  <2>1. /\ DOMAIN recipients' = DOMAIN recipients \cup {serial'}
        /\ \A k \in DOMAIN recipients : k # serial + 1 => recipients'[k] = recipients[k]
    BY <1>1, <1>4 DEF Push
  <2>2. \A k \in DOMAIN recipients : k # serial + 1
    BY DEF TypeOK
  <2>3. Addressees' = Addressees \cup {serial'}
    BY <1>2, <2>1 DEF Addressees
  <2>4. OneClass' => OneClass
    BY <1>1, <2>1, <2>2 DEF OneClass
  <2>5. Mixed' \in {Mixed, TRUE}
    BY <1>1, <2>4, Zenon DEF Mixed
  <2> QED BY <1>1, <1>2, <2>3, <2>5 DEF Promise!Offer
<1> QED BY <1>3, <1>4, PushedRecipient

\* The loops change neither who the recipients are nor their class.
LEMMA LoopKeepsRecipients ==
  ASSUME TypeOK, NEW n \in Earliest(todo), NEW o \in Runs(pool, recipients[n]),
         recipients' = [recipients EXCEPT ![n] = Noted(pool, recipients[n], stage, o)],
         prdr' = prdr
  PROVE  DOMAIN recipients' = DOMAIN recipients /\ (OneClass' <=> OneClass)
<1> DEFINE q == Noted(pool, recipients[n], stage, o)
<1>1. q.never = recipients[n].never
  BY LoopCallType
<1>2. recipients' = [recipients EXCEPT ![n] = q]
  OBVIOUS
<1> HIDE DEF q
<1>3. /\ DOMAIN recipients' = DOMAIN recipients
      /\ \A k \in DOMAIN recipients : recipients'[k].never = recipients[k].never
  BY <1>1, <1>2
<1> QED BY <1>3 DEF OneClass

\* A step that leaves the recipients, the answers and the place in the dialogue as
\* they are is no step of the promise.
LEMMA Stutters ==
  ASSUME UNCHANGED <<serial, answers>>, phase # "rcpt", phase' # "rcpt",
         phase # "done", phase' # "done",
         DOMAIN recipients' = DOMAIN recipients, OneClass' <=> OneClass
  PROVE  UNCHANGED Promise!vars
<1>1. Ended = "data" /\ Ended' = "data"
  BY DEF Ended
<1>2. UNCHANGED <<Addressees, Objecting>>
  BY <1>1 DEF Addressees, Objecting
<1>3. UNCHANGED Mixed
  BY Zenon DEF Mixed
<1> QED BY <1>1, <1>2, <1>3 DEF Promise!vars

\* Once SetResponses has looked at the cells and somebody objects, everybody does or
\* the recipients were of several classes; either way nobody gets the message.
LEMMA ObjectionsDecide ==
  ASSUME TypeOK, SameCellsAsFirst, Undecided, NEW p,
         phase \in {"eoh", "eom"}, phase' = "done", serial' = serial,
         answers' = Answers(p), \E k \in DOMAIN recipients : Answers(p)[k] # {},
         Ended' \in {"rejected", "deferred", "died"}, OneClass => Ended' = "rejected"
  PROVE  Promise!Reject \/ Promise!Split
<1>1. Ended = "data" /\ Addressees = DOMAIN recipients /\ Addressees' = {}
  BY DEF Ended, Addressees
<1>2. DOMAIN answers' = DOMAIN recipients
  BY DEF Answers
<1>3. Objecting' = {k \in DOMAIN recipients : Answers(p)[k] # {}}
  BY <1>2 DEF Objecting
<1>4. Mixed' = FALSE /\ (Mixed <=> ~OneClass)
  BY DEF Mixed
<1>5. CASE OneClass
  <2>1. Objecting' = DOMAIN recipients
    BY <1>3, <1>5, SameAnswers
  <2> QED BY <1>1, <1>4, <1>5, <2>1 DEF Promise!Reject
<1>6. CASE ~OneClass
  <2>1. Objecting' \in (SUBSET DOMAIN recipients) \ {{}}
    BY <1>3
  <2> QED BY <1>1, <1>4, <1>6, <2>1 DEF Promise!Split
<1> QED BY <1>5, <1>6

\* A call in the loop of eoh goes on, or ends with a decision.
LEMMA EohCallPromise ==
  ASSUME TypeOK, SameCellsAsFirst, Undecided, NEW n \in Rcpt, EohCall(n)
  PROVE  Promise!Reject \/ Promise!Split \/ UNCHANGED Promise!vars
<1> DEFINE r == recipients[n]
<1>1. /\ n \in Earliest(todo) /\ phase = "eoh" /\ n \in DOMAIN recipients
      /\ UNCHANGED <<prdr, serial>>
  BY DEF EohCall, Earliest, TypeOK
<1>2. PICK o \in Runs(pool, r) :
        /\ pool' = PoolAfter(pool, r, stage, o)
        /\ IF Throws(pool, r, stage, o) = {}
           THEN /\ recipients' = [recipients EXCEPT ![n] = Noted(pool, r, stage, o)]
                /\ UNCHANGED <<phase, answers, reply>>
           ELSE /\ answers' = Answers(pool')
                /\ reply' = IF SetResponses(pool') = "nullDeref" THEN "nullDeref"
                            ELSE "REJECT"
                /\ phase' = "done"
  BY DEF EohCall
<1>3. CASE Throws(pool, r, stage, o) = {}
  <2>1. DOMAIN recipients' = DOMAIN recipients /\ (OneClass' <=> OneClass)
    BY <1>1, <1>2, <1>3, LoopKeepsRecipients
  <2> QED BY <1>1, <1>2, <1>3, <2>1, Stutters
<1>4. CASE Throws(pool, r, stage, o) # {}
  <2>1. answers = NoFunction /\ DOMAIN answers = {} /\ DOMAIN answers' # {}
    BY <1>1, <1>2, <1>4 DEF Undecided, NoFunction, Answers
  <2>2. answers' # answers
    BY <2>1
  <2>3. Ended' \in {"rejected", "died"} /\ (reply' = "REJECT" => Ended' = "rejected")
    <3>1. answers' # NoFunction
      BY <2>1, <2>2
    <3>2. reply' \in {"nullDeref", "REJECT"} /\ phase' = "done"
      BY <1>2, <1>4
    <3> QED BY <3>1, <3>2 DEF Ended, Smfi
  <2>4. \E k \in DOMAIN recipients : Answers(pool')[k] # {}
    BY <1>1, <1>2, <1>4, CallObjects
  <2>5. OneClass => reply' = "REJECT"
    BY <2>2, EohAnswer
  <2> QED BY <1>1, <1>2, <1>4, <2>3, <2>4, <2>5, ObjectionsDecide
<1> QED BY <1>3, <1>4

\* A rejection in eom ends the daemon; until then the loop goes on.
LEMMA EomCallPromise ==
  ASSUME TypeOK, Undecided, NEW n \in Rcpt, EomCall(n)
  PROVE  Promise!Die \/ UNCHANGED Promise!vars
<1> DEFINE r == recipients[n]
<1>1. /\ n \in Earliest(todo) /\ phase = "eom"
      /\ UNCHANGED <<prdr, serial, answers>>
  BY DEF EomCall
<1>2. PICK o \in Runs(pool, r) :
        /\ recipients' = [recipients EXCEPT ![n] = Noted(pool, r, stage, o)]
        /\ \/ UNCHANGED <<phase, reply>>
           \/ phase' = "done" /\ reply' = "terminated"
  BY DEF EomCall
<1>3. DOMAIN recipients' = DOMAIN recipients /\ (OneClass' <=> OneClass)
  BY <1>1, <1>2, LoopKeepsRecipients
<1>4. CASE phase' = phase
  BY <1>1, <1>3, <1>4, Stutters
<1>5. CASE phase' = "done" /\ reply' = "terminated"
  <2>1. Ended = "data" /\ Ended' = "died"
    BY <1>1, <1>5 DEF Ended, Smfi
  <2>2. Addressees' = {} /\ Mixed' = FALSE /\ UNCHANGED Objecting
    BY <1>1, <1>5, <2>1 DEF Addressees, Mixed, Objecting
  <2> QED BY <1>1, <2>1, <2>2 DEF Promise!Die
<1> QED BY <1>2, <1>4, <1>5

\* The answer of eom.
LEMMA EomEndPromise ==
  ASSUME TypeOK, SameCellsAsFirst, Undecided, EomEnd
  PROVE  Promise!Deliver \/ Promise!Reject \/ Promise!Split
<1> DEFINE nulls == {k \in DOMAIN recipients : Answers(pool)[k] = {}}
<1>1. /\ phase = "eom" /\ phase' = "done"
      /\ UNCHANGED <<serial, recipients, prdr>>
      /\ answers' = Answers(pool) /\ reply' = SetResponses(pool)
      /\ DOMAIN Answers(pool) = DOMAIN recipients
  BY DEF EomEnd, Answers
<1>2. DOMAIN recipients # {}
  <2>1. recipients \in [DOMAIN recipients -> Recipient] /\ recipients # NoFunction
    BY <1>1 DEF TypeOK, Undecided
  <2> QED BY <2>1 DEF NoFunction
<1>3. answers' # NoFunction
  <2>1. DOMAIN NoFunction = {}
    BY DEF NoFunction
  <2> QED BY <1>1, <1>2, <2>1
<1>4. CASE nulls = DOMAIN recipients
  <2>1. Ended = "data" /\ Ended' = "delivered"
    BY <1>1, <1>3, <1>4 DEF Ended, SetResponses, Smfi
  <2>2. UNCHANGED Addressees /\ Mixed' = FALSE
    BY <1>1, <2>1 DEF Addressees, Mixed
  <2>3. DOMAIN answers = {}
    BY <1>1 DEF Undecided, NoFunction
  <2>4. UNCHANGED Objecting
    BY <1>1, <1>4, <2>3 DEF Objecting
  <2> QED BY <1>1, <2>1, <2>2, <2>4 DEF Promise!Deliver
<1>5. CASE nulls # DOMAIN recipients
  <2>1. \E k \in DOMAIN recipients : Answers(pool)[k] # {}
    BY <1>5
  <2>2. SetResponses(pool) \in {"REJECT", "TEMPFAIL", "nullDeref"}
    BY <1>5 DEF SetResponses
  <2>3. /\ Ended' \in {"rejected", "deferred", "died"}
        /\ SetResponses(pool) = "REJECT" => Ended' = "rejected"
    BY <1>1, <1>3, <2>2 DEF Ended, Smfi
  <2>4. OneClass => SetResponses(pool) = "REJECT"
    BY <2>2, UniformResponse
  <2> QED BY <1>1, <2>1, <2>3, <2>4, ObjectionsDecide
<1> QED BY <1>4, <1>5

\* Every step of a message is a step of the promise or none at all.
LEMMA StepPromise ==
  ASSUME TypeOK, SameCellsAsFirst, Undecided, [Next]_vars
  PROVE  [Promise!Next]_(Promise!vars)
<1>1. ASSUME NEW a \in Addr, NEW nv \in Never, EnvRcpt(a, nv) PROVE Promise!Next
  BY <1>1, RcptOffers DEF Promise!Next
<1>2. CASE Eoh
  <2>1. phase = "rcpt" /\ phase' = "eoh" /\ recipients # NoFunction
    BY <1>2 DEF Eoh
  <2>2. UNCHANGED <<serial, recipients, prdr, answers>>
    BY <1>2 DEF Eoh
  <2>3. DOMAIN recipients # {}
    BY <2>1 DEF TypeOK, NoFunction
  <2>4. Ended = "rcpt" /\ Ended' = "data"
    BY <2>1 DEF Ended
  <2>5. Addressees # {} /\ UNCHANGED <<Addressees, Objecting>>
    BY <2>2, <2>3, <2>4 DEF Addressees, Objecting
  <2>6. UNCHANGED Mixed
    BY <2>1, <2>2 DEF Mixed, OneClass
  <2> QED BY <2>2, <2>4, <2>5, <2>6 DEF Promise!Data, Promise!Next
<1>3. CASE Body \/ Eom \/ (EohEnd /\ phase' = "body")
  <2>1. /\ phase \notin {"rcpt", "done"} /\ phase' \notin {"rcpt", "done"}
        /\ UNCHANGED <<serial, recipients, prdr, answers>>
    BY <1>3 DEF Body, Eom, EohEnd
  <2>2. OneClass' <=> OneClass
    BY <2>1 DEF OneClass
  <2> QED BY <2>1, <2>2, Stutters
<1>4. CASE EohEnd /\ phase' # "body"
  <2>1. /\ phase = "eoh" /\ phase' = "done" /\ reply' = "wrongCell"
        /\ UNCHANGED <<serial, answers>>
    BY <1>4 DEF EohEnd
  <2>2. Ended = "data" /\ Ended' = "died"
    BY <2>1 DEF Ended, Smfi
  <2>3. Addressees' = {} /\ Mixed' = FALSE /\ UNCHANGED Objecting
    BY <2>1, <2>2 DEF Addressees, Mixed, Objecting
  <2> QED BY <2>1, <2>2, <2>3 DEF Promise!Die, Promise!Next
<1>5. CASE Abort
  <2>1. /\ phase \in {"rcpt", "body"} /\ phase' = "done" /\ reply' = "CONTINUE"
        /\ UNCHANGED <<serial, answers>> /\ answers = NoFunction
    BY <1>5 DEF Abort, Undecided
  <2>2. Ended \in {"rcpt", "data"} /\ Ended' = "givenUp"
    BY <2>1 DEF Ended, Smfi
  <2>3. Addressees' = {} /\ Mixed' = FALSE /\ UNCHANGED Objecting
    BY <2>1, <2>2 DEF Addressees, Mixed, Objecting
  <2> QED BY <2>1, <2>2, <2>3 DEF Promise!GiveUp, Promise!Next
<1>6. ASSUME NEW n \in Rcpt, EohCall(n) PROVE [Promise!Next]_(Promise!vars)
  BY <1>6, EohCallPromise DEF Promise!Next
<1>7. ASSUME NEW n \in Rcpt, EomCall(n) PROVE [Promise!Next]_(Promise!vars)
  BY <1>7, EomCallPromise DEF Promise!Next
<1>8. CASE EomEnd
  BY <1>8, EomEndPromise DEF Promise!Next
<1>9. CASE UNCHANGED vars
  <2>1. UNCHANGED <<Ended, OneClass>>
    BY <1>9 DEF vars, Ended, OneClass
  <2>2. UNCHANGED <<Addressees, Objecting, Mixed>>
    BY <1>9, <2>1 DEF vars, Addressees, Objecting, Mixed
  <2> QED BY <1>9, <2>1, <2>2 DEF vars, Promise!vars
<1> QED
  BY <1>1, <1>2, <1>3, <1>4, <1>5, <1>6, <1>7, <1>8, <1>9 DEF Next, Callback, Finished

\* A message gets one outcome for all its recipients, whatever the modules do: it is
\* delivered only if none objects, and one class objects as a whole.
THEOREM Refinement == Spec => OneVerdict
<1>1. Init => Promise!Init
  <2> SUFFICES ASSUME Init PROVE Promise!Init
    OBVIOUS
  <2>1. Ended = "rcpt" /\ Addressees = {} /\ Objecting = {} /\ serial = 0
    BY DEF Init, NoFunction, Ended, Addressees, Objecting
  <2>2. Mixed \in BOOLEAN
    BY Zenon DEF Mixed
  <2> QED BY <2>1, <2>2 DEF Promise!Init
<1>2. TypeOK /\ SameCellsAsFirst /\ Undecided /\ [Next]_vars
        => [Promise!Next]_(Promise!vars)
  BY StepPromise
<1>3. [][Next]_vars /\ []TypeOK /\ []SameCellsAsFirst /\ []Undecided
        => [][Promise!Next]_(Promise!vars)
  BY <1>2, PTL
<1>4. Spec => Promise!Spec
  BY <1>1, <1>3, TypeCorrect, DelayedMode, UndecidedAlways, PTL DEF Spec, Promise!Spec
<1> QED BY <1>4 DEF OneVerdict
-----------------------------------------------------------------------------
(***************************************************************************)
(* A message is what Session says of a first message.  While it is open,   *)
(* the Privdata that Session sees depends on the side of eoh only (Seen).  *)
(* The truth values in it have names, for the provers.                     *)
(***************************************************************************)
Yes == TRUE
No  == FALSE

\* The Privdata as Session sees it: stage, sender, recipients, cells, body, bytes,
\* and whether there is data of the modules.
Data(st, from, rs, cs, bd, bs, lv) ==
  [stage |-> st, envfrom |-> from, recipients |-> rs, pool |-> cs, headers |-> {},
   body |-> bd, array |-> Yes, bytes |-> bs, parser |-> NoFunction, live |-> lv,
   replaceFrom |-> No]

Before == phase \in {"rcpt", "eoh"}
Sender == IF envfrom = "address" THEN envfrom ELSE "empty"
Heads  == FirstIf(recipients # NoFunction)
Pooled == FirstIf(pool # NoFunction)
Read   == FirstIf(body)

StageFits ==
  /\ phase = "rcpt" => stage = "RCPT"
  /\ phase \in {"eoh", "body"} => stage = "HEADERS"
  /\ phase = "eom" => stage = "BODY"
  /\ Before => ~body

Seen ==
  phase # "done" =>
    /\ Dialogue = IF Before THEN "rcpt" ELSE "body"
    /\ Kept = Data(IF Before THEN "RCPT" ELSE "HEADERS", Sender, Heads, Pooled, Read, Read,
                   Yes)

\* What a message that has ended leaves: nothing has changed if the daemon has died in
\* the callback, and otherwise SetResponses has taken away the modules' data.
SeenDone ==
  phase = "done" =>
    /\ Ended \in {"givenUp", "died", "delivered", "rejected", "deferred"}
    /\ Ended = "givenUp" => Dialogue = "idle" /\ Kept = NoFunction
    /\ Ended = "died" =>
         /\ Dialogue = "dead"
         /\ Kept = Data(IF stage = "HEADERS" THEN "RCPT" ELSE "HEADERS", Sender, {1}, Pooled,
                        Read, Read, Yes)
    /\ Ended \in {"delivered", "rejected", "deferred"} =>
         Dialogue = "idle" /\ Kept = Data(stage, Sender, Heads, Pooled, Read, Read, No)

\* The stage goes with the callbacks, and the body comes after eoh.
LEMMA StageFitsAlways == Spec => []StageFits
<1>1. Init => StageFits
  BY DEF Init, StageFits, Before
<1>2. StageFits /\ [Next]_vars => StageFits'
  <2> SUFFICES ASSUME StageFits, [Next]_vars PROVE StageFits'
    OBVIOUS
  <2>1. CASE \E a \in Addr, nv \in Never : EnvRcpt(a, nv)
    BY <2>1 DEF EnvRcpt, StageFits, Before
  <2>2. ASSUME NEW n \in Rcpt, EohCall(n) \/ EomCall(n) PROVE StageFits'
    <3>1. UNCHANGED <<stage, body>> /\ phase' \in {phase, "done"}
      BY <2>2 DEF EohCall, EomCall
    <3> QED BY <3>1 DEF StageFits, Before
  <2>3. CASE Eoh \/ Body \/ Eom \/ Abort \/ EohEnd \/ EomEnd \/ UNCHANGED vars
    BY <2>3 DEF Eoh, Body, Eom, Abort, EohEnd, EomEnd, vars, StageFits, Before
  <2> QED BY <2>1, <2>2, <2>3 DEF Next, Callback, Finished
<1> QED BY <1>1, <1>2, PTL DEF Spec

\* The mapping says so.
LEMMA Sights == TypeOK /\ StageFits => Seen /\ SeenDone
<1> SUFFICES ASSUME TypeOK, StageFits PROVE Seen /\ SeenDone
  OBVIOUS
<1>1. phase \in {"rcpt", "eoh", "body", "eom", "done"}
  BY DEF TypeOK
<1>2. ASSUME phase # "done" PROVE Seen
  <2>1. Ended \in {"rcpt", "data"} /\ Ended # "died" /\ Ended # "givenUp"
    BY <1>2 DEF Ended
  <2>2. (Ended \in {"rcpt", "data", "died"}) = TRUE
    BY <2>1
  <2>3. FirstIf(recipients # NoFunction \/ Ended = "died") = Heads
    BY <2>1 DEF Heads, FirstIf
  <2>4. StageSeen = (IF Before THEN "RCPT" ELSE "HEADERS")
    BY <1>1, <1>2, <2>1 DEF StageFits, StageSeen, Halfway, Before
  <2>5. Dialogue = IF Before THEN "rcpt" ELSE "body"
    BY <1>2, <2>1 DEF Dialogue, Before
  <2> QED BY <2>1, <2>2, <2>3, <2>4, <2>5
             DEF Seen, Kept, Data, Sender, Pooled, Read, Yes, No
<1>3. ASSUME phase = "done" PROVE SeenDone
  <2>1. Ended \in {"givenUp", "died", "delivered", "rejected", "deferred"}
    BY <1>3 DEF Ended
  <2>2. Dialogue = IF Ended = "died" THEN "dead" ELSE "idle"
    BY <1>3 DEF Dialogue
  <2>3. CASE Ended = "givenUp"
    BY <2>2, <2>3 DEF SeenDone, Kept
  <2>4. CASE Ended = "died"
    <3>1. /\ (Ended \in {"rcpt", "data", "died"}) = TRUE
          /\ FirstIf(recipients # NoFunction \/ Ended = "died") = {1}
      BY <2>4 DEF FirstIf
    <3>2. StageSeen = IF stage = "HEADERS" THEN "RCPT" ELSE "HEADERS"
      BY <2>4 DEF StageSeen, Halfway
    <3> QED BY <2>2, <2>4, <3>1, <3>2
               DEF SeenDone, Kept, Data, Sender, Pooled, Read, Yes, No
  <2>5. CASE Ended \in {"delivered", "rejected", "deferred"}
    <3>1. /\ (Ended \in {"rcpt", "data", "died"}) = FALSE
          /\ FirstIf(recipients # NoFunction \/ Ended = "died") = Heads
      BY <2>5 DEF Heads, FirstIf
    <3>2. StageSeen = stage
      BY <1>3, <2>5 DEF StageSeen, Halfway
    <3> QED BY <2>2, <2>5, <3>1, <3>2
               DEF SeenDone, Kept, Data, Sender, Pooled, Read, Yes, No
  <2> QED BY <2>1, <2>3, <2>4, <2>5
<1>4. (phase = "done" => Seen) /\ (phase # "done" => SeenDone)
  BY DEF Seen, SeenDone
<1> QED BY <1>2, <1>3, <1>4

\* What the callbacks of Session make of the Privdata of an open message.
LEMMA ConnectionData ==
  ASSUME NEW st, Kept = Data(st, Sender, {1}, Pooled, Read, Read, Yes)
  PROVE  /\ Connection!ClearModules(Kept) = Data(st, Sender, {1}, Pooled, Read, Read, No)
         /\ Connection!EohRejects = Data("HEADERS", Sender, {}, Pooled, Read, Read, No)
         /\ Connection!EohAccepts(TRUE) = Data("HEADERS", Sender, {1}, Pooled, {}, Read, Yes)
         /\ Connection!EohAccepts(FALSE) = Data("HEADERS", "empty", {1}, Pooled, {}, Read, Yes)
<1>1. Connection!ClearModules(Kept) = Data(st, Sender, {1}, Pooled, Read, Read, No)
  <2>1. Connection!ClearModules(Kept) = [Kept EXCEPT !.live = No]
    BY DEF Connection!ClearModules, No
  <2>2. [Kept EXCEPT !.live = No] = Data(st, Sender, {1}, Pooled, Read, Read, No)
    BY DEF Data
  <2> QED BY <2>1, <2>2
<1>2. Connection!EohRejects = Data("HEADERS", Sender, {}, Pooled, Read, Read, No)
  <2> DEFINE p == Connection!ClearModules(Kept)
             q == [p EXCEPT !.stage = "HEADERS"]
  <2>1. p = Data(st, Sender, {1}, Pooled, Read, Read, No)
    BY <1>1
  <2> HIDE DEF p
  <2>2. q = Data("HEADERS", Sender, {1}, Pooled, Read, Read, No)
    BY <2>1 DEF Data
  <2>3. [p EXCEPT !.stage = "HEADERS", !.recipients = {}] = [q EXCEPT !.recipients = {}]
    OBVIOUS
  <2> HIDE DEF q
  <2>4. [q EXCEPT !.recipients = {}] = Data("HEADERS", Sender, {}, Pooled, Read, Read, No)
    BY <2>2 DEF Data
  <2> QED BY <2>3, <2>4 DEF p, Connection!EohRejects
<1>3. Connection!EohAccepts(TRUE) = Data("HEADERS", Sender, {1}, Pooled, {}, Read, Yes)
  <2> DEFINE q == [Kept EXCEPT !.stage = "HEADERS"]
  <2>1. q = Data("HEADERS", Sender, {1}, Pooled, Read, Read, Yes)
    BY DEF Data
  <2>2. [Kept EXCEPT !.stage = "HEADERS", !.body = {}] = [q EXCEPT !.body = {}]
    OBVIOUS
  <2> HIDE DEF q
  <2>3. [q EXCEPT !.body = {}] = Data("HEADERS", Sender, {1}, Pooled, {}, Read, Yes)
    BY <2>1 DEF Data
  <2> QED BY <2>2, <2>3 DEF Connection!EohAccepts
<1>4. Connection!EohAccepts(FALSE) = Data("HEADERS", "empty", {1}, Pooled, {}, Read, Yes)
  <2> DEFINE q == [Kept EXCEPT !.stage = "HEADERS"]
             r == [q EXCEPT !.envfrom = "empty"]
             s == [r EXCEPT !.headers = {}]
  <2>1. q = Data("HEADERS", Sender, {1}, Pooled, Read, Read, Yes)
    BY DEF Data
  <2>2. [Kept EXCEPT !.stage = "HEADERS", !.envfrom = "empty", !.headers = {}, !.body = {}]
          = [s EXCEPT !.body = {}]
    OBVIOUS
  <2> HIDE DEF q
  <2>3. r = Data("HEADERS", "empty", {1}, Pooled, Read, Read, Yes)
    BY <2>1 DEF Data
  <2> HIDE DEF r
  <2>4. s = r
    BY <2>3 DEF Data
  <2> HIDE DEF s
  <2>5. [s EXCEPT !.body = {}] = Data("HEADERS", "empty", {1}, Pooled, {}, Read, Yes)
    BY <2>3, <2>4 DEF Data
  <2> QED BY <2>2, <2>5 DEF Connection!EohAccepts
<1> QED BY <1>1, <1>2, <1>3, <1>4

\* RCPT TO leaves cells in the pool, whether or not the recipient is accepted: there
\* is at least one module.
LEMMA RcptLeavesCells ==
  ASSUME TypeOK, NEW a \in Addr, NEW nv \in Never, EnvRcpt(a, nv)
  PROVE  pool' # NoFunction
<1> DEFINE n == serial + 1
<1>1. n \in Rcpt
  BY DEF EnvRcpt
<1>2. PICK cells \in CellsFor(a, n) :
        LET r == [address |-> a, never |-> nv, modules |-> cells, asked |-> {}]
            p == PoolWith(r, n)
        IN  \E o \in Runs(p, r) : EnvRcptOutcome(n, r, p, o)
  BY Zenon DEF EnvRcpt
<1> DEFINE r == [address |-> a, never |-> nv, modules |-> cells, asked |-> {}]
           p == PoolWith(r, n)
<1>3. PICK o \in Runs(p, r) : EnvRcptOutcome(n, r, p, o)
  BY Zenon, <1>2
<1>4. nv \in BOOLEAN
  BY EngineAssumption
<1>5. \A m \in Mods : CellOf(r, m) \in DOMAIN p
  BY <1>1, <1>4, CellsForType
<1> HIDE DEF r, p
<1>6. DOMAIN pool' = DOMAIN p
  BY <1>3 DEF EnvRcptOutcome, PoolAfter
<1>7. 1 \in Mods /\ DOMAIN NoFunction = {}
  BY EngineAssumption DEF Mods, NoFunction
<1> QED BY <1>5, <1>6, <1>7

\* The loops make no cells and remove none.
LEMMA LoopKeepsPool ==
  ASSUME TypeOK, NEW n \in Rcpt, EohCall(n) \/ EomCall(n)
  PROVE  UNCHANGED Pooled
<1>1. DOMAIN pool' = DOMAIN pool
  BY DEF EohCall, EomCall, PoolAfter
<1>2. \E o : pool' = PoolAfter(pool, recipients[n], stage, o)
  BY DEF EohCall, EomCall
<1>3. pool = [c \in DOMAIN pool |-> pool[c]] /\ pool' = [c \in DOMAIN pool' |-> pool'[c]]
  BY <1>2 DEF TypeOK, PoolAfter
<1>4. pool' = NoFunction <=> pool = NoFunction
  BY <1>1, <1>3 DEF NoFunction
<1> QED BY <1>4 DEF Pooled, FirstIf

\* Once SetResponses has looked at the cells there are answers.
LEMMA AnswersGiven ==
  ASSUME TypeOK, recipients # NoFunction, NEW p
  PROVE  Answers(p) # NoFunction
<1>1. DOMAIN recipients # {} /\ DOMAIN NoFunction = {}
  BY DEF TypeOK, NoFunction
<1> QED BY <1>1 DEF Answers

\* A step within a callback, or on the way to it, is none of the connection's.
LEMMA CallbackGoesOn ==
  ASSUME Seen, Seen', phase # "done", phase' # "done", Before' <=> Before,
         UNCHANGED <<envfrom, body, Pooled>>,
         recipients # NoFunction, recipients' # NoFunction
  PROVE  UNCHANGED Connection!vars
<1>1. UNCHANGED <<Sender, Heads, Read>>
  BY DEF Sender, Heads, Read, FirstIf
<1> QED BY <1>1 DEF Seen, Connection!vars

\* RCPT TO: cells are made in any case, and an accepted recipient is kept.
LEMMA RcptOfConnection ==
  ASSUME TypeOK, Seen, Seen', NEW a \in Addr, NEW nv \in Never, EnvRcpt(a, nv)
  PROVE  Connection!Next
<1>1. phase = "rcpt" /\ UNCHANGED <<phase, Sender, Read>>
  BY DEF EnvRcpt, Sender, Read
<1>2. /\ Dialogue = "rcpt" /\ Dialogue' = "rcpt"
      /\ Kept = Data("RCPT", Sender, Heads, Pooled, Read, Read, Yes)
      /\ Kept' = Data("RCPT", Sender, Heads', Pooled', Read, Read, Yes)
  BY <1>1 DEF Seen, Before
<1>3. Pooled' = {1} /\ Pooled \cup {1} = {1}
  BY RcptLeavesCells DEF Pooled, FirstIf
<1>4. Heads' = Heads \/ Heads' = Heads \cup {1}
  <2>1. ASSUME NEW q, Push(serial + 1, q) PROVE recipients' # NoFunction
    <3>1. serial + 1 \in DOMAIN recipients' /\ DOMAIN NoFunction = {}
      BY <2>1 DEF Push, NoFunction
    <3> QED BY <3>1
  <2>2. recipients' = recipients \/ recipients' # NoFunction
    BY <2>1, PushedRecipient
  <2> QED BY <2>2 DEF Heads, FirstIf
<1> DEFINE q == [Kept EXCEPT !.pool = Pooled \cup {1}]
<1>5. /\ Kept.pool = Pooled /\ Kept.recipients = Heads
      /\ q = Data("RCPT", Sender, Heads, {1}, Read, Read, Yes)
  BY <1>2, <1>3 DEF Data
<1>6. \A rs : [Kept EXCEPT !.pool = Pooled \cup {1}, !.recipients = rs]
                = [q EXCEPT !.recipients = rs]
  OBVIOUS
<1> HIDE DEF q
<1>7. \A rs : [q EXCEPT !.recipients = rs]
                = Data("RCPT", Sender, rs, {1}, Read, Read, Yes)
  BY <1>5 DEF Data
<1>8. \A rs : [Kept EXCEPT !.pool = Pooled \cup {1}, !.recipients = rs]
                = Data("RCPT", Sender, rs, {1}, Read, Read, Yes)
  BY <1>6, <1>7
<1>9. CASE Heads' = Heads
  <2>1. Connection!EnvRcpt(FALSE, TRUE)
    BY <1>2, <1>3, <1>5, <1>8, <1>9 DEF Connection!EnvRcpt
  <2> QED BY <2>1 DEF Connection!Next
<1>10. CASE Heads' = Heads \cup {1}
  <2>1. Connection!EnvRcpt(TRUE, TRUE)
    BY <1>2, <1>3, <1>5, <1>8, <1>10 DEF Connection!EnvRcpt
  <2> QED BY <2>1 DEF Connection!Next
<1> QED BY <1>4, <1>9, <1>10

\* What eoh finds.
LEMMA EohBegins ==
  ASSUME Undecided, StageFits, Seen, phase = "eoh"
  PROVE  /\ Dialogue = "rcpt" /\ Kept = Data("RCPT", Sender, {1}, Pooled, Read, Read, Yes)
         /\ Read = {} /\ stage = "HEADERS" /\ recipients # NoFunction
         /\ Connection!MayEndHeaders
<1>1. /\ recipients # NoFunction /\ ~body /\ stage = "HEADERS"
      /\ Dialogue = "rcpt" /\ Kept = Data("RCPT", Sender, Heads, Pooled, Read, Read, Yes)
  BY DEF Undecided, StageFits, Seen, Before
<1>2. Heads = {1} /\ Read = {}
  BY <1>1 DEF Heads, Read, FirstIf
<1>3. Connection!MayEndHeaders
  BY <1>1, <1>2 DEF Data, Connection!MayEndHeaders, Connection!MaySendData
<1> QED BY <1>1, <1>2, <1>3

\* A callback that ends the daemon leaves the Privdata as it was.
LEMMA DeathOfConnection ==
  ASSUME SeenDone', phase' = "done", reply' \notin Smfi, UNCHANGED <<Sender, Read, Pooled>>,
         Connection!MayEndHeaders \/ Dialogue = "body",
         Kept = Data(IF stage' = "HEADERS" THEN "RCPT" ELSE "HEADERS", Sender, {1}, Pooled,
                     Read, Read, Yes)
  PROVE  Connection!Next
<1>1. Ended' = "died"
  BY DEF Ended
<1>2. Dialogue' = "dead" /\ Kept' = Kept
  BY <1>1 DEF SeenDone
<1>3. Connection!Dies
  BY <1>2 DEF Connection!Dies
<1> QED BY <1>3 DEF Connection!Next

\* A rejection at the end of the headers: no recipients and no data of the modules.
LEMMA EohCallOfConnection ==
  ASSUME TypeOK, Undecided, StageFits, Seen, Seen', SeenDone', NEW n \in Rcpt, EohCall(n)
  PROVE  [Connection!Next]_(Connection!vars)
<1>1. /\ phase = "eoh" /\ n \in DOMAIN recipients
      /\ UNCHANGED <<stage, envfrom, body>> /\ UNCHANGED <<Sender, Read, Pooled>>
  <2>1. phase = "eoh" /\ n \in DOMAIN recipients /\ UNCHANGED <<stage, envfrom, body>>
    BY DEF EohCall, Earliest, TypeOK
  <2> QED BY <2>1, LoopKeepsPool DEF Sender, Read
<1>2. \/ /\ UNCHANGED phase
         /\ \E q : recipients' = [recipients EXCEPT ![n] = q]
      \/ /\ \E p : answers' = Answers(p)
         /\ reply' \in {"nullDeref", "REJECT"}
         /\ recipients' = NoFunction /\ phase' = "done"
  BY DEF EohCall
<1>3. CASE UNCHANGED phase /\ \E q : recipients' = [recipients EXCEPT ![n] = q]
  <2>1. n \in DOMAIN recipients' /\ DOMAIN NoFunction = {}
    BY <1>1, <1>3 DEF NoFunction
  <2>2. recipients' # NoFunction
    BY <2>1
  <2> QED BY <1>1, <1>3, <2>2, EohBegins, CallbackGoesOn DEF Before
<1>4. CASE /\ \E p : answers' = Answers(p)
           /\ reply' = "REJECT"
           /\ recipients' = NoFunction /\ phase' = "done"
  <2>1. Ended' = "rejected"
    BY <1>1, <1>4, EohBegins, AnswersGiven DEF Ended, Smfi
  <2>2. Heads' = {} /\ stage' = "HEADERS"
    BY <1>1, <1>4, EohBegins DEF Heads, FirstIf
  <2>3. /\ Dialogue' = "idle"
        /\ Kept' = Data("HEADERS", Sender, {}, Pooled, Read, Read, No)
    BY <1>1, <1>4, <2>1, <2>2 DEF SeenDone
  <2>4. Kept' = Connection!EohRejects
    <3>1. Kept = Data("RCPT", Sender, {1}, Pooled, Read, Read, Yes)
      BY <1>1, EohBegins
    <3> QED BY <2>3, <3>1, ConnectionData
  <2>5. Connection!Eoh
    BY <1>1, <2>3, <2>4, EohBegins DEF Connection!Eoh
  <2> QED BY <2>5 DEF Connection!Next
<1>5. CASE reply' = "nullDeref" /\ phase' = "done"
  BY <1>1, <1>5, EohBegins, DeathOfConnection DEF Smfi
<1> QED BY <1>2, <1>3, <1>4, <1>5

\* The end of the headers without a rejection: the body is wanted or the message is
\* replaced, unless the question for the body ends the daemon.
LEMMA EohEndOfConnection ==
  ASSUME Undecided, StageFits, Seen, Seen', SeenDone', EohEnd
  PROVE  Connection!Next
<1>1. phase = "eoh" /\ UNCHANGED <<stage, Heads, Pooled, Read>>
  BY DEF EohEnd, Heads, Pooled, Read
<1>2. CASE phase' = "body" /\ envfrom' \in {envfrom, "dropped"}
  <2>1. Heads' = {1} /\ Sender' \in {Sender, "empty"}
    BY <1>1, <1>2, EohBegins DEF Heads, Sender, FirstIf
  <2>2. /\ Dialogue' = "body"
        /\ Kept' = Data("HEADERS", Sender', {1}, Pooled, {}, {}, Yes)
    BY <1>1, <1>2, <2>1, EohBegins DEF Seen, Before
  <2>3. Kept = Data("RCPT", Sender, {1}, Pooled, Read, Read, Yes) /\ Read = {}
    BY <1>1, EohBegins
  <2>4. Kept' = Connection!EohAccepts(TRUE) \/ Kept' = Connection!EohAccepts(FALSE)
    BY <2>1, <2>2, <2>3, ConnectionData
  <2>5. Connection!Eoh
    BY <1>1, <2>2, <2>4, EohBegins DEF Connection!Eoh
  <2> QED BY <2>5 DEF Connection!Next
<1>3. CASE phase' = "done" /\ reply' = "wrongCell" /\ envfrom' = envfrom
  <2>1. UNCHANGED Sender
    BY <1>3 DEF Sender
  <2> QED BY <1>1, <1>3, <2>1, EohBegins, DeathOfConnection DEF Smfi
<1> QED BY <1>2, <1>3 DEF EohEnd

\* The body is taken in; it is there only if there is a sender.
LEMMA BodyOfConnection ==
  ASSUME Undecided, StageFits, Seen, Seen', Body
  PROVE  Connection!Next
<1>1. /\ phase = "body" /\ UNCHANGED <<phase, Sender, Heads, Pooled>>
      /\ Sender = "address" /\ Read = {} /\ Read' = {1}
  BY DEF Body, Sender, Heads, Pooled, Read, FirstIf
<1>2. /\ Dialogue = "body" /\ Kept = Data("HEADERS", "address", Heads, Pooled, {}, {}, Yes)
      /\ Dialogue' = "body"
      /\ Kept' = Data("HEADERS", "address", Heads, Pooled, {1}, {1}, Yes)
  BY <1>1 DEF Seen, Before
<1> DEFINE q == [Kept EXCEPT !.bytes = {1}]
<1>3. /\ Kept.bytes = {} /\ Kept.body = {} /\ Kept.envfrom = "address"
      /\ q = Data("HEADERS", "address", Heads, Pooled, {}, {1}, Yes)
  BY <1>2 DEF Data
<1>4. [Kept EXCEPT !.bytes = {1}, !.body = {1}] = [q EXCEPT !.body = {1}]
  OBVIOUS
<1> HIDE DEF q
<1>5. [q EXCEPT !.body = {1}] = Data("HEADERS", "address", Heads, Pooled, {1}, {1}, Yes)
  BY <1>3 DEF Data
<1>6. Kept' = [Kept EXCEPT !.bytes = {} \cup {1}, !.body = {} \cup {1}]
  BY <1>2, <1>4, <1>5
<1>7. Connection!Body
  BY <1>2, <1>3, <1>6 DEF Connection!Body
<1> QED BY <1>7 DEF Connection!Next

\* The end of the message: SetResponses has run, and the modules' data is gone.
LEMMA EomEndOfConnection ==
  ASSUME TypeOK, Undecided, StageFits, Seen, SeenDone', EomEnd
  PROVE  Connection!Next
<1>1. /\ phase = "eom" /\ phase' = "done" /\ UNCHANGED <<stage, Sender, Heads, Pooled, Read>>
      /\ answers' = Answers(pool)
      /\ recipients # NoFunction /\ stage = "BODY"
  BY DEF EomEnd, Sender, Heads, Pooled, Read, Undecided, StageFits
<1>2. Heads = {1}
  BY <1>1 DEF Heads, FirstIf
<1>3. Dialogue = "body" /\ Kept = Data("HEADERS", Sender, {1}, Pooled, Read, Read, Yes)
  BY <1>1, <1>2 DEF Seen, Before
<1>4. CASE reply' \notin Smfi
  BY <1>1, <1>3, <1>4, DeathOfConnection
<1>5. CASE reply' \in Smfi
  <2>1. answers' # NoFunction
    BY <1>1, AnswersGiven
  <2>2. Ended' \in {"delivered", "rejected", "deferred"}
    BY <1>1, <1>5, <2>1 DEF Ended, Smfi
  <2>3. Dialogue' = "idle" /\ Kept' = Data("BODY", Sender, {1}, Pooled, Read, Read, No)
    BY <1>1, <1>2, <2>2 DEF SeenDone
  <2> DEFINE p == Connection!ClearModules(Kept)
             q == [p EXCEPT !.stage = "BODY"]
  <2>4. p = Data("HEADERS", Sender, {1}, Pooled, Read, Read, No)
    BY <1>3, ConnectionData
  <2> HIDE DEF p
  <2>5. p.parser = NoFunction /\ q = Data("BODY", Sender, {1}, Pooled, Read, Read, No)
    BY <2>4 DEF Data
  <2>6. [p EXCEPT !.stage = "BODY", !.parser = NoFunction] = [q EXCEPT !.parser = NoFunction]
    OBVIOUS
  <2> HIDE DEF q
  <2>7. [q EXCEPT !.parser = NoFunction] = Data("BODY", Sender, {1}, Pooled, Read, Read, No)
    BY <2>5 DEF Data
  <2>8. Kept' = [p EXCEPT !.stage = "BODY", !.parser = IF FALSE THEN 1 ELSE NoFunction]
    BY <2>3, <2>6, <2>7
  <2>9. Connection!Eom
    BY <1>3, <2>3, <2>5, <2>8 DEF p, Connection!Eom
  <2> QED BY <2>9 DEF Connection!Next
<1> QED BY <1>4, <1>5

\* Each step of a message is one of the connection's or none.
LEMMA StepOfConnection ==
  ASSUME TypeOK, Undecided, StageFits, Seen, Seen', SeenDone', [Next]_vars
  PROVE  [Connection!Next]_(Connection!vars)
<1>1. ASSUME NEW a \in Addr, NEW nv \in Never, EnvRcpt(a, nv) PROVE Connection!Next
  BY <1>1, RcptOfConnection
<1>2. CASE Eoh \/ Eom
  <2>1. /\ phase \in {"rcpt", "body"} /\ recipients # NoFunction
        /\ phase' = IF phase = "rcpt" THEN "eoh" ELSE "eom"
        /\ UNCHANGED <<envfrom, body, recipients, Pooled>>
    BY <1>2 DEF Eoh, Eom, Undecided, Pooled
  <2> QED BY <2>1, CallbackGoesOn DEF Before
<1>3. ASSUME NEW n \in Rcpt, EohCall(n) PROVE [Connection!Next]_(Connection!vars)
  BY <1>3, EohCallOfConnection
<1>4. ASSUME NEW n \in Rcpt, EomCall(n) PROVE [Connection!Next]_(Connection!vars)
  <2>1. /\ phase = "eom" /\ n \in DOMAIN recipients /\ stage = "BODY"
        /\ UNCHANGED <<stage, envfrom, body>> /\ UNCHANGED <<Sender, Read, Pooled>>
        /\ recipients # NoFunction
    <3>1. phase = "eom" /\ n \in DOMAIN recipients /\ UNCHANGED <<stage, envfrom, body>>
      BY <1>4 DEF EomCall, Earliest, TypeOK
    <3>2. UNCHANGED <<Sender, Read, Pooled>>
      BY <1>4, <3>1, LoopKeepsPool DEF Sender, Read
    <3> QED BY <3>1, <3>2 DEF Undecided, StageFits
  <2>2. \E q : recipients' = [recipients EXCEPT ![n] = q]
    BY <1>4 DEF EomCall
  <2>3. n \in DOMAIN recipients' /\ DOMAIN NoFunction = {}
    BY <2>1, <2>2 DEF NoFunction
  <2>4. CASE UNCHANGED phase
    BY <2>1, <2>3, <2>4, CallbackGoesOn DEF Before
  <2>5. CASE phase' = "done" /\ reply' = "terminated"
    <3>1. Heads = {1}
      BY <2>1 DEF Heads, FirstIf
    <3>2. Dialogue = "body" /\ Kept = Data("HEADERS", Sender, {1}, Pooled, Read, Read, Yes)
      BY <2>1, <3>1 DEF Seen, Before
    <3> QED BY <2>1, <2>5, <3>2, DeathOfConnection DEF Smfi
  <2> QED BY <1>4, <2>4, <2>5 DEF EomCall
<1>5. CASE EohEnd
  BY <1>5, EohEndOfConnection
<1>6. CASE Body
  BY <1>6, BodyOfConnection
<1>7. CASE EomEnd
  BY <1>7, EomEndOfConnection
<1>8. CASE Abort
  <2>1. /\ phase \in {"rcpt", "body"} /\ phase' = "done" /\ reply' = "CONTINUE"
        /\ answers' = NoFunction
    BY <1>8 DEF Abort, Undecided
  <2>2. Dialogue \in {"rcpt", "body"}
    BY <2>1 DEF Seen, Before
  <2>3. Ended' = "givenUp"
    BY <2>1 DEF Ended, Smfi
  <2>4. Dialogue' = "idle" /\ Kept' = NoFunction
    BY <2>1, <2>3 DEF SeenDone
  <2>5. Connection!Abort
    BY <2>2, <2>4 DEF Connection!Abort, Connection!InMail
  <2> QED BY <2>5 DEF Connection!Next
<1>9. CASE UNCHANGED vars
  BY <1>9 DEF vars, Connection!vars, Dialogue, Kept, Ended, StageSeen, Halfway
<1> QED
  BY <1>1, <1>2, <1>3, <1>4, <1>5, <1>6, <1>7, <1>8, <1>9 DEF Next, Callback, Finished

\* The matrix decides within what the connection allows: a message is what Session
\* says of the first one, whatever the modules answer.
THEOREM PartOfConnection == Spec => MessageOfConnection
<1> DEFINE Begins == /\ Dialogue = "rcpt" /\ Kept.stage = "RCPT" /\ Kept.live
                     /\ \A held \in {"recipients", "pool", "body", "bytes"} : Kept[held] = {}
<1>1. TypeOK /\ StageFits /\ Init => Begins
  <2> SUFFICES ASSUME TypeOK, StageFits, Init PROVE Begins
    OBVIOUS
  <2>1. Heads = {} /\ Pooled = {} /\ Read = {} /\ phase = "rcpt"
    BY DEF Init, Heads, Pooled, Read, FirstIf
  <2>2. Dialogue = "rcpt" /\ Kept = Data("RCPT", Sender, {}, {}, {}, {}, Yes)
    BY <2>1, Sights DEF Seen, Before
  <2> QED BY <2>2 DEF Data, Yes
<1>2. TypeOK /\ StageFits => Seen /\ SeenDone
  BY Sights
<1>3. /\ TypeOK /\ Undecided /\ StageFits /\ Seen /\ Seen' /\ SeenDone' /\ [Next]_vars
      => [Connection!Next]_(Connection!vars)
  BY StepOfConnection
<1>4. Spec => Begins /\ [][Connection!Next]_(Connection!vars)
  BY <1>1, <1>2, <1>3, TypeCorrect, UndecidedAlways, StageFitsAlways, PTL DEF Spec
<1> QED BY <1>4 DEF MessageOfConnection
-----------------------------------------------------------------------------
(***************************************************************************)
(* What one call of the operator leaves in the cells.                      *)
(***************************************************************************)
\* What a run makes of a cell.
LEMMA AfterRunFacts ==
  ASSUME NEW c \in CellState, NEW s \in Stage, NEW o \in Outcome
  PROVE  /\ AfterRun(c, s, o).flags = {}
         /\ "RCPT" \in AfterRun(c, s, o).want <=> "RCPT" \in c.want
         /\ o = "pass" => AfterRun(c, s, o).smfi = c.smfi
         /\ o \in Failure => AfterRun(c, s, o).smfi = "CONTINUE"
         /\ o \notin Failure \cup {"pass"} => AfterRun(c, s, o).smfi = o /\ o # "CONTINUE"
<1>1. LogicalNot({"FAILED"}) = {}
  BY DEF LogicalNot
<1>2. "RCPT" \notin Needs(o)
  BY DEF Needs
<1> QED BY <1>1, <1>2 DEF AfterRun, CellState, Failure, Outcome

\* The call changes the cells of the modules it has executed, and no others.
LEMMA CellAfter ==
  ASSUME NEW p, NEW r, NEW s, NEW o, NEW c \in DOMAIN p
  PROVE  /\ DOMAIN PoolAfter(p, r, s, o) = DOMAIN p
         /\ \/ \E m \in Executed(p, r, s, o) :
                 c = CellOf(r, m) /\ PoolAfter(p, r, s, o)[c] = AfterRun(p[c], s, o[m])
            \/ /\ PoolAfter(p, r, s, o)[c] = p[c]
               /\ \A m \in Executed(p, r, s, o) : c # CellOf(r, m)
<1>1. DOMAIN PoolAfter(p, r, s, o) = DOMAIN p
  BY DEF PoolAfter
<1>2. CASE \E m \in Executed(p, r, s, o) : c = CellOf(r, m)
  <2>1. PICK m \in Executed(p, r, s, o) : c = CellOf(r, m)
    BY <1>2
  <2>2. c[1] = m
    BY <2>1 DEF CellOf
  <2>3. PoolAfter(p, r, s, o)[c] = AfterRun(p[c], s, o[c[1]])
    BY <1>2 DEF PoolAfter
  <2> QED BY <1>1, <2>1, <2>2, <2>3
<1>3. CASE ~\E m \in Executed(p, r, s, o) : c = CellOf(r, m)
  BY <1>1, <1>3 DEF PoolAfter
<1> QED BY <1>2, <1>3

\* A call that throws nothing has left an acceptance in every cell it has changed,
\* and has passed over a module only behind one that failed.
LEMMA Accepts ==
  ASSUME NEW p, p \in [DOMAIN p -> CellState], NEW r,
         \A m \in Mods : CellOf(r, m) \in DOMAIN p,
         NEW s \in Stage, NEW o \in [Due(p, r, s) -> Outcome],
         Throws(p, r, s, o) = {}
  PROVE  /\ \A m \in Executed(p, r, s, o) :
              /\ AfterRun(p[CellOf(r, m)], s, o[m]).smfi = "CONTINUE"
              /\ o[m] \in Failure \cup {"pass"}
         /\ \A m \in Due(p, r, s) \ Executed(p, r, s, o) :
              \E k \in Executed(p, r, s, o) : k < m /\ o[k] \in Failure
<1> DEFINE S == Stops(p, r, s, o)
           X == Executed(p, r, s, o)
<1>1. S \subseteq Due(p, r, s) /\ X \subseteq Due(p, r, s) /\ Due(p, r, s) \subseteq Mods
  BY DEF Stops, Executed, Due
<1>2. \A m \in Earliest(S) : o[m] \in Failure
  BY DEF Throws
<1>3. ASSUME NEW m \in X
      PROVE  /\ AfterRun(p[CellOf(r, m)], s, o[m]).smfi = "CONTINUE"
             /\ o[m] \in Failure \cup {"pass"}
  <2>1. p[CellOf(r, m)] \in CellState /\ o[m] \in Outcome
    BY <1>1
  <2>2. CASE m \in S
    <3>1. m \in Earliest(S)
      BY <2>2 DEF Executed, Earliest
    <3> QED BY <1>2, <2>1, <3>1, AfterRunFacts
  <2>3. CASE m \notin S
    <3>1. o[m] \notin Failure /\ AfterRun(p[CellOf(r, m)], s, o[m]).smfi = "CONTINUE"
      BY <1>1, <2>3 DEF Stops
    <3> QED BY <2>1, <3>1, AfterRunFacts
  <2> QED BY <2>2, <2>3
<1>4. ASSUME NEW m \in Due(p, r, s) \ X
      PROVE  \E k \in X : k < m /\ o[k] \in Failure
  <2>1. PICK j \in S : ~(m <= j)
    BY <1>4 DEF Executed
  <2>2. S \in SUBSET (1..NMods) /\ NMods \in Nat
    BY <1>1, EngineAssumption DEF Mods
  <2>3. PICK k \in Earliest(S) : TRUE
    <3> HIDE DEF S
    <3> QED BY <2>1, <2>2, EarliestExists
  <2>4. k \in S /\ k <= j /\ \A i \in S : k <= i
    BY <2>3 DEF Earliest
  <2>5. k \in X
    BY <1>1, <2>4 DEF Executed
  <2>6. k \in Nat /\ m \in Nat /\ j \in Nat
    BY <1>1, <2>2, <2>4 DEF Mods
  <2> QED BY <1>2, <2>1, <2>3, <2>4, <2>5, <2>6
<1> QED BY <1>3, <1>4
-----------------------------------------------------------------------------
(***************************************************************************)
(* Nobody is forgotten.  A recipient who has been through a stage was      *)
(* shown to every cell of its that asks for the stage, or to one before    *)
(* that failed.  No run asks for a stage that is over, so that this stays  *)
(* true when the cells are run for others.                                 *)
(***************************************************************************)
ShownAt(n, s) ==
  \A m \in Mods : s \in pool[CellOf(recipients[n], m)].want =>
    \/ \E o \in Outcome : <<m, s, o>> \in recipients[n].asked
    \/ \E k \in 1..(m - 1), o \in Failure : <<k, s, o>> \in recipients[n].asked

\* The stages recipient n has been through.
Been(n) ==
  CASE phase = "rcpt" -> {"RCPT"}
    [] phase = "eoh"  -> {"RCPT"} \cup (IF n \in todo THEN {} ELSE {"HEADERS"})
    [] phase = "body" -> {"RCPT", "HEADERS"}
    [] phase = "eom"  -> {"RCPT", "HEADERS"} \cup (IF n \in todo THEN {} ELSE {"BODY"})
    [] OTHER          -> {}

Showings ==
  /\ phase = "rcpt" => stage = "RCPT"
  /\ phase \in {"eoh", "body"} => stage = "HEADERS"
  /\ phase = "eom" => stage = "BODY"
  /\ \A c \in DOMAIN pool : pool[c].flags = {}
  /\ \A n \in DOMAIN recipients : \A s \in Been(n) : ShownAt(n, s)
  /\ ShownToEveryCell

\* A run at stage s leaves a cell's wish for s, and for the stages before, as it was.
LEMMA WishesLast ==
  ASSUME NEW p, p \in [DOMAIN p -> CellState], NEW r, NEW s \in Stage,
         NEW o \in [Due(p, r, s) -> Outcome],
         \A c \in DOMAIN p : p[c].flags = {},
         \A m \in Due(p, r, s) : Needs(o[m]) \subseteq Later(s),
         NEW c \in DOMAIN p
  PROVE  /\ PoolAfter(p, r, s, o)[c].flags = {}
         /\ \A t \in Stage \ Later(s) :
              t \in PoolAfter(p, r, s, o)[c].want <=> t \in p[c].want
<1>1. CASE PoolAfter(p, r, s, o)[c] = p[c]
  BY <1>1
<1>2. CASE \E m \in Executed(p, r, s, o) : PoolAfter(p, r, s, o)[c] = AfterRun(p[c], s, o[m])
  <2>1. PICK m \in Executed(p, r, s, o) : PoolAfter(p, r, s, o)[c] = AfterRun(p[c], s, o[m])
    BY <1>2
  <2>2. m \in Due(p, r, s) /\ o[m] \in Outcome /\ Needs(o[m]) \subseteq Later(s)
    BY DEF Executed
  <2>3. PoolAfter(p, r, s, o)[c].flags = {}
    BY <2>1, <2>2, AfterRunFacts
  <2>4. PoolAfter(p, r, s, o)[c].want = p[c].want \cup Needs(o[m])
    BY <2>1 DEF AfterRun
  <2> QED BY <2>2, <2>3, <2>4
<1> QED BY <1>1, <1>2, CellAfter

\* A call that throws nothing shows the recipient to every cell that asks.
LEMMA CallShows ==
  ASSUME NEW p, p \in [DOMAIN p -> CellState], NEW r \in Recipient,
         \A m \in Mods : CellOf(r, m) \in DOMAIN p,
         NEW s \in Stage, NEW o \in [Due(p, r, s) -> Outcome],
         \A c \in DOMAIN p : p[c].flags = {},
         \A m \in Due(p, r, s) : Needs(o[m]) \subseteq Later(s),
         Throws(p, r, s, o) = {},
         NEW m \in Mods, s \in PoolAfter(p, r, s, o)[CellOf(r, m)].want
  PROVE  \/ \E b \in Outcome : <<m, s, b>> \in Noted(p, r, s, o).asked
         \/ \E k \in 1..(m - 1), b \in Failure : <<k, s, b>> \in Noted(p, r, s, o).asked
<1>1. \A k \in Executed(p, r, s, o) : <<k, s, o[k]>> \in Noted(p, r, s, o).asked
  BY DEF Noted, Recipient
<1>2. Executed(p, r, s, o) \subseteq Due(p, r, s) /\ Due(p, r, s) \subseteq Mods
  BY DEF Executed, Due
<1>3. CASE m \in Executed(p, r, s, o)
  BY <1>1, <1>2, <1>3
<1>4. CASE m \notin Due(p, r, s)
  <2>1. s \notin Later(s)
    BY DEF Later
  <2>2. s \in p[CellOf(r, m)].want
    BY <2>1, WishesLast
  <2>3. m \in Due(p, r, s)
    BY <2>2 DEF Due
  <2> QED BY <1>4, <2>3
<1>5. CASE m \in Due(p, r, s) \ Executed(p, r, s, o)
  <2>1. PICK k \in Executed(p, r, s, o) : k < m /\ o[k] \in Failure
    BY <1>5, Accepts
  <2>2. k \in 1..(m - 1)
    BY <1>2, <2>1, EngineAssumption DEF Mods
  <2> QED BY <1>1, <2>1, <2>2
<1> QED BY <1>3, <1>4, <1>5

\* No module asks for a stage that is over.
LEMMA MayAskLater ==
  ASSUME TypeOK, NEW p, NEW r, NEW o \in Runs(p, r)
  PROVE  \A m \in Due(p, r, stage) : o[m] \in Outcome /\ Needs(o[m]) \subseteq Later(stage)
<1> SUFFICES ASSUME NEW m \in Due(p, r, stage)
             PROVE  o[m] \in Outcome /\ Needs(o[m]) \subseteq Later(stage)
  OBVIOUS
<1> QED BY DEF Runs, Due, May, TypeOK

\* RCPT TO.
LEMMA RcptKeepsShowings ==
  ASSUME TypeOK, TypeOK', Showings, NEW a \in Addr, NEW nv \in Never, EnvRcpt(a, nv)
  PROVE  Showings'
<1> DEFINE n == serial + 1
<1>1. n \in Rcpt /\ serial' = n /\ serial \in Nat /\ stage = "RCPT" /\ phase = "rcpt"
  BY DEF EnvRcpt, TypeOK, Showings
<1>2. PICK cells \in CellsFor(a, n) :
        LET r == [address |-> a, never |-> nv, modules |-> cells, asked |-> {}]
            p == PoolWith(r, n)
        IN  \E o \in Runs(p, r) : EnvRcptOutcome(n, r, p, o)
  BY Zenon DEF EnvRcpt
<1> DEFINE r == [address |-> a, never |-> nv, modules |-> cells, asked |-> {}]
           p == PoolWith(r, n)
<1>3. PICK o \in Runs(p, r) : EnvRcptOutcome(n, r, p, o)
  BY Zenon, <1>2
<1>4. nv \in BOOLEAN /\ r.asked = {}
  BY EngineAssumption
<1>5. /\ r \in Recipient
      /\ \A m \in Mods : CellOf(r, m) \in DOMAIN p
      /\ p \in [DOMAIN p -> CellState]
      /\ DOMAIN pool \subseteq DOMAIN p
  BY <1>1, <1>4, CellsForType
<1>6. \A c \in DOMAIN p : IF c \in DOMAIN pool THEN p[c] = pool[c] ELSE p[c] = NewCell(c[1])
  BY DEF PoolWith
<1> HIDE DEF r, p
<1>7. /\ o \in [Due(p, r, "RCPT") -> Outcome] /\ "RCPT" \in Stage
      /\ \A m \in Due(p, r, "RCPT") : o[m] \in Outcome /\ Needs(o[m]) \subseteq Later("RCPT")
  BY <1>1, MayAskLater DEF Runs, Stage
<1>8. /\ pool' = PoolAfter(p, r, "RCPT", o)
      /\ UNCHANGED <<stage, phase>>
  BY <1>1, <1>3 DEF EnvRcpt, EnvRcptOutcome
<1> DEFINE q == Noted(p, r, "RCPT", o)
<1>9. \/ recipients' = recipients
      \/ Push(n, q) /\ Throws(p, r, "RCPT", o) = {}
  BY <1>1, <1>3 DEF EnvRcptOutcome
<1>10. \A c \in DOMAIN p : p[c].flags = {}
  BY <1>6 DEF Showings, NewCell
<1>11. \A c \in DOMAIN p : /\ pool'[c].flags = {}
                           /\ "RCPT" \in pool'[c].want <=> "RCPT" \in p[c].want
  BY <1>5, <1>7, <1>8, <1>10, WishesLast DEF Later
<1>12. DOMAIN pool' = DOMAIN p
  BY <1>8 DEF PoolAfter
<1>13. q.modules = r.modules
  BY <1>5, <1>7, CallType
<1>15. Throws(p, r, "RCPT", o) = {} =>
         \A m \in Mods : "RCPT" \in pool'[CellOf(r, m)].want =>
           \/ \E b \in Outcome : <<m, "RCPT", b>> \in q.asked
           \/ \E k \in 1..(m - 1), b \in Failure : <<k, "RCPT", b>> \in q.asked
  BY <1>5, <1>7, <1>8, <1>10, CallShows
<1> HIDE DEF q
<1>16. ASSUME NEW k \in DOMAIN recipients'
       PROVE  ShownAt(k, "RCPT")'
  <2>1. CASE k \in DOMAIN recipients /\ recipients'[k] = recipients[k]
    <3>1. \A m \in Mods : "RCPT" \in pool'[CellOf(recipients[k], m)].want <=>
                          "RCPT" \in pool[CellOf(recipients[k], m)].want
      BY <1>5, <1>6, <1>11, <2>1 DEF TypeOK, Cells
    <3>2. ShownAt(k, "RCPT")
      BY <1>1, <2>1 DEF Showings, Been
    <3> QED BY <2>1, <3>1, <3>2 DEF ShownAt
  <2>2. CASE k = n /\ Push(n, q) /\ Throws(p, r, "RCPT", o) = {}
    <3>1. recipients'[k] = q /\ \A m : CellOf(q, m) = CellOf(r, m)
      BY <1>13, <2>2 DEF Push, CellOf
    <3> QED BY <1>15, <2>2, <3>1 DEF ShownAt
  <2>3. n \notin DOMAIN recipients
    BY <1>1 DEF TypeOK
  <2> QED BY <1>9, <1>16, <2>1, <2>2, <2>3 DEF Push
<1>17. \A k : Been(k)' = {"RCPT"}
  BY <1>1, <1>8 DEF Been
<1> QED BY <1>1, <1>8, <1>11, <1>12, <1>16, <1>17 DEF Showings, ShownToEveryCell

\* The loops of eoh and eom.
LEMMA LoopKeepsShowings ==
  ASSUME TypeOK, Showings, NEW n \in Rcpt, EohCall(n) \/ EomCall(n)
  PROVE  Showings'
<1> DEFINE r == recipients[n]
<1>1. n \in Earliest(todo) /\ phase \in {"eoh", "eom"} /\ stage' = stage
  BY DEF EohCall, EomCall
<1>2. PICK o \in Runs(pool, r) :
        /\ pool' = PoolAfter(pool, r, stage, o)
        /\ \/ phase' = "done" /\ reply' # "CONTINUE"
           \/ /\ Throws(pool, r, stage, o) = {} /\ phase' = phase /\ todo' = todo \ {n}
        /\ \/ recipients' = NoFunction
           \/ recipients' = [recipients EXCEPT ![n] = Noted(pool, r, stage, o)]
  BY DEF EohCall, EomCall
<1>3. /\ stage \in Stage /\ o \in [Due(pool, r, stage) -> Outcome]
      /\ pool \in [DOMAIN pool -> CellState] /\ n \in DOMAIN recipients /\ r \in Recipient
      /\ \A k \in DOMAIN recipients, m \in Mods : CellOf(recipients[k], m) \in DOMAIN pool
      /\ \A c \in DOMAIN pool : pool[c].flags = {}
  BY <1>1 DEF TypeOK, Runs, Earliest, Cells, Showings
<1>4. \A m \in Due(pool, r, stage) : o[m] \in Outcome /\ Needs(o[m]) \subseteq Later(stage)
  BY MayAskLater
<1>5. DOMAIN pool' = DOMAIN pool
  BY <1>2 DEF PoolAfter
<1>6. \A c \in DOMAIN pool :
        /\ pool'[c].flags = {}
        /\ \A s \in Stage \ Later(stage) : s \in pool'[c].want <=> s \in pool[c].want
  BY <1>2, <1>3, <1>4, WishesLast
<1> DEFINE q == Noted(pool, r, stage, o)
<1>7. q.modules = r.modules /\ r.asked \subseteq q.asked
  BY <1>1, <1>3, LoopCallType DEF Noted, Recipient
<1>9. Throws(pool, r, stage, o) = {} =>
        \A m \in Mods : stage \in pool'[CellOf(r, m)].want =>
          \/ \E b \in Outcome : <<m, stage, b>> \in q.asked
          \/ \E k \in 1..(m - 1), b \in Failure : <<k, stage, b>> \in q.asked
  BY <1>2, <1>3, <1>4, CallShows
<1> HIDE DEF q
<1>10. CASE recipients' = NoFunction
  BY <1>1, <1>2, <1>3, <1>5, <1>6, <1>10 DEF Showings, ShownToEveryCell, NoFunction
<1>11. CASE recipients' = [recipients EXCEPT ![n] = q]
  <2>1. /\ DOMAIN recipients' = DOMAIN recipients
        /\ \A k \in DOMAIN recipients : /\ recipients'[k].modules = recipients[k].modules
                                        /\ recipients[k].asked \subseteq recipients'[k].asked
                                        /\ k # n => recipients'[k] = recipients[k]
        /\ recipients'[n] = q
    BY <1>3, <1>7, <1>11
  <2>3. CASE phase' = "done" /\ reply' # "CONTINUE"
    <3>1. \A k : Been(k)' = {}
      BY <2>3 DEF Been
    <3> QED BY <1>5, <1>6, <2>3, <3>1 DEF Showings, ShownToEveryCell
  <2>4. CASE Throws(pool, r, stage, o) = {} /\ phase' = phase /\ todo' = todo \ {n}
    <3> SUFFICES ASSUME NEW k \in DOMAIN recipients, NEW s \in Been(k)' PROVE ShownAt(k, s)'
      BY <1>1, <1>5, <1>6, <2>1, <2>4 DEF Showings, ShownToEveryCell
    <3>1. s \in Stage \ Later(stage)
      BY <1>1, <2>4 DEF Been, Showings, Stage, Later
    <3>2. s \in Been(k) \/ (k = n /\ s = stage)
      BY <1>1, <2>4 DEF Been, Showings
    <3>3. CASE s \in Been(k)
      <4>1. ShownAt(k, s)
        BY <3>3 DEF Showings
      <4>2. \A m \in Mods : s \in pool'[CellOf(recipients'[k], m)].want <=>
                            s \in pool[CellOf(recipients[k], m)].want
        BY <1>3, <1>6, <2>1, <3>1 DEF CellOf
      <4> QED BY <2>1, <4>1, <4>2 DEF ShownAt
    <3>4. CASE k = n /\ s = stage
      <4>1. \A m : CellOf(q, m) = CellOf(r, m)
        BY <1>7 DEF CellOf
      <4> QED BY <1>9, <2>1, <2>4, <3>4, <4>1 DEF ShownAt
    <3> QED BY <3>2, <3>3, <3>4
  <2> QED BY <1>2, <2>3, <2>4
<1> QED BY <1>2, <1>10, <1>11 DEF q

\* An accepted message has been shown to every cell that asks, for any modules.
THEOREM EverybodyShown == Spec => []ShownToEveryCell
<1>1. Init => Showings
  BY DEF Init, NoFunction, Showings, ShownToEveryCell
<1>2. TypeOK /\ TypeOK' /\ Showings /\ [Next]_vars => Showings'
  <2> SUFFICES ASSUME TypeOK, TypeOK', Showings, [Next]_vars PROVE Showings'
    OBVIOUS
  <2>1. ASSUME NEW a \in Addr, NEW nv \in Never, EnvRcpt(a, nv) PROVE Showings'
    BY <2>1, RcptKeepsShowings
  <2>2. ASSUME NEW n \in Rcpt, EohCall(n) \/ EomCall(n) PROVE Showings'
    BY <2>2, LoopKeepsShowings
  <2>3. CASE Eoh \/ Body \/ Eom \/ EohEnd
    <3>1. /\ UNCHANGED <<recipients, pool>>
          /\ phase' = "done" => reply' # "CONTINUE"
          /\ \A n \in DOMAIN recipients : Been(n)' \subseteq Been(n)
      BY <2>3 DEF Eoh, Body, Eom, EohEnd, Been
    <3>2. \A n, s : ShownAt(n, s)' <=> ShownAt(n, s)
      BY <3>1 DEF ShownAt
    <3> QED BY <2>3, <3>1, <3>2 DEF Eoh, Body, Eom, EohEnd, Showings, ShownToEveryCell
  <2>4. CASE EomEnd
    <3>1. UNCHANGED <<recipients, pool>> /\ phase' = "done" /\ phase = "eom" /\ todo = {}
      BY <2>4 DEF EomEnd
    <3>2. \A n \in DOMAIN recipients : Been(n) = Stage /\ Been(n)' = {}
      BY <3>1 DEF Been, Stage
    <3>3. \A n \in DOMAIN recipients, s \in Stage : ShownAt(n, s)
      BY <3>2 DEF Showings
    <3>4. \A n \in DOMAIN recipients, m \in Mods :
            pool[CellOf(recipients[n], m)].want \subseteq Stage
      BY DEF TypeOK, Cells, CellState
    <3>5. ShownToEveryCell'
      BY <3>1, <3>3, <3>4 DEF ShownAt, ShownToEveryCell
    <3> QED BY <3>1, <3>2, <3>5 DEF Showings
  <2>5. CASE Abort
    BY <2>5 DEF Abort, NoFunction, Showings, ShownToEveryCell
  <2>6. CASE UNCHANGED vars
    <3>1. \A n : Been(n)' = Been(n)
      BY <2>6 DEF vars, Been
    <3> QED BY <2>6, <3>1 DEF vars, Showings, ShownAt, ShownToEveryCell
  <2> QED BY <2>1, <2>2, <2>3, <2>4, <2>5, <2>6 DEF Next, Callback, Finished
<1>3. Showings => ShownToEveryCell
  BY DEF Showings
<1> QED BY <1>1, <1>2, <1>3, TypeCorrect, PTL DEF Spec
-----------------------------------------------------------------------------
(***************************************************************************)
(* The body is there for those who ask for it.  Only the cell eoh looks    *)
(* at decides whether a dynamic module gets the body; with one class of    *)
(* recipients all share it, so that after the message was given up no run  *)
(* at the end of the message is left.                                      *)
(***************************************************************************)
NobodyAskedAtEnd ==
  \A n \in DOMAIN recipients, m \in Mods, o \in Outcome :
    <<m, "BODY", o>> \notin recipients[n].asked

GivenUpRightly ==
  /\ NobodyAskedAtEnd
  /\ \A n \in DOMAIN recipients, m \in Mods :
       "BODY" \notin pool[CellOf(recipients[n], m)].want

Bodies ==
  /\ phase = "rcpt" => stage = "RCPT"
  /\ phase \in {"eoh", "body"} => stage = "HEADERS"
  /\ phase = "eom" => stage = "BODY"
  /\ \A c \in DOMAIN pool : c[1] \notin Dynamic => pool[c].want = Status[c[1]]
  /\ \A n \in DOMAIN recipients, m \in Mods, s \in Stage, o \in Outcome :
       <<m, s, o>> \in recipients[n].asked => o \in Can[m]
  /\ phase \in {"rcpt", "eoh", "body"} => NobodyAskedAtEnd
  /\ phase \in {"rcpt", "eoh"} => envfrom # "dropped"
  /\ phase = "eom" /\ envfrom = "address" => body
  /\ phase \in {"body", "eom"} /\ envfrom = "dropped" /\ OneClass /\ Dynamic \subseteq {NMods} =>
       GivenUpRightly
  /\ BodyIsThere

\* What modules do is what they can do; those that are not dynamic ask for nothing
\* but what their Status says.
LEMMA MayCan ==
  ASSUME TypeOK, Bodies, NEW p, NEW r, NEW o \in Runs(p, r), NEW m \in Due(p, r, stage)
  PROVE  /\ m \in Mods /\ o[m] \in Outcome /\ o[m] \in Can[m]
         /\ m \notin Dynamic => Needs(o[m]) = {}
<1>1. o[m] \in May(m) /\ o[m] \in Outcome /\ m \in Mods /\ stage \in Stage
  BY DEF Runs, Due, TypeOK
<1>2. o[m] \in Can[m]
  BY <1>1 DEF May
<1>3. m \notin Dynamic => o[m] \notin {"needHEADERS", "needBODY"}
  BY <1>1, <1>2, EngineAssumption
<1> QED BY <1>1, <1>2, <1>3 DEF Needs

LEMMA CallKeepsStatus ==
  ASSUME TypeOK, Bodies, NEW p, NEW r \in Recipient, NEW o \in Runs(p, r),
         \A c \in DOMAIN p : c[1] \notin Dynamic => p[c].want = Status[c[1]]
  PROVE  /\ \A c \in DOMAIN p :
              c[1] \notin Dynamic => PoolAfter(p, r, stage, o)[c].want = Status[c[1]]
         /\ Noted(p, r, stage, o).asked =
              r.asked \cup {<<m, stage, o[m]>> : m \in Executed(p, r, stage, o)}
         /\ \A m \in Executed(p, r, stage, o) : o[m] \in Outcome /\ o[m] \in Can[m]
         /\ stage \in Stage
<1>1. Executed(p, r, stage, o) \subseteq Due(p, r, stage)
  BY DEF Executed
<1>2. ASSUME NEW c \in DOMAIN p, c[1] \notin Dynamic
      PROVE  PoolAfter(p, r, stage, o)[c].want = Status[c[1]]
  <2>1. CASE PoolAfter(p, r, stage, o)[c] = p[c]
    BY <1>2, <2>1
  <2>2. CASE \E m \in Executed(p, r, stage, o) :
               c = CellOf(r, m) /\ PoolAfter(p, r, stage, o)[c] = AfterRun(p[c], stage, o[m])
    <3>1. PICK m \in Executed(p, r, stage, o) :
            c = CellOf(r, m) /\ PoolAfter(p, r, stage, o)[c] = AfterRun(p[c], stage, o[m])
      BY <2>2
    <3>2. c[1] = m /\ Needs(o[m]) = {}
      BY <1>1, <1>2, <3>1, MayCan DEF CellOf
    <3> QED BY <1>2, <3>1, <3>2 DEF AfterRun
  <2> QED BY <2>1, <2>2, CellAfter
<1>3. \A m \in Executed(p, r, stage, o) : o[m] \in Outcome /\ o[m] \in Can[m]
  BY <1>1, MayCan
<1>4. Noted(p, r, stage, o).asked =
        r.asked \cup {<<m, stage, o[m]>> : m \in Executed(p, r, stage, o)}
  BY DEF Noted, Recipient
<1> QED BY <1>2, <1>3, <1>4 DEF TypeOK

\* RCPT TO.
LEMMA RcptKeepsBodies ==
  ASSUME TypeOK, Bodies, NEW a \in Addr, NEW nv \in Never, EnvRcpt(a, nv)
  PROVE  Bodies'
<1> DEFINE n == serial + 1
<1>1. n \in Rcpt /\ serial \in Nat /\ stage = "RCPT" /\ phase = "rcpt"
  BY DEF EnvRcpt, TypeOK, Bodies
<1>2. PICK cells \in CellsFor(a, n) :
        LET r == [address |-> a, never |-> nv, modules |-> cells, asked |-> {}]
            p == PoolWith(r, n)
        IN  \E o \in Runs(p, r) : EnvRcptOutcome(n, r, p, o)
  BY Zenon DEF EnvRcpt
<1> DEFINE r == [address |-> a, never |-> nv, modules |-> cells, asked |-> {}]
           p == PoolWith(r, n)
<1>3. PICK o \in Runs(p, r) : EnvRcptOutcome(n, r, p, o)
  BY Zenon, <1>2
<1>4. nv \in BOOLEAN /\ r.asked = {}
  BY EngineAssumption
<1>5. r \in Recipient
  BY <1>1, <1>4, CellsForType
<1>6. \A c \in DOMAIN p : IF c \in DOMAIN pool THEN p[c] = pool[c] ELSE p[c] = NewCell(c[1])
  BY DEF PoolWith
<1>7. r.asked = {}
  BY <1>4
<1> HIDE DEF r, p
<1>8. \A c \in DOMAIN p : c[1] \notin Dynamic => p[c].want = Status[c[1]]
  BY <1>6 DEF Bodies, NewCell
<1> DEFINE q == Noted(p, r, stage, o)
<1>9. /\ \A c \in DOMAIN p :
           c[1] \notin Dynamic => PoolAfter(p, r, stage, o)[c].want = Status[c[1]]
      /\ q.asked = {<<m, stage, o[m]>> : m \in Executed(p, r, stage, o)}
      /\ \A m \in Executed(p, r, stage, o) : o[m] \in Outcome /\ o[m] \in Can[m]
  BY <1>5, <1>7, <1>8, CallKeepsStatus
<1>10. /\ pool' = PoolAfter(p, r, stage, o) /\ DOMAIN pool' = DOMAIN p
       /\ recipients' = recipients \/ Push(n, q)
       /\ UNCHANGED <<stage, phase, envfrom, body>>
  BY <1>3 DEF EnvRcpt, EnvRcptOutcome, PoolAfter
<1>11. \A m, s, b : <<m, s, b>> \in q.asked => b \in Can[m] /\ s # "BODY"
  BY <1>1, <1>9
<1> HIDE DEF q
<1>12. \A k \in DOMAIN recipients' :
         (k \in DOMAIN recipients /\ recipients'[k] = recipients[k]) \/ recipients'[k] = q
  BY <1>10 DEF Push
<1>13. /\ \A k \in DOMAIN recipients', m \in Mods, s \in Stage, b \in Outcome :
            <<m, s, b>> \in recipients'[k].asked => b \in Can[m]
       /\ NobodyAskedAtEnd'
  BY <1>1, <1>11, <1>12 DEF Bodies, NobodyAskedAtEnd
<1>14. BodyIsThere'
  BY <1>13 DEF NobodyAskedAtEnd, BodyIsThere
<1> QED BY <1>1, <1>9, <1>10, <1>13, <1>14 DEF Bodies

\* The loops of eoh and eom.  At the end of a message that was given up no cell is due.
LEMMA LoopKeepsBodies ==
  ASSUME TypeOK, Bodies, NEW n \in Rcpt, EohCall(n) \/ EomCall(n)
  PROVE  Bodies'
<1> DEFINE r == recipients[n]
<1>1. /\ n \in Earliest(todo) /\ phase \in {"eoh", "eom"}
      /\ UNCHANGED <<stage, envfrom, body, prdr>>
  BY DEF EohCall, EomCall
<1>2. PICK o \in Runs(pool, r) :
        /\ pool' = PoolAfter(pool, r, stage, o)
        /\ phase' \in {phase, "done"}
        /\ \/ recipients' = NoFunction /\ phase' = "done"
           \/ recipients' = [recipients EXCEPT ![n] = Noted(pool, r, stage, o)]
  BY DEF EohCall, EomCall
<1>3. n \in DOMAIN recipients /\ r \in Recipient
  BY <1>1 DEF TypeOK, Earliest
<1> DEFINE q == Noted(pool, r, stage, o)
<1>4. /\ DOMAIN pool' = DOMAIN pool
      /\ \A c \in DOMAIN pool : c[1] \notin Dynamic => pool'[c].want = Status[c[1]]
      /\ q.asked = r.asked \cup {<<m, stage, o[m]>> : m \in Executed(pool, r, stage, o)}
      /\ \A m \in Executed(pool, r, stage, o) : o[m] \in Outcome /\ o[m] \in Can[m]
  BY <1>2, <1>3, CallKeepsStatus DEF Bodies, PoolAfter
<1>5. CASE recipients' = NoFunction /\ phase' = "done"
  BY <1>1, <1>4, <1>5 DEF Bodies, BodyIsThere, NoFunction
<1>6. CASE recipients' = [recipients EXCEPT ![n] = q]
  <2>1. DOMAIN recipients' = DOMAIN recipients /\ (OneClass' <=> OneClass)
    BY <1>1, <1>6, LoopKeepsRecipients
  <2>2. recipients'[n] = q /\ \A k \in DOMAIN recipients \ {n} : recipients'[k] = recipients[k]
    BY <1>3, <1>6
  <2>3. \A k \in DOMAIN recipients', m \in Mods, s \in Stage, b \in Outcome :
          <<m, s, b>> \in recipients'[k].asked => b \in Can[m]
    <3>1. \A m, s, b : <<m, s, b>> \in q.asked => <<m, s, b>> \in r.asked \/ b \in Can[m]
      BY <1>4
    <3> QED BY <1>3, <2>1, <2>2, <3>1 DEF Bodies
  <2>4. CASE phase = "eoh"
    <3>1. stage = "HEADERS" /\ NobodyAskedAtEnd
      BY <2>4 DEF Bodies
    <3>2. \A m, b : <<m, "BODY", b>> \in q.asked => <<m, "BODY", b>> \in r.asked
      BY <1>4, <3>1
    <3>3. NobodyAskedAtEnd'
      BY <1>3, <2>1, <2>2, <3>1, <3>2 DEF NobodyAskedAtEnd
    <3>4. BodyIsThere'
      BY <3>3 DEF NobodyAskedAtEnd, BodyIsThere
    <3> QED BY <1>1, <1>2, <1>4, <2>3, <2>4, <3>1, <3>3, <3>4 DEF Bodies
  <2>5. CASE phase = "eom" /\ envfrom = "dropped" /\ OneClass /\ Dynamic \subseteq {NMods}
    <3>1. GivenUpRightly /\ stage = "BODY"
      BY <2>5 DEF Bodies
    <3>2. Executed(pool, r, stage, o) = {}
      BY <1>3, <3>1 DEF Executed, Due, GivenUpRightly
    <3>3. q.asked = r.asked
      BY <1>4, <3>2
    <3>4. q.modules = r.modules
      BY <1>1, LoopCallType
    <3>5. \A c \in DOMAIN pool : pool'[c] = pool[c]
      BY <1>2, <3>2, CellAfter
    <3> HIDE DEF q
    <3>6. \A k \in DOMAIN recipients : /\ recipients'[k].asked = recipients[k].asked
                                       /\ recipients'[k].modules = recipients[k].modules
      BY <2>2, <3>3, <3>4
    <3>7. \A k \in DOMAIN recipients, m \in Mods : CellOf(recipients[k], m) \in DOMAIN pool
      BY DEF TypeOK, Cells
    <3>8. GivenUpRightly'
      BY <2>1, <3>1, <3>5, <3>6, <3>7 DEF GivenUpRightly, NobodyAskedAtEnd, CellOf
    <3>9. BodyIsThere'
      BY <3>8 DEF GivenUpRightly, NobodyAskedAtEnd, BodyIsThere
    <3> QED BY <1>1, <1>2, <1>4, <2>3, <2>5, <3>1, <3>8, <3>9 DEF Bodies
  <2>6. CASE phase = "eom" /\ ~(envfrom = "dropped" /\ OneClass /\ Dynamic \subseteq {NMods})
    <3>1. /\ stage = "BODY" /\ (envfrom = "address" => body)
          /\ envfrom \in {"address", "null", "dropped"}
      BY <2>6 DEF Bodies, TypeOK
    <3>2. BodyIsThere'
      BY <1>1, <2>1, <2>6, <3>1 DEF BodyIsThere
    <3> QED BY <1>1, <1>2, <1>4, <2>1, <2>3, <2>6, <3>1, <3>2 DEF Bodies
  <2> QED BY <1>1, <2>4, <2>5, <2>6
<1> QED BY <1>2, <1>5, <1>6 DEF q

\* The message is given up: no module asks for the body in a cell that all share.
LEMMA EohEndKeepsBodies ==
  ASSUME TypeOK, SameCellsAsFirst, Bodies, EohEnd
  PROVE  Bodies'
<1>1. /\ phase = "eoh" /\ UNCHANGED <<prdr, stage, recipients, pool, body>>
      /\ \/ phase' = "done" /\ envfrom' = envfrom
         \/ /\ phase' = "body"
            /\ envfrom' = IF BodyNeeded = {} THEN "dropped" ELSE envfrom
  BY DEF EohEnd
<1>2. NobodyAskedAtEnd' /\ NobodyAskedAtEnd
  BY <1>1 DEF Bodies, NobodyAskedAtEnd
<1>3. BodyIsThere'
  BY <1>2 DEF NobodyAskedAtEnd, BodyIsThere
<1>4. ASSUME phase' = "body", envfrom' = "dropped", OneClass, Dynamic \subseteq {NMods}
      PROVE  GivenUpRightly'
  <2> DEFINE asks == {m \in Mods :
               IF m \in Dynamic THEN \A c \in Current : c[1] = m => "BODY" \in pool[c].want
               ELSE "BODY" \in Status[m]}
  <2>1. BodyNeeded = {}
    BY <1>1, <1>4 DEF Bodies
  <2>2. asks = {}
    <3>1. asks \in SUBSET (1..NMods) /\ NMods \in Nat
      BY EngineAssumption DEF Mods
    <3>2. Earliest(asks) = {}
      BY <2>1 DEF BodyNeeded
    <3> HIDE DEF asks
    <3> QED BY <3>1, <3>2, EarliestExists
  <2>3. \A n, k \in DOMAIN recipients : recipients[n].modules = recipients[k].modules
    <3>1. DOMAIN recipients \in SUBSET (1..MaxRcpt) /\ MaxRcpt \in Nat
      BY EngineAssumption, SerialsBounded DEF Rcpt
    <3>2. DOMAIN recipients # {} => Earliest(DOMAIN recipients) # {}
      BY <3>1, EarliestExists
    <3> QED BY <1>4, <3>2 DEF OneClass, SameCellsAsFirst
  <2>4. ASSUME NEW n \in DOMAIN recipients, NEW m \in Mods
        PROVE  "BODY" \notin pool[CellOf(recipients[n], m)].want
    <3>1. CASE m \notin Dynamic
      <4>1. CellOf(recipients[n], m) \in DOMAIN pool /\ CellOf(recipients[n], m)[1] = m
        BY DEF TypeOK, Cells, CellOf
      <4>2. "BODY" \notin Status[m]
        BY <2>2, <3>1
      <4> QED BY <3>1, <4>1, <4>2 DEF Bodies
    <3>2. CASE m \in Dynamic
      <4>1. PICK c \in Current : c[1] = m /\ "BODY" \notin pool[c].want
        BY <2>2, <3>2
      <4>2. PICK k \in DOMAIN recipients :
              \E j \in LastVisited(recipients[k]) : c = CellOf(recipients[k], j)
        BY <4>1 DEF Current, Latest
      <4>3. c = CellOf(recipients[n], m)
        BY <2>3, <4>1, <4>2 DEF CellOf
      <4> QED BY <4>1, <4>3
    <3> QED BY <3>1, <3>2
  <2> QED BY <1>1, <1>2, <2>4 DEF GivenUpRightly
<1>5. OneClass' <=> OneClass
  BY <1>1 DEF OneClass
<1> QED BY <1>1, <1>2, <1>3, <1>4, <1>5 DEF Bodies

LEMMA BodiesAlways == Spec => []Bodies
<1>1. Init => Bodies
  <2> SUFFICES ASSUME Init PROVE Bodies
    OBVIOUS
  <2>1. envfrom # "dropped"
    BY EngineAssumption DEF Init
  <2> QED BY <2>1 DEF Init, NoFunction, Bodies, NobodyAskedAtEnd, BodyIsThere
<1>2. TypeOK /\ SameCellsAsFirst /\ Bodies /\ [Next]_vars => Bodies'
  <2> SUFFICES ASSUME TypeOK, SameCellsAsFirst, Bodies, [Next]_vars PROVE Bodies'
    OBVIOUS
  <2>1. ASSUME NEW a \in Addr, NEW nv \in Never, EnvRcpt(a, nv) PROVE Bodies'
    BY <2>1, RcptKeepsBodies
  <2>2. ASSUME NEW n \in Rcpt, EohCall(n) \/ EomCall(n) PROVE Bodies'
    BY <2>2, LoopKeepsBodies
  <2>3. CASE EohEnd
    BY <2>3, EohEndKeepsBodies
  <2>4. CASE Eoh \/ Eom \/ EomEnd
    BY <2>4 DEF Eoh, Eom, EomEnd, Bodies, NobodyAskedAtEnd, GivenUpRightly, OneClass, BodyIsThere
  <2>5. CASE Body
    BY <2>5 DEF Body, Bodies, NobodyAskedAtEnd, BodyIsThere
  <2>6. CASE Abort
    BY <2>6 DEF Abort, NoFunction, Bodies, BodyIsThere
  <2>7. CASE UNCHANGED vars
    BY <2>7 DEF vars, Bodies, NobodyAskedAtEnd, GivenUpRightly, OneClass, BodyIsThere
  <2> QED BY <2>1, <2>2, <2>3, <2>4, <2>5, <2>6, <2>7 DEF Next, Callback, Finished
<1> QED BY <1>1, <1>2, TypeCorrect, DelayedMode, PTL DEF Spec

\* With any recipients of one class, a run at the end of the message finds the body.
THEOREM BodyFound == Spec => []BodyIsThere
<1>1. Bodies => BodyIsThere
  BY DEF Bodies
<1> QED BY <1>1, BodiesAlways, PTL

\* The comment at smfi-operations.cpp:156 is right for one class of recipients, if only
\* the last module is dynamic: when the message is given up, no cell asks for the body.
THEOREM GivenUpOfOneClass ==
  Spec => [](phase # "done" /\ OneClass /\ Dynamic \subseteq {NMods} => GivenUpInTime)
<1>1. TypeOK /\ Bodies =>
        (phase # "done" /\ OneClass /\ Dynamic \subseteq {NMods} => GivenUpInTime)
  BY DEF TypeOK, Bodies, GivenUpRightly, GivenUpInTime
<1> QED BY <1>1, TypeCorrect, BodiesAlways, PTL
-----------------------------------------------------------------------------
(***************************************************************************)
(* Which modules can end the daemon with their verdict at the end of the   *)
(* message: those that object to messages and have to be run that late.    *)
(***************************************************************************)
Objects(m)  == Can[m] \cap {"TEMPFAIL", "REJECT"} # {}
RunAtEnd(m) == "BODY" \in Status[m] \/ "needBODY" \in Can[m]

\* What cell c, in the state d, can have come to.
Lawful(d, m) ==
  /\ "BODY" \in d.want => RunAtEnd(m)
  /\ d.smfi # "CONTINUE" => Objects(m)

CellsAreLawful == \A c \in DOMAIN pool : Lawful(pool[c], c[1])

\* A run adds a wish, or a verdict, the module is able of.
LEMMA CallIsLawful ==
  ASSUME TypeOK, Bodies, NEW p, NEW r, NEW o \in Runs(p, r),
         \A c \in DOMAIN p : Lawful(p[c], c[1])
  PROVE  \A c \in DOMAIN PoolAfter(p, r, stage, o) : Lawful(PoolAfter(p, r, stage, o)[c], c[1])
<1>1. DOMAIN PoolAfter(p, r, stage, o) = DOMAIN p
  BY DEF PoolAfter
<1>2. ASSUME NEW c \in DOMAIN p, NEW m \in Executed(p, r, stage, o), c = CellOf(r, m)
      PROVE  Lawful(AfterRun(p[c], stage, o[m]), m)
  <2>1. o[m] \in Outcome /\ o[m] \in Can[m]
    BY MayCan DEF Executed
  <2>2. c[1] = m
    BY <1>2 DEF CellOf
  <2>3. Lawful(p[c], m)
    BY <2>2
  <2> DEFINE d == AfterRun(p[c], stage, o[m])
  <2>4. d.want = p[c].want \cup Needs(o[m])
    BY DEF AfterRun
  <2>5. \/ d.smfi = o[m] /\ o[m] \notin Failure /\ o[m] # "pass"
        \/ d.smfi \in {"CONTINUE", p[c].smfi}
    BY DEF AfterRun
  <2> HIDE DEF d
  <2>6. "BODY" \in d.want => RunAtEnd(m)
    BY <2>1, <2>3, <2>4 DEF Lawful, Needs, RunAtEnd
  <2>7. d.smfi # "CONTINUE" => Objects(m)
    BY <2>1, <2>3, <2>5 DEF Lawful, Objects, Outcome, Failure
  <2> QED BY <2>6, <2>7 DEF Lawful, d
<1>3. ASSUME NEW c \in DOMAIN p
      PROVE  Lawful(PoolAfter(p, r, stage, o)[c], c[1])
  <2>1. CASE PoolAfter(p, r, stage, o)[c] = p[c]
    BY <2>1
  <2>2. CASE \E m \in Executed(p, r, stage, o) :
               c = CellOf(r, m) /\ PoolAfter(p, r, stage, o)[c] = AfterRun(p[c], stage, o[m])
    BY <1>2, <2>2 DEF CellOf
  <2> QED BY <2>1, <2>2, CellAfter
<1> QED BY <1>1, <1>3

LEMMA RcptIsLawful ==
  ASSUME TypeOK, Bodies, CellsAreLawful, NEW a \in Addr, NEW nv \in Never, EnvRcpt(a, nv)
  PROVE  CellsAreLawful'
<1> DEFINE n == serial + 1
<1>1. PICK cells \in CellsFor(a, n) :
        LET r == [address |-> a, never |-> nv, modules |-> cells, asked |-> {}]
            p == PoolWith(r, n)
        IN  \E o \in Runs(p, r) : EnvRcptOutcome(n, r, p, o)
  BY Zenon DEF EnvRcpt
<1> DEFINE r == [address |-> a, never |-> nv, modules |-> cells, asked |-> {}]
           p == PoolWith(r, n)
<1>2. PICK o \in Runs(p, r) : EnvRcptOutcome(n, r, p, o)
  BY Zenon, <1>1
<1>3. \A c \in DOMAIN p : IF c \in DOMAIN pool THEN p[c] = pool[c] ELSE p[c] = NewCell(c[1])
  BY DEF PoolWith
<1> HIDE DEF r, p
<1>4. \A m : Lawful(NewCell(m), m)
  BY DEF NewCell, Lawful, RunAtEnd
<1>5. \A c \in DOMAIN p : Lawful(p[c], c[1])
  BY <1>3, <1>4 DEF CellsAreLawful
<1>6. pool' = PoolAfter(p, r, stage, o)
  BY <1>2 DEF EnvRcptOutcome
<1> QED BY <1>5, <1>6, CallIsLawful DEF CellsAreLawful

LEMMA LawfulAlways == Spec => []CellsAreLawful
<1>1. Init => CellsAreLawful
  BY DEF Init, NoFunction, CellsAreLawful
<1>2. TypeOK /\ Bodies /\ CellsAreLawful /\ [Next]_vars => CellsAreLawful'
  <2> SUFFICES ASSUME TypeOK, Bodies, CellsAreLawful, [Next]_vars PROVE CellsAreLawful'
    OBVIOUS
  <2>1. ASSUME NEW a \in Addr, NEW nv \in Never, EnvRcpt(a, nv) PROVE CellsAreLawful'
    BY <2>1, RcptIsLawful
  <2>2. ASSUME NEW n \in Rcpt, EohCall(n) \/ EomCall(n) PROVE CellsAreLawful'
    <3>1. PICK o \in Runs(pool, recipients[n]) :
            pool' = PoolAfter(pool, recipients[n], stage, o)
      BY <2>2 DEF EohCall, EomCall
    <3> QED BY <3>1, CallIsLawful DEF CellsAreLawful
  <2>3. CASE Abort
    BY <2>3 DEF Abort, NoFunction, CellsAreLawful
  <2>4. CASE UNCHANGED pool
    BY <2>4 DEF CellsAreLawful
  <2> QED
    BY <2>1, <2>2, <2>3, <2>4
       DEF Next, Callback, Eoh, Body, Eom, EohEnd, EomEnd, Finished, vars
<1> QED BY <1>1, <1>2, TypeCorrect, BodiesAlways, PTL DEF Spec

\* If the modules that reject or defer messages are never run at the end of one, no
\* verdict leaves prdr_eom and no message ends the daemon.  Outside the hypothesis are
\* mod_sieve, whose scripts may reject and need the body, and mod_equal, which is run at
\* the end though it rejects at RCPT; the other modules of the repository are within.
THEOREM SurvivesTheEnd ==
  ASSUME \A m \in Mods : Objects(m) => ~RunAtEnd(m)
  PROVE  Spec => []BodyVerdictIsAnswered
<1>1. Init => BodyVerdictIsAnswered
  BY DEF Init, BodyVerdictIsAnswered
<1>2. TypeOK /\ Bodies /\ CellsAreLawful /\ CellsAreLawful' /\ BodyVerdictIsAnswered
      /\ [Next]_vars => BodyVerdictIsAnswered'
  <2> SUFFICES ASSUME TypeOK, Bodies, CellsAreLawful, BodyVerdictIsAnswered, [Next]_vars
               PROVE  BodyVerdictIsAnswered'
    OBVIOUS
  <2>1. ASSUME NEW n \in Rcpt, EomCall(n) PROVE BodyVerdictIsAnswered'
    <3> DEFINE r == recipients[n]
    <3>1. PICK o \in Runs(pool, r) :
            IF Throws(pool, r, stage, o) = {} THEN reply' = reply
            ELSE reply' = "terminated"
      BY <2>1 DEF EomCall
    <3>2. stage = "BODY" /\ n \in DOMAIN recipients
      BY <2>1 DEF EomCall, Bodies, TypeOK, Earliest
    <3>3. ASSUME NEW m \in Throws(pool, r, stage, o) PROVE FALSE
      <4>1. /\ m \in Due(pool, r, stage) /\ o[m] \notin Failure
            /\ AfterRun(pool[CellOf(r, m)], stage, o[m]).smfi # "CONTINUE"
        BY <3>3 DEF Throws, Stops, Earliest
      <4>2. m \in Mods /\ "BODY" \in pool[CellOf(r, m)].want
        BY <3>2, <4>1 DEF Due
      <4>3. CellOf(r, m) \in DOMAIN pool /\ CellOf(r, m)[1] = m
        BY <3>2, <4>2 DEF TypeOK, Cells, CellOf
      <4>4. RunAtEnd(m) /\ pool[CellOf(r, m)].smfi = "CONTINUE"
        BY <4>2, <4>3 DEF CellsAreLawful, Lawful
      <4>5. o[m] \in Can[m] /\ o[m] \in Outcome
        BY <4>1, MayCan
      <4>6. o[m] \in {"TEMPFAIL", "REJECT"}
        BY <4>1, <4>4, <4>5 DEF AfterRun, Outcome, Failure
      <4> QED BY <4>2, <4>4, <4>5, <4>6 DEF Objects
    <3> QED BY <3>1, <3>3 DEF BodyVerdictIsAnswered
  <2>2. ASSUME NEW n \in Rcpt, EohCall(n) PROVE BodyVerdictIsAnswered'
    BY <2>2 DEF EohCall, BodyVerdictIsAnswered
  <2>3. ASSUME NEW a \in Addr, NEW nv \in Never, EnvRcpt(a, nv) PROVE BodyVerdictIsAnswered'
    <3>1. reply' \in Smfi
      BY <2>3, EnvRcptType
    <3> QED BY <3>1 DEF Smfi, BodyVerdictIsAnswered
  <2>4. CASE EomEnd
    BY <2>4 DEF EomEnd, SetResponses, BodyVerdictIsAnswered
  <2>5. CASE Eoh \/ Body \/ Eom \/ Abort \/ EohEnd \/ Finished \/ UNCHANGED vars
    BY <2>5 DEF Eoh, Body, Eom, Abort, EohEnd, Finished, vars, BodyVerdictIsAnswered
  <2> QED BY <2>1, <2>2, <2>3, <2>4, <2>5 DEF Next, Callback
<1> QED BY <1>1, <1>2, TypeCorrect, BodiesAlways, LawfulAlways, PTL DEF Spec

\* A module that does not read its cell is run at the stages of its Status only.
AskedAsStatus ==
  \A n \in DOMAIN recipients, m \in Mods \ Dynamic, s \in Stage, o \in Outcome :
    <<m, s, o>> \in recipients[n].asked => s \in Status[m]

LEMMA RunsAsStatus ==
  ASSUME TypeOK, NEW p, NEW r \in Recipient, NEW o \in Runs(p, r),
         \A c \in DOMAIN p : c[1] \notin Dynamic => p[c].want = Status[c[1]],
         \A m \in Mods : CellOf(r, m) \in DOMAIN p
  PROVE  \A m, s, b : <<m, s, b>> \in Noted(p, r, stage, o).asked /\ m \notin Dynamic =>
           <<m, s, b>> \in r.asked \/ s \in Status[m]
<1>1. Noted(p, r, stage, o).asked =
        r.asked \cup {<<m, stage, o[m]>> : m \in Executed(p, r, stage, o)}
  BY DEF Noted, Recipient
<1>2. ASSUME NEW m \in Executed(p, r, stage, o), m \notin Dynamic
      PROVE  stage \in Status[m]
  <2>1. m \in Mods /\ stage \in p[CellOf(r, m)].want
    BY DEF Executed, Due
  <2>2. CellOf(r, m) \in DOMAIN p /\ CellOf(r, m)[1] = m
    BY <2>1 DEF CellOf
  <2> QED BY <1>2, <2>1, <2>2
<1> QED BY <1>1, <1>2

LEMMA RcptAsksAsStatus ==
  ASSUME TypeOK, Bodies, AskedAsStatus, NEW a \in Addr, NEW nv \in Never, EnvRcpt(a, nv)
  PROVE  AskedAsStatus'
<1> DEFINE n == serial + 1
<1>1. n \in Rcpt /\ nv \in BOOLEAN
  BY EngineAssumption DEF EnvRcpt
<1>2. PICK cells \in CellsFor(a, n) :
        LET r == [address |-> a, never |-> nv, modules |-> cells, asked |-> {}]
            p == PoolWith(r, n)
        IN  \E o \in Runs(p, r) : EnvRcptOutcome(n, r, p, o)
  BY Zenon DEF EnvRcpt
<1> DEFINE r == [address |-> a, never |-> nv, modules |-> cells, asked |-> {}]
           p == PoolWith(r, n)
<1>3. PICK o \in Runs(p, r) : EnvRcptOutcome(n, r, p, o)
  BY Zenon, <1>2
<1>4. r \in Recipient /\ \A m \in Mods : CellOf(r, m) \in DOMAIN p
  BY <1>1, CellsForType
<1>5. r.asked = {}
  OBVIOUS
<1>6. \A c \in DOMAIN p : IF c \in DOMAIN pool THEN p[c] = pool[c] ELSE p[c] = NewCell(c[1])
  BY DEF PoolWith
<1> HIDE DEF r, p
<1>7. \A c \in DOMAIN p : c[1] \notin Dynamic => p[c].want = Status[c[1]]
  BY <1>6 DEF Bodies, NewCell
<1> DEFINE q == Noted(p, r, stage, o)
<1>8. \A m, s, b : <<m, s, b>> \in q.asked /\ m \notin Dynamic => s \in Status[m]
  BY <1>4, <1>5, <1>7, RunsAsStatus
<1>9. recipients' = recipients \/ Push(n, q)
  BY <1>3 DEF EnvRcptOutcome
<1> HIDE DEF q
<1> QED BY <1>8, <1>9 DEF Push, AskedAsStatus

LEMMA AskedAsStatusAlways == Spec => []AskedAsStatus
<1>1. Init => AskedAsStatus
  BY DEF Init, NoFunction, AskedAsStatus
<1>2. TypeOK /\ Bodies /\ AskedAsStatus /\ [Next]_vars => AskedAsStatus'
  <2> SUFFICES ASSUME TypeOK, Bodies, AskedAsStatus, [Next]_vars PROVE AskedAsStatus'
    OBVIOUS
  <2>1. ASSUME NEW a \in Addr, NEW nv \in Never, EnvRcpt(a, nv) PROVE AskedAsStatus'
    BY <2>1, RcptAsksAsStatus
  <2>2. ASSUME NEW n \in Rcpt, EohCall(n) \/ EomCall(n) PROVE AskedAsStatus'
    <3> DEFINE r == recipients[n]
    <3>1. n \in DOMAIN recipients /\ r \in Recipient
      BY <2>2 DEF EohCall, EomCall, Earliest, TypeOK
    <3>2. \A m \in Mods : CellOf(r, m) \in DOMAIN pool
      BY <3>1 DEF TypeOK, Cells
    <3>3. PICK o \in Runs(pool, r) :
            \/ recipients' = NoFunction
            \/ recipients' = [recipients EXCEPT ![n] = Noted(pool, r, stage, o)]
      BY <2>2 DEF EohCall, EomCall
    <3> DEFINE q == Noted(pool, r, stage, o)
    <3>4. \A m, s, b : <<m, s, b>> \in q.asked /\ m \notin Dynamic =>
            <<m, s, b>> \in r.asked \/ s \in Status[m]
      BY <3>1, <3>2, RunsAsStatus DEF Bodies
    <3> HIDE DEF q
    <3>5. CASE recipients' = NoFunction
      BY <3>5 DEF NoFunction, AskedAsStatus
    <3>6. CASE recipients' = [recipients EXCEPT ![n] = q]
      BY <3>1, <3>4, <3>6 DEF AskedAsStatus
    <3> QED BY <3>3, <3>5, <3>6 DEF q
  <2>3. CASE Abort
    BY <2>3 DEF Abort, NoFunction, AskedAsStatus
  <2>4. CASE UNCHANGED recipients
    BY <2>4 DEF AskedAsStatus
  <2> QED
    BY <2>1, <2>2, <2>3, <2>4
       DEF Next, Callback, Eoh, Body, Eom, EohEnd, EomEnd, Finished, vars
<1> QED BY <1>1, <1>2, TypeCorrect, BodiesAlways, PTL DEF Spec

\* Where the modules before a dynamic one do not fail at the end of the headers and
\* none comes behind, the cell current_module is left at is one of the dynamic module:
\* its Status reads its own data (smfi-operations.cpp:147-154).
THEOREM RightCell ==
  ASSUME Dynamic \subseteq {NMods},
         \A m \in Mods : m = NMods \/ "HEADERS" \notin Status[m] \/ "fail" \notin Can[m]
  PROVE  Spec => [](reply # "wrongCell")
<1> DEFINE Right == reply # "wrongCell"
<1>1. Init => Right
  BY DEF Init
<1>2. TypeOK /\ Bodies /\ AskedAsStatus => ~WrongCell
  <2> SUFFICES ASSUME TypeOK, Bodies, AskedAsStatus, NEW c \in Current PROVE c[1] = NMods
    BY DEF WrongCell
  <2>1. PICK k \in DOMAIN recipients :
          \E j \in LastVisited(recipients[k]) : c = CellOf(recipients[k], j)
    BY DEF Current, Latest
  <2>2. PICK j \in LastVisited(recipients[k]) : c = CellOf(recipients[k], j)
    BY <2>1
  <2>3. CASE j # NMods
    <3>1. j \in Mods /\ \E o \in Failure : <<j, "HEADERS", o>> \in recipients[k].asked
      BY <2>3 DEF LastVisited
    <3>2. PICK o \in Failure : <<j, "HEADERS", o>> \in recipients[k].asked
      BY <3>1
    <3>3. o \in Outcome /\ "HEADERS" \in Stage /\ j \notin Dynamic
      BY <2>3 DEF Failure, Outcome, Stage
    <3>4. o \in Can[j] /\ "HEADERS" \in Status[j]
      BY <3>1, <3>2, <3>3 DEF Bodies, AskedAsStatus
    <3>5. o = "fail"
      BY <3>1, <3>3, <3>4, EngineAssumption DEF Failure
    <3> QED BY <2>3, <3>1, <3>4, <3>5
  <2> QED BY <2>2, <2>3 DEF CellOf
<1>3. TypeOK /\ Bodies /\ AskedAsStatus /\ Right /\ [Next]_vars => Right'
  <2> SUFFICES ASSUME TypeOK, ~WrongCell, reply # "wrongCell", [Next]_vars
               PROVE  reply' # "wrongCell"
    BY <1>2
  <2>1. ASSUME NEW a \in Addr, NEW nv \in Never, EnvRcpt(a, nv) PROVE reply' # "wrongCell"
    <3>1. reply' \in Smfi
      BY <2>1, EnvRcptType
    <3> QED BY <3>1 DEF Smfi
  <2>2. ASSUME NEW n \in Rcpt, EohCall(n) \/ EomCall(n) PROVE reply' # "wrongCell"
    BY <2>2 DEF EohCall, EomCall
  <2>3. CASE EomEnd
    BY <2>3 DEF EomEnd, SetResponses
  <2>4. CASE Eoh \/ Body \/ Eom \/ Abort \/ EohEnd \/ Finished \/ UNCHANGED vars
    BY <2>4 DEF Eoh, Body, Eom, Abort, EohEnd, Finished, vars
  <2> QED BY <2>1, <2>2, <2>3, <2>4 DEF Next, Callback
<1> HIDE DEF Right
<1>4. Spec => []Right
  BY <1>1, <1>3, TypeCorrect, BodiesAlways, AskedAsStatusAlways, PTL DEF Spec
<1> QED BY <1>4 DEF Right

\* Together: with these modules, and clients that use neither PRDR nor NOTIFY=NEVER,
\* every callback of a message returns to libmilter, with an answer of the protocol.
THEOREM DaemonSurvives ==
  ASSUME Never \subseteq {FALSE}, Dynamic \subseteq {NMods},
         \A m \in Mods : m = NMods \/ "HEADERS" \notin Status[m] \/ "fail" \notin Can[m],
         \A m \in Mods : Objects(m) => ~RunAtEnd(m)
  PROVE  Spec => [](~prdr => reply \in Smfi \cup {"none"})
<1>1. Spec => [](~prdr => DisagreementIsAnswered)
  BY DisagreementOfClasses
<1>2. Spec => []BodyVerdictIsAnswered
  BY SurvivesTheEnd
<1>3. Spec => [](reply # "wrongCell")
  BY RightCell
<1>4. TypeOK /\ (~prdr => DisagreementIsAnswered) /\ BodyVerdictIsAnswered
      /\ reply # "wrongCell" => (~prdr => reply \in Smfi \cup {"none"})
  BY DEF TypeOK, Reply, DisagreementIsAnswered, BodyVerdictIsAnswered
<1> QED BY <1>1, <1>2, <1>3, <1>4, TypeCorrect, PTL
-----------------------------------------------------------------------------
(***************************************************************************)
(* The loops of eoh and eom come to their ends: each step takes recipients *)
(* from those that are left, and while some are left there is a step.      *)
(* With the fairness of Callback this is why CallbackEnds holds.           *)
(***************************************************************************)
LoopAdvances ==
  phase \in {"eoh", "eom"} =>
    \/ phase' \in {"body", "done"}
    \/ phase' = phase /\ todo' \subseteq todo /\ todo' # todo

\* Every run of a module returns, whatever the stage: it cannot only ask for more.
Returns == \A m \in Mods : Can[m] \cap {"pass", "TEMPFAIL", "REJECT", "fail"} # {}

LoopGoesOn ==
  phase \in {"eoh", "eom"} /\ todo # {} =>
    \E n \in Earliest(todo) : n \in Rcpt /\ Runs(pool, recipients[n]) # {}

\* A callback that has begun never goes back to a recipient, nor over to another callback
\* before it has returned (the loops of prdr_eoh and prdr_eom).
THEOREM LoopsAdvance == Spec => [][LoopAdvances]_vars
<1>1. TypeOK /\ [Next]_vars => [LoopAdvances]_vars
  <2> SUFFICES ASSUME TypeOK, Next, phase \in {"eoh", "eom"}
               PROVE  \/ phase' \in {"body", "done"}
                      \/ phase' = phase /\ todo' \subseteq todo /\ todo' # todo
    BY DEF LoopAdvances
  <2>1. ASSUME NEW n \in Rcpt, EohCall(n)
        PROVE  phase' = "done" \/ (phase' = phase /\ todo' = todo \ {n} /\ n \in todo)
    <3>1. n \in todo
      BY <2>1 DEF EohCall, Earliest
    <3>2. \/ todo' = todo \ {n} /\ phase' = phase
          \/ phase' = "done"
      BY <2>1 DEF EohCall
    <3> QED BY <3>1, <3>2
  <2>2. ASSUME NEW n \in Rcpt, EomCall(n)
        PROVE  phase' = "done" \/ (phase' = phase /\ todo' = todo \ {n} /\ n \in todo)
    <3>1. n \in todo
      BY <2>2 DEF EomCall, Earliest
    <3>2. \/ todo' = todo \ {n} /\ phase' = phase
          \/ phase' = "done"
      BY <2>2 DEF EomCall
    <3> QED BY <3>1, <3>2
  <2>3. CASE EohEnd \/ EomEnd
    BY <2>3 DEF EohEnd, EomEnd
  <2>4. CASE Eoh \/ Body \/ Eom \/ Abort \/ Finished
               \/ \E a \in Addr, nv \in Never : EnvRcpt(a, nv)
    BY <2>4 DEF Eoh, Body, Eom, Abort, Finished, EnvRcpt
  <2> QED BY <2>1, <2>2, <2>3, <2>4 DEF Next, Callback
<1> QED BY <1>1, TypeCorrect, PTL DEF Spec

\* The next recipient is always found, and its modules can be run.
LEMMA RunExists ==
  ASSUME TypeOK, Returns, NEW r \in Recipient
  PROVE  Runs(pool, r) # {}
<1>1. ASSUME NEW m \in Due(pool, r, stage) PROVE May(m) # {} /\ May(m) \subseteq Outcome
  <2>1. m \in Mods
    BY DEF Due
  <2>2. PICK o \in Can[m] : o \in {"pass", "TEMPFAIL", "REJECT", "fail"}
    BY <2>1 DEF Returns
  <2>3. Needs(o) = {} /\ Can[m] \subseteq Outcome
    BY <2>1, <2>2, EngineAssumption DEF Needs
  <2>4. {q \in Can[m] : Needs(q) \subseteq Later(stage)} # {}
    BY <2>2, <2>3
  <2> QED BY <2>3, <2>4 DEF May
<1> DEFINE f == [m \in Due(pool, r, stage) |-> CHOOSE o \in May(m) : TRUE]
<1>2. \A m \in Due(pool, r, stage) : f[m] \in May(m)
  BY <1>1
<1>3. f \in [Due(pool, r, stage) -> Outcome]
  BY <1>1, <1>2
<1>4. f \in Runs(pool, r)
  <2> HIDE DEF f
  <2>1. DOMAIN f = Due(pool, r, stage)
    BY <1>3
  <2> QED BY <1>2, <1>3, <2>1 DEF Runs
<1> QED BY <1>4

\* No callback hangs between two recipients, provided that modules return at all.
THEOREM LoopsGoOn == ASSUME Returns PROVE Spec => []LoopGoesOn
<1>1. TypeOK => LoopGoesOn
  <2> SUFFICES ASSUME TypeOK, todo # {}
               PROVE  \E n \in Earliest(todo) : n \in Rcpt /\ Runs(pool, recipients[n]) # {}
    BY DEF LoopGoesOn
  <2>1. DOMAIN recipients \subseteq Rcpt /\ todo \subseteq DOMAIN recipients
    BY SerialsBounded DEF TypeOK
  <2>2. PICK n : n \in Earliest(todo)
    <3>1. MaxRcpt \in Nat /\ todo \in SUBSET (1..MaxRcpt)
      BY <2>1, EngineAssumption DEF Rcpt
    <3>2. Earliest(todo) # {}
      BY <3>1, EarliestExists, Zenon
    <3> QED BY <3>2
  <2>3. n \in DOMAIN recipients /\ recipients[n] \in Recipient
    BY <2>1, <2>2 DEF Earliest, TypeOK
  <2> QED BY <2>1, <2>2, <2>3, RunExists
<1> QED BY <1>1, TypeCorrect, PTL
=============================================================================
