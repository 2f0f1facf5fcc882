------------------------------- MODULE Engine -------------------------------
(***************************************************************************)
(* One message on its way through the filter: RCPT TO commands, the end of *)
(* the headers, the body and the end of the message, as                    *)
(* smfi-operations.cpp and Privdata.cpp handle them for the matrix of      *)
(* recipients and modules that documentation.txt describes.                *)
(*                                                                         *)
(* Every recipient has one cell per module (Recipient::modules); a module  *)
(* that declares two recipients equal makes them share a cell.  A cell     *)
(* keeps the verdict of the module (Module::smfi_const).                   *)
(*                                                                         *)
(* A RCPT command is known by its serial number.  priv.recipients is a     *)
(* function whose domain is the set of accepted serials; the order of the  *)
(* vector is the order of the serials, so that the front of the vector and *)
(* the first match of std::find_if are both "Earliest".  priv.module_pool  *)
(* is a function on the cells allocated so far, the cell <<m, n>> being    *)
(* the one created for module m by RCPT command n.                         *)
(***************************************************************************)
EXTENDS Integers

CONSTANTS
  Addr,      \* normalised recipient addresses
  NMods,     \* number of loaded modules; they run in the order 1..NMods
  MaxRcpt,   \* bound: RCPT commands in one message
  Equal,     \* Equal[m]: the pairs of addresses module m declares equal
  Status,    \* Status[m]: the stages the fresh cell of module m asks for
  Can,       \* Can[m]: what a run of module m may do (a subset of Outcome)
  Dynamic,   \* modules whose Status reads the data of a cell (mod_sieve)
  Never,     \* may a recipient carry NOTIFY=NEVER?  a set of Booleans
  Start      \* what a message may begin with: whether MAIL FROM offers PRDR, and the
             \* sender, "address" or "null" for MAIL FROM:<>

Mods  == 1..NMods
Rcpt  == 1..MaxRcpt
Cell  == Mods \X Rcpt
Stage == {"RCPT", "HEADERS", "BODY"}

\* SMFIS_CONTINUE, SMFIS_TEMPFAIL and SMFIS_REJECT.
Smfi == {"CONTINUE", "TEMPFAIL", "REJECT"}

\* What one SoModule::Run does: pass (return without a response), give a 4xx or
\* 5xx response, fail (return false or DoFail), or fail because a later stage
\* is needed, which the cell's Status will ask for from then on.
Outcome == {"pass", "TEMPFAIL", "REJECT", "fail", "needHEADERS", "needBODY"}
Failure == {"fail", "needHEADERS", "needBODY"}

ASSUME EngineAssumption ==
  /\ NMods \in Nat \ {0} /\ MaxRcpt \in Nat \ {0}
  /\ Equal \in [Mods -> SUBSET (Addr \X Addr)]
  /\ Status \in [Mods -> SUBSET Stage]
  /\ Can \in [Mods -> SUBSET Outcome]
  /\ Dynamic \subseteq Mods
  /\ \A m \in Mods \ Dynamic : Can[m] \cap {"needHEADERS", "needBODY"} = {}
  /\ Never \subseteq BOOLEAN
  /\ Start \subseteq BOOLEAN \X {"address", "null"}

VARIABLES
  prdr,        \* priv.prdr_supported, from MAIL FROM
  envfrom,     \* priv.msg.envfrom: "address", or empty because of the "null"
               \* sender or because eoh has "dropped" the message
  stage,       \* priv.stage
  serial,      \* RCPT commands received
  recipients,  \* priv.recipients
  pool,        \* priv.module_pool
  phase,       \* the callback that runs or that the MTA may call next
  todo,        \* the recipients the loop of eoh or eom has still to visit
  body,        \* has priv.msg.body received the body?
  answers,     \* the local vector of SetResponses, once it has been filled
  reply        \* what the last callback returned, or how the daemon died

vars == <<prdr, envfrom, stage, serial, recipients, pool, phase, todo, body, answers,
          reply>>

CellState == [want : SUBSET Stage, flags : SUBSET Stage, smfi : Smfi]
Recipient == [address : Addr, never : BOOLEAN, modules : [Mods -> Rcpt],
              asked : SUBSET (Mods \X Stage \X Outcome)]
Reply     == Smfi \cup {"none", "nullDeref", "wrongCell", "terminated"}

-----------------------------------------------------------------------------
\* The front of a vector, or the first element a forward search meets.
Earliest(S) == {k \in S : \A j \in S : k <= j}

\* The pointer r->modules[m].
CellOf(r, m) == <<m, r.modules[m]>>

NewCell(m) == [want |-> Status[m], flags |-> {}, smfi |-> "CONTINUE"]

\* C's "!" applied to a non-zero constant is 0: no bit is left to "&=".
LogicalNot(bits) == IF bits = {} THEN Stage ELSE {}

\* The stages a run may ask for.  A run cannot need what it already has.
Needs(o) == CASE o = "needHEADERS" -> {"HEADERS"}
              [] o = "needBODY"    -> {"BODY"}
              [] OTHER             -> {}
Later(s) == CASE s = "RCPT"    -> {"HEADERS", "BODY"}
              [] s = "HEADERS" -> {"BODY"}
              [] OTHER         -> {}

-----------------------------------------------------------------------------
(***************************************************************************)
(* Privdata::operator(), for recipient r, the pool p and the stage s.  The *)
(* function o gives the outcome of every module that could run.            *)
(***************************************************************************)

\* The modules that are subject to execution at this stage.
Due(p, r, s) ==
  {m \in Mods : s \in p[CellOf(r, m)].want /\ s \notin p[CellOf(r, m)].flags}

\* Mutant: what the module returned is stored without a look at the first digit.
AfterRun_Verbatim(c, s, o) ==
  [want |-> c.want \cup Needs(o), flags |-> {}, smfi |-> o]

\* A cell after its module has run in it.
AfterRun(c, s, o) ==
  [want  |-> c.want \cup Needs(o),
   flags |-> (c.flags \cup {s}) \cap LogicalNot({"FAILED"}),
   smfi  |-> IF o \in Failure THEN "CONTINUE"
             ELSE IF o = "pass" THEN c.smfi ELSE o]

\* The loop ends at the first module that fails or whose cell holds a rejection.
Stops(p, r, s, o) ==
  {m \in Due(p, r, s) :
     o[m] \in Failure \/ AfterRun(p[CellOf(r, m)], s, o[m]).smfi # "CONTINUE"}
Executed(p, r, s, o) ==
  {m \in Due(p, r, s) : \A k \in Stops(p, r, s, o) : m <= k}

PoolAfter(p, r, s, o) ==
  [c \in DOMAIN p |->
     IF \E m \in Executed(p, r, s, o) : c = CellOf(r, m)
     THEN AfterRun(p[c], s, o[c[1]]) ELSE p[c]]

\* The module "throw (int)i" names: none when the call returns true or false.
Throws(p, r, s, o) ==
  {m \in Earliest(Stops(p, r, s, o)) : o[m] \notin Failure}

\* The recipient with the runs of this call noted down.
Noted(p, r, s, o) ==
  [r EXCEPT !.asked = @ \cup {<<m, s, o[m]>> : m \in Executed(p, r, s, o)}]

\* What module m may do now, also in a cell it has already run in: modules that
\* declare recipients equal may look at the recipient all the same, as mod_sieve does,
\* whose Equal compares scripts and whose scripts may test the envelope.
May(m) == {o \in Can[m] : Needs(o) \subseteq Later(stage)}

Runs(p, r) ==
  {o \in [Due(p, r, stage) -> Outcome] : \A m \in DOMAIN o : o[m] \in May(m)}

-----------------------------------------------------------------------------
(***************************************************************************)
(* Privdata::SetResponses, the part that looks for one common answer.  The *)
(* entry of a recipient is {} for nullptr, and {m} for the first module    *)
(* that has not accepted.                                                  *)
(***************************************************************************)
Answers(p) ==
  [n \in DOMAIN recipients |->
     Earliest({m \in Mods : p[CellOf(recipients[n], m)].smfi # "CONTINUE"})]

\* answers.front()->return_code[0]: a front entry nullptr is dereferenced.
FrontCode(p) ==
  UNION {{p[CellOf(recipients[n], m)].smfi : m \in Answers(p)[n]} :
            n \in Earliest(DOMAIN recipients)}

\* Mutant: the first recipient speaks for all.
SetResponses_FrontOnly(p) ==
  IF FrontCode(p) = {} THEN "CONTINUE"
  ELSE IF "TEMPFAIL" \in FrontCode(p) THEN "TEMPFAIL" ELSE "REJECT"

SetResponses(p) ==
  LET nulls == {n \in DOMAIN recipients : Answers(p)[n] = {}}
  IN  IF nulls = DOMAIN recipients THEN "CONTINUE"
      ELSE IF nulls = {} THEN "REJECT"
      ELSE IF FrontCode(p) = {} THEN "nullDeref"
      ELSE IF "TEMPFAIL" \in FrontCode(p) THEN "TEMPFAIL"
      ELSE "REJECT"

-----------------------------------------------------------------------------
(***************************************************************************)
(* The callbacks.  MAIL FROM has just been accepted in the initial states. *)
(***************************************************************************)
NoFunction == [x \in {} |-> x]

Init ==
  /\ \E s \in Start : prdr = s[1] /\ envfrom = s[2]
  /\ stage = "RCPT" /\ phase = "rcpt"
  /\ serial = 0 /\ recipients = NoFunction /\ pool = NoFunction
  /\ todo = {} /\ body = FALSE
  /\ answers = NoFunction /\ reply = "none"

\* The cells of a recipient: the cell of the first accepted recipient the
\* module declares equal to it, or a new one.
EqualTo(m, a) ==
  Earliest({k \in DOMAIN recipients : <<recipients[k].address, a>> \in Equal[m]})
Owner(m, a, n) ==
  IF EqualTo(m, a) = {} THEN {n}
  ELSE {recipients[k].modules[m] : k \in EqualTo(m, a)}
CellsFor(a, n) == {f \in [Mods -> Rcpt] : \A m \in Mods : f[m] \in Owner(m, a, n)}

PoolWith(r, n) ==
  [c \in DOMAIN pool \cup {<<m, n>> : m \in {k \in Mods : r.modules[k] = n}} |->
     IF c \in DOMAIN pool THEN pool[c] ELSE NewCell(c[1])]

\* Mutants: the last module, or every module but the first, is not compared.
NeedsPrdr_NotTheLast(r) ==
  /\ ~r.never
  /\ \E k \in Earliest(DOMAIN recipients), m \in 1..(NMods - 1) :
        CellOf(recipients[k], m) # CellOf(r, m)
NeedsPrdr_OnlyTheFirst(r) ==
  /\ ~r.never
  /\ \E k \in Earliest(DOMAIN recipients) : CellOf(recipients[k], 1) # CellOf(r, 1)

\* Not equivalent to the first accepted recipient, and bounces may be sent.
NeedsPrdr(r) ==
  /\ ~r.never
  /\ \E k \in Earliest(DOMAIN recipients), m \in Mods :
        CellOf(recipients[k], m) # CellOf(r, m)

Push(n, r) ==
  recipients' = [k \in DOMAIN recipients \cup {n} |->
                   IF k = n THEN r ELSE recipients[k]]

\* Mutant: a rejected recipient is kept in the vector.
EnvRcptOutcome_KeepsRejected(n, r, p, o) ==
  /\ pool' = PoolAfter(p, r, stage, o)
  /\ Push(n, Noted(p, r, stage, o))
  /\ IF Throws(p, r, stage, o) = {} THEN reply' = "CONTINUE"
     ELSE \E m \in Throws(p, r, stage, o) : reply' = pool'[CellOf(r, m)].smfi

EnvRcptOutcome(n, r, p, o) ==
  /\ pool' = PoolAfter(p, r, stage, o)
  /\ \/ \E m \in Throws(p, r, stage, o) :
          /\ reply' = pool'[CellOf(r, m)].smfi
          /\ UNCHANGED recipients
     \/ /\ Throws(p, r, stage, o) = {}
        /\ IF NeedsPrdr(r) /\ ~prdr
           THEN reply' = "TEMPFAIL" /\ UNCHANGED recipients
           ELSE reply' = "CONTINUE" /\ Push(n, Noted(p, r, stage, o))

EnvRcpt(a, nv) ==
  LET n == serial + 1
  IN  /\ phase = "rcpt" /\ n \in Rcpt
      /\ serial' = n
      /\ \E cells \in CellsFor(a, n) :
           LET r == [address |-> a, never |-> nv, modules |-> cells, asked |-> {}]
               p == PoolWith(r, n)
           IN  \E o \in Runs(p, r) : EnvRcptOutcome(n, r, p, o)
      /\ UNCHANGED <<prdr, envfrom, stage, phase, todo, body, answers>>

\* The MTA sends the headers only when a recipient was accepted.
Eoh ==
  /\ phase = "rcpt" /\ recipients # NoFunction
  /\ stage' = "HEADERS" /\ phase' = "eoh" /\ todo' = DOMAIN recipients
  /\ UNCHANGED <<prdr, envfrom, serial, recipients, pool, body, answers, reply>>

\* Mutants: the loop ends when a call returns false; it starts over then.
EohCall_EndsOnFailure(n) ==
  /\ phase = "eoh" /\ n \in Earliest(todo)
  /\ \E o \in Runs(pool, recipients[n]) :
       LET r == recipients[n]
       IN  /\ Throws(pool, r, stage, o) = {}
           /\ pool' = PoolAfter(pool, r, stage, o)
           /\ recipients' = [recipients EXCEPT ![n] = Noted(pool, r, stage, o)]
           /\ todo' = IF Stops(pool, r, stage, o) = {} THEN todo \ {n} ELSE {}
  /\ UNCHANGED <<prdr, envfrom, stage, serial, phase, body, answers, reply>>
EohCall_StartsOver(n) ==
  /\ phase = "eoh" /\ n \in Earliest(todo)
  /\ \E o \in Runs(pool, recipients[n]) :
       LET r == recipients[n]
       IN  /\ Throws(pool, r, stage, o) = {}
           /\ pool' = PoolAfter(pool, r, stage, o)
           /\ recipients' = [recipients EXCEPT ![n] = Noted(pool, r, stage, o)]
           /\ todo' = IF Stops(pool, r, stage, o) = {} THEN todo \ {n}
                      ELSE DOMAIN recipients
  /\ UNCHANGED <<prdr, envfrom, stage, serial, phase, body, answers, reply>>

\* One call of the operator in the loop of prdr_eoh.  A throw ends the message:
\* SetResponses runs, its result is dropped, and all recipients are rejected.
EohCall(n) ==
  /\ phase = "eoh" /\ n \in Earliest(todo)
  /\ \E o \in Runs(pool, recipients[n]) :
       LET r == recipients[n]
           p == PoolAfter(pool, r, stage, o)
       IN  /\ pool' = p
           /\ IF Throws(pool, r, stage, o) = {}
              THEN /\ recipients' = [recipients EXCEPT ![n] = Noted(pool, r, stage, o)]
                   /\ todo' = todo \ {n}
                   /\ UNCHANGED <<phase, answers, reply>>
              ELSE /\ answers' = Answers(p)
                   /\ reply' = IF SetResponses(p) = "nullDeref" THEN "nullDeref"
                               ELSE "REJECT"
                   /\ recipients' = NoFunction
                   /\ todo' = {} /\ phase' = "done"
  /\ UNCHANGED <<prdr, envfrom, stage, serial, body>>

\* The cell current_module points to after the loop: the one the last recipient
\* failed in, or else its last one.
Latest(S) == {k \in S : \A j \in S : j <= k}
LastVisited(r) ==
  LET failed == {m \in Mods : \E o \in Failure : <<m, "HEADERS", o>> \in r.asked}
  IN  IF failed = {} THEN {NMods} ELSE failed
Current ==
  UNION {{CellOf(recipients[k], m) : m \in LastVisited(recipients[k])} :
            k \in Latest(DOMAIN recipients)}

\* Mutant: mod_sieve is taken to need what a fresh cell asks for.
BodyNeeded_Fresh == Earliest({m \in Mods : "BODY" \in Status[m]})

\* The first module whose Status ends the walk over recipients and modules.  The
\* loop sets neither current_module, which mod_sieve reads, nor anything else that
\* differs from recipient to recipient; in the cell of another module mod_sieve
\* follows a null pointer.
BodyNeeded ==
  Earliest({m \in Mods :
    IF m \in Dynamic THEN \A c \in Current : c[1] = m => "BODY" \in pool[c].want
    ELSE "BODY" \in Status[m]})
WrongCell == \E m \in BodyNeeded \cap Dynamic, c \in Current : c[1] # m

\* No module rejected.  When no module asks for the body, priv.msg is replaced
\* by an empty Message, so that prdr_body will skip.
EohEnd ==
  /\ phase = "eoh" /\ todo = {}
  /\ \/ /\ WrongCell
        /\ reply' = "wrongCell" /\ phase' = "done" /\ UNCHANGED envfrom
     \/ /\ ~WrongCell
        /\ envfrom' = IF BodyNeeded = {} THEN "dropped" ELSE envfrom
        /\ reply' = "CONTINUE" /\ phase' = "body"
  /\ UNCHANGED <<prdr, stage, serial, recipients, pool, todo, body, answers>>

\* Mutant: the body is taken in though there is no sender.
Body_AnySender ==
  /\ phase = "body" /\ ~body
  /\ body' = TRUE /\ reply' = "CONTINUE"
  /\ UNCHANGED <<prdr, envfrom, stage, serial, recipients, pool, phase, todo,
                 answers>>

\* prdr_body with the chunks of a non-empty body.
Body ==
  /\ phase = "body" /\ envfrom = "address" /\ ~body
  /\ body' = TRUE /\ reply' = "CONTINUE"
  /\ UNCHANGED <<prdr, envfrom, stage, serial, recipients, pool, phase, todo,
                 answers>>

\* The MTA ends the message once the body is delivered or was not asked for.
Eom ==
  /\ phase = "body" /\ (body \/ envfrom # "address")
  /\ stage' = "BODY" /\ phase' = "eom" /\ todo' = DOMAIN recipients
  /\ UNCHANGED <<prdr, envfrom, serial, recipients, pool, body, answers, reply>>

\* One call of the operator in prdr_eom.  Nothing catches what it throws.
EomCall(n) ==
  /\ phase = "eom" /\ n \in Earliest(todo)
  /\ \E o \in Runs(pool, recipients[n]) :
       LET r == recipients[n]
       IN  /\ pool' = PoolAfter(pool, r, stage, o)
           /\ recipients' = [recipients EXCEPT ![n] = Noted(pool, r, stage, o)]
           /\ IF Throws(pool, r, stage, o) = {}
              THEN todo' = todo \ {n} /\ UNCHANGED <<phase, reply>>
              ELSE todo' = {} /\ phase' = "done" /\ reply' = "terminated"
  /\ UNCHANGED <<prdr, envfrom, stage, serial, body, answers>>

EomEnd ==
  /\ phase = "eom" /\ todo = {}
  /\ answers' = Answers(pool) /\ reply' = SetResponses(pool)
  /\ phase' = "done"
  /\ UNCHANGED <<prdr, envfrom, stage, serial, recipients, pool, todo, body>>

\* prdr_abort, which the MTA may call between two callbacks of a message: the
\* Privdata is deleted with its recipients and its cells.
Abort ==
  /\ phase \in {"rcpt", "body"}
  /\ recipients' = NoFunction /\ pool' = NoFunction
  /\ reply' = "CONTINUE" /\ phase' = "done"
  /\ UNCHANGED <<prdr, envfrom, stage, serial, todo, body, answers>>

\* The message is over; the next one is Session's business.
Finished == phase = "done" /\ UNCHANGED vars

Callback == \/ \E n \in Rcpt : EohCall(n) \/ EomCall(n)
            \/ EohEnd \/ EomEnd

Next == \/ \E a \in Addr, nv \in Never : EnvRcpt(a, nv)
        \/ Eoh \/ Body \/ Eom \/ Abort \/ Callback \/ Finished

\* A callback that has begun comes to its end; the MTA may stop at any time.
Spec == Init /\ [][Next]_vars /\ WF_vars(Callback)
-----------------------------------------------------------------------------
(***************************************************************************)
(* Properties that the code is meant to have and has.                      *)
(***************************************************************************)
Cells(n) == {CellOf(recipients[n], m) : m \in Mods}

\* Every variable has its type; every accepted recipient has a cell of the pool
\* for each module, made by an earlier RCPT command or by its own; only the loops of
\* eoh and eom have recipients to visit.
TypeOK ==
  /\ prdr \in BOOLEAN /\ body \in BOOLEAN
  /\ envfrom \in {"address", "null", "dropped"}
  /\ stage \in Stage /\ phase \in {"rcpt", "eoh", "body", "eom", "done"}
  /\ serial \in 0..MaxRcpt
  /\ DOMAIN recipients \subseteq 1..serial
  /\ recipients \in [DOMAIN recipients -> Recipient]
  /\ DOMAIN pool \subseteq Mods \X (1..serial)
  /\ pool \in [DOMAIN pool -> CellState]
  /\ \A n \in DOMAIN recipients : Cells(n) \subseteq DOMAIN pool
  /\ todo \subseteq DOMAIN recipients
  /\ phase \notin {"eoh", "eom"} => todo = {}
  /\ DOMAIN answers \subseteq Rcpt
  /\ answers \in [DOMAIN answers -> SUBSET Mods]
  /\ reply \in Reply

\* Delayed mode (prdr_envrcpt, lines 97-107): without PRDR every recipient but
\* one that wants no bounces shares all its cells with the first one.
SameCellsAsFirst ==
  ~prdr => \A f \in Earliest(DOMAIN recipients), n \in DOMAIN recipients :
              recipients[n].never \/ recipients[n].modules = recipients[f].modules

\* Delayed mode is what makes one SMTP reply enough: when neither PRDR nor
\* NOTIFY=NEVER lets a recipient in, SetResponses finds the same answer for
\* all, never looks for one behind a null pointer, and the reply is an
\* acceptance exactly when no recipient objects.
OneClass == ~prdr /\ \A n \in DOMAIN recipients : ~recipients[n].never
OneReplyForAll ==
  [][OneClass /\ answers' # answers =>
       /\ \A n, k \in DOMAIN answers' : answers'[n] = answers'[k]
       /\ reply' # "nullDeref"
       /\ \A n \in DOMAIN answers' : reply' = "CONTINUE" <=> answers'[n] = {}]_vars

\* An accepted message has been shown to every cell at every stage the cell asks
\* for, with one of the recipients that share it, unless an earlier module of the
\* recipient failed at that stage (the operator returns there, line 436).
ShownToEveryCell ==
  phase = "done" /\ reply = "CONTINUE" =>
    \A n \in DOMAIN recipients, m \in Mods :
      \A s \in pool[CellOf(recipients[n], m)].want :
        \/ \E k \in DOMAIN recipients, o \in Outcome :
              /\ CellOf(recipients[k], m) = CellOf(recipients[n], m)
              /\ <<m, s, o>> \in recipients[k].asked
        \/ \E k \in 1..(m - 1), o \in Failure : <<k, s, o>> \in recipients[n].asked

\* A module that runs at the end of the message finds the body, though eoh asks one
\* cell of a dynamic module only (lines 148-158, 176): with recipients of one class
\* all share that cell, if no other module comes behind.  The null sender is the
\* exception: with it prdr_body takes in no body.
BodyIsThere ==
  envfrom # "null" /\ OneClass /\ Dynamic \subseteq {NMods} =>
    \A n \in DOMAIN recipients :
      (\E m \in Mods, o \in Outcome : <<m, "BODY", o>> \in recipients[n].asked) => body

\* The loops over the recipients in eoh and eom come to an end.
CallbackEnds == phase \in {"eoh", "eom"} ~> phase \in {"body", "done"}

-----------------------------------------------------------------------------
(***************************************************************************)
(* The promise this module implements.  A recipient is among the accepted  *)
(* ones while the message is open and after it has been delivered.         *)
(***************************************************************************)
Ended ==
  IF phase = "rcpt" THEN "rcpt"
  ELSE IF phase # "done" THEN "data"
  ELSE IF reply \notin Smfi THEN "died"
  ELSE IF answers = NoFunction THEN "givenUp"
  ELSE IF reply = "CONTINUE" THEN "delivered"
  ELSE IF reply = "REJECT" THEN "rejected" ELSE "deferred"

Addressees == IF Ended \in {"rcpt", "data", "delivered"} THEN DOMAIN recipients ELSE {}
Mixed      == phase # "done" /\ ~OneClass
Objecting  == {n \in DOMAIN answers : answers[n] # {}}

Promise == INSTANCE Verdict WITH
  offered <- serial, accepted <- Addressees, mixed <- Mixed,
  objecting <- Objecting, outcome <- Ended

\* One outcome for all recipients: the message is delivered only if no recipient
\* objects, and recipients of one class object together or not at all; across all
\* callbacks of a message (prdr_envrcpt to prdr_eom, SetResponses).
OneVerdict == Promise!Spec

-----------------------------------------------------------------------------
(***************************************************************************)
(* The part this module has in a connection: what Session leaves open for  *)
(* the first message on it.  A callback that has not returned, or that     *)
(* has ended the daemon, has changed nothing yet there.                    *)
(***************************************************************************)
Halfway   == phase \in {"eoh", "eom"} \/ Ended = "died"
StageSeen == IF ~Halfway THEN stage ELSE IF stage = "HEADERS" THEN "RCPT" ELSE "HEADERS"
FirstIf(b) == IF b THEN {1} ELSE {}

Dialogue == IF Ended = "died" THEN "dead"
            ELSE IF phase = "done" THEN "idle"
            ELSE IF phase \in {"rcpt", "eoh"} THEN "rcpt" ELSE "body"

\* NoFunction, which is no record of a Privdata, stands for the null pointer.
Kept ==
  IF Ended = "givenUp" THEN NoFunction
  ELSE [stage |-> StageSeen, envfrom |-> IF envfrom = "address" THEN envfrom ELSE "empty",
        recipients |-> FirstIf(recipients # NoFunction \/ Ended = "died"),
        pool |-> FirstIf(pool # NoFunction), headers |-> {}, body |-> FirstIf(body),
        array |-> TRUE, bytes |-> FirstIf(body), parser |-> NoFunction,
        live |-> Ended \in {"rcpt", "data", "died"}, replaceFrom |-> FALSE]

Connection == INSTANCE Session WITH
  Null <- NoFunction, MaxMsg <- 1, smtp <- Dialogue, msg <- 1, priv <- Kept,
  leaked <- FALSE, past <- {}

\* The matrix decides within what the connection allows: from the state in which
\* HELO and MAIL FROM leave a new Privdata, each callback does to stage, sender,
\* recipients, cells, body and modules' data one thing the same callback of Session
\* does, however many calls of the operator it consists of (prdr_envrcpt to prdr_abort).
MessageOfConnection ==
  /\ Dialogue = "rcpt" /\ Kept.stage = "RCPT" /\ Kept.live
  /\ \A held \in {"recipients", "pool", "body", "bytes"} : Kept[held] = {}
  /\ [][Connection!Next]_(Connection!vars)

-----------------------------------------------------------------------------
(***************************************************************************)
(* What the documentation or a comment says and the code does not do.      *)
(***************************************************************************)

\* smfi-operations.cpp:156: when the message is given up, no module needs the body.
GivenUpInTime ==
  envfrom = "dropped" =>
    \A n \in DOMAIN recipients, m \in Mods :
      "BODY" \notin pool[CellOf(recipients[n], m)].want

\* documentation.txt:4: the message can be rejected after DATA; the daemon
\* answers and goes on.
BodyVerdictIsAnswered == reply # "terminated"

\* Privdata.cpp:395-396: when the modules disagree, the reply is what the first
\* recipient thinks.
DisagreementIsAnswered == reply # "nullDeref"
=============================================================================
