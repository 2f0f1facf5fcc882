--------------------------- MODULE SessionProofs ----------------------------
(***************************************************************************)
(* Theorems about Session for any number of messages on a connection.      *)
(***************************************************************************)
EXTENDS Session, TLAPS

(***************************************************************************)
(* What holds between two messages makes the properties inductive.  With   *)
(* the stage MAIL a HELO has prepared the next message: the data of the    *)
(* modules is there, and, if HELO is said only once, nothing else.  With   *)
(* any other stage MAIL FROM will prepare it; the data of the modules is   *)
(* gone then, unless a header was refused.                                 *)
(***************************************************************************)
Between ==
  smtp = "idle" /\ priv # Null =>
    /\ priv.stage = "MAIL" => priv.live
    /\ (priv.stage = "MAIL" \/ msg = 0) /\ OneHelo =>
         priv.recipients = {} /\ priv.bytes = {} /\ priv.parser = Null
    /\ priv.stage # "MAIL" /\ NoRefusal => ~priv.live

\* There is no Privdata before the connection, and always one during a message.
PrivExists ==
  /\ smtp = "start" => priv = Null
  /\ smtp \in InMail => priv # Null

MessageHasBegun == msg = 0 => smtp \notin InMail

SessionInv ==
  /\ TypeOK /\ PrivExists /\ Between /\ MessageHasBegun
  /\ ModulesAreReady /\ BytesAreCurrent /\ RecipientsAreCurrent
  /\ BodyIsCurrent /\ StageFollowsDialogue /\ NothingLeaks

-----------------------------------------------------------------------------
USE DEF OneHelo, NoRefusal

\* Messages are numbered from one.
LEMMA MsgFacts == \A m \in Msg : m # 0 /\ m \in 0..MaxMsg
  BY SessionAssumption DEF Msg

\* No module has data and nothing is lost before the connection.
LEMMA SessionInit == Init => SessionInv
<1> SUFFICES ASSUME Init PROVE SessionInv
  OBVIOUS
<1>1. smtp = "start" /\ msg = 0 /\ priv = Null /\ leaked \in BOOLEAN /\ past = {}
  BY DEF Init
<1>2. TypeOK
  BY <1>1, SessionAssumption DEF TypeOK, InMail
<1>3. NothingLeaks
  BY DEF Init, NothingLeaks
<1> QED
  BY <1>1, <1>2, <1>3
  DEF SessionInv, PrivExists, Between, MessageHasBegun, ModulesAreReady,
      BytesAreCurrent, RecipientsAreCurrent, BodyIsCurrent, StageFollowsDialogue,
      InMail

\* What the invariant comes to after a step that ends outside a message.
LEMMA OutsideMail ==
  ASSUME TypeOK', NothingLeaks', Between', smtp' \notin InMail, smtp' # "start"
  PROVE  SessionInv'
<1>1. PrivExists' /\ MessageHasBegun'
  BY DEF PrivExists, MessageHasBegun
<1>2. ModulesAreReady'
  BY DEF ModulesAreReady
<1>3. BytesAreCurrent' /\ RecipientsAreCurrent'
  BY DEF BytesAreCurrent, RecipientsAreCurrent
<1>4. BodyIsCurrent' /\ StageFollowsDialogue'
  BY DEF BodyIsCurrent, StageFollowsDialogue, InMail
<1> QED
  BY <1>1, <1>2, <1>3, <1>4 DEF SessionInv

\* And after a step that ends inside one.
LEMMA InsideMail ==
  ASSUME TypeOK', NothingLeaks', smtp' \in InMail, msg' # 0, priv' # Null, priv'.live,
         BytesAreCurrent', RecipientsAreCurrent', BodyIsCurrent', StageFollowsDialogue'
  PROVE  SessionInv'
<1>1. PrivExists' /\ MessageHasBegun'
  BY DEF PrivExists, MessageHasBegun, InMail
<1>2. ModulesAreReady'
  BY DEF ModulesAreReady
<1>3. Between'
  BY DEF Between, InMail
<1> QED
  BY <1>1, <1>2, <1>3 DEF SessionInv

-----------------------------------------------------------------------------
\* There is a Privdata while a connection has begun a message.
LEMMA InMailFacts ==
  ASSUME SessionInv, smtp \in InMail
  PROVE  /\ priv \in Privdata /\ priv # Null /\ priv.live /\ msg \in Msg
         /\ smtp # "start" /\ leaked \in BOOLEAN
<1>1. TypeOK /\ PrivExists /\ MessageHasBegun /\ ModulesAreReady
  BY DEF SessionInv
<1>2. priv # Null /\ priv.live /\ msg # 0
  BY <1>1 DEF PrivExists, MessageHasBegun, ModulesAreReady
<1>3. msg \in 0..MaxMsg /\ leaked \in BOOLEAN /\ priv \in Privdata
  BY <1>1, <1>2 DEF TypeOK
<1> QED
  BY <1>2, <1>3, SessionAssumption DEF Msg, InMail

\* connect, HELO, close, and the callback that finds no Privdata.
LEMMA ConnectKeeps == ASSUME SessionInv, Connect
  PROVE  SessionInv' /\ (smtp' = "idle" => priv' \in Privdata)
<1>1. TypeOK /\ NothingLeaks
  BY DEF SessionInv
<1>2. smtp' = "idle" /\ msg' = msg /\ leaked' = leaked /\ past' = past
  BY DEF Connect
<1>3. priv' \in Privdata /\ priv'.stage = "EHLO" /\ ~priv'.live
  BY DEF Connect, Privdata
<1>4. TypeOK'
  BY <1>1, <1>2, <1>3 DEF TypeOK
<1>5. NothingLeaks'
  BY <1>1, <1>2 DEF NothingLeaks
<1>6. priv'.recipients = {} /\ priv'.bytes = {} /\ priv'.parser = Null
  BY DEF Connect
<1>7. Between'
  BY <1>3, <1>6 DEF Between
<1> QED
  BY <1>2, <1>3, <1>4, <1>5, <1>7, OutsideMail DEF InMail

\* HELO takes the data of the modules away before it makes it anew, unless there is
\* none yet.
LEMMA HeloKeeps == ASSUME SessionInv, Helo
  PROVE  SessionInv' /\ (smtp' = "idle" => priv' \in Privdata)
<1>1. TypeOK /\ NothingLeaks /\ Between
  BY DEF SessionInv
<1>2. /\ smtp = "idle" /\ smtp' = "idle" /\ msg' = msg
      /\ priv # Null /\ priv \in Privdata
      /\ past' = IF msg = 0 THEN past ELSE past \cup {"HELO after a message"}
  BY <1>1 DEF Helo, TypeOK
<1>3. /\ priv' \in Privdata /\ priv'.stage = "MAIL" /\ priv'.live
      /\ priv'.recipients = priv.recipients
      /\ priv'.bytes = priv.bytes /\ priv'.parser = priv.parser
  BY <1>2 DEF Helo, ClearModules, InitModules, Privdata
<1>4. leaked' \in BOOLEAN /\ (NoRefusal' => ~leaked')
  <2>1. leaked' = (leaked \/ (priv.stage = "EHLO" /\ priv.live))
    BY <1>2 DEF Helo, ClearModules, Loses, Privdata
  <2>2. NoRefusal' => ~leaked /\ ~(priv.stage = "EHLO" /\ priv.live)
    BY <1>1, <1>2 DEF NothingLeaks, Between
  <2> QED BY <2>1, <2>2
<1>5. TypeOK'
  BY <1>1, <1>2, <1>3, <1>4 DEF TypeOK
<1>6. NothingLeaks'
  BY <1>4 DEF NothingLeaks
<1>7. Between'
  <2> SUFFICES ASSUME OneHelo'
               PROVE  priv'.recipients = {} /\ priv'.bytes = {} /\ priv'.parser = Null
    BY <1>3 DEF Between
  <2>1. msg = 0 /\ OneHelo
    BY <1>2
  <2> QED BY <1>1, <1>2, <1>3, <2>1 DEF Between
<1> QED
  BY <1>2, <1>3, <1>5, <1>6, <1>7, OutsideMail DEF InMail

\* The connection or the daemon comes to its end.
LEMMA EndKeeps ==
  ASSUME SessionInv, Close \/ NullCallback \/ Dies \/ Over
  PROVE  SessionInv'
<1>1. TypeOK /\ NothingLeaks
  BY DEF SessionInv
<1>2. CASE Over
  BY <1>2 DEF Over, vars, SessionInv, TypeOK, PrivExists, Between, MessageHasBegun,
              ModulesAreReady, BytesAreCurrent, RecipientsAreCurrent, BodyIsCurrent,
              StageFollowsDialogue, NothingLeaks
<1>3. CASE Close \/ NullCallback \/ Dies
  <2>1. /\ smtp' \in {"closed", "crashed", "dead"} /\ msg' = msg /\ leaked' = leaked /\ past' = past
        /\ priv' \in {priv, Null}
    BY <1>3 DEF Close, NullCallback, Dies
  <2>2. TypeOK'
    BY <1>1, <2>1 DEF TypeOK
  <2>3. NothingLeaks'
    BY <1>1, <2>1 DEF NothingLeaks
  <2>4. Between'
    BY <2>1 DEF Between
  <2> QED
    BY <2>1, <2>2, <2>3, <2>4, OutsideMail DEF InMail
<1> QED
  BY <1>2, <1>3

\* MAIL FROM resets what the last message left, unless HELO has come in between;
\* if HELO is said only once, there is no last message then.
LEMMA EnvFromKeeps ==
  ASSUME SessionInv, NEW s \in {"address", "<>"}, EnvFrom(s)
  PROVE  SessionInv'
<1>1. TypeOK /\ NothingLeaks /\ Between
  BY DEF SessionInv
<1>2. /\ smtp = "idle" /\ smtp' = "rcpt" /\ priv # Null /\ priv \in Privdata
      /\ msg' = msg + 1 /\ msg' \in Msg /\ past' = past
  BY <1>1 DEF EnvFrom, TypeOK
<1>3. /\ priv' \in Privdata /\ priv'.stage = "RCPT" /\ priv'.array
      /\ priv'.live
      /\ OneHelo => priv'.recipients = {} /\ priv'.bytes = {} /\ priv'.parser = Null
      /\ leaked' = (leaked \/ (priv.stage # "MAIL" /\ priv.live))
  <2>1. Stripped(s) \in {"address", "empty"}
    BY DEF Stripped
  <2>2. CASE priv.stage = "MAIL"
    <3>1. priv' = [priv EXCEPT !.envfrom = Stripped(s), !.stage = "RCPT", !.array = TRUE]
      BY <2>2 DEF EnvFrom
    <3> QED
      BY <1>1, <1>2, <2>1, <2>2, <3>1 DEF Between, Privdata, EnvFrom
  <2>3. CASE priv.stage # "MAIL"
    <3>1. priv' = [NewMessage(priv) EXCEPT !.envfrom = Stripped(s), !.stage = "RCPT",
                                           !.array = TRUE]
      BY <2>3 DEF EnvFrom
    <3> QED
      BY <1>2, <2>1, <2>3, <3>1 DEF NewMessage, InitModules, Privdata, EnvFrom, Loses
  <2> QED BY <2>2, <2>3
<1>4. TypeOK'
  <2>1. leaked' \in BOOLEAN /\ past' \subseteq {"HELO after a message", "refused header"}
    BY <1>1, <1>2, <1>3 DEF TypeOK
  <2>2. msg' \in 0..MaxMsg
    BY <1>2, MsgFacts
  <2> QED
    BY <1>2, <1>3, <2>1, <2>2 DEF TypeOK, InMail
<1>5. NothingLeaks'
  BY <1>1, <1>2, <1>3 DEF NothingLeaks, Between
<1>6. BytesAreCurrent' /\ RecipientsAreCurrent'
  BY <1>2, <1>3 DEF BytesAreCurrent, RecipientsAreCurrent
<1>7. BodyIsCurrent' /\ StageFollowsDialogue'
  BY <1>2, <1>3 DEF BodyIsCurrent, StageFollowsDialogue
<1>8. msg' # 0 /\ smtp' \in InMail /\ priv' # Null
  BY <1>2, <1>3, MsgFacts, NullAssumption DEF InMail
<1> QED
  BY <1>3, <1>4, <1>5, <1>6, <1>7, <1>8, InsideMail

\* Callbacks inside a message that take in recipients, headers and body.
LEMMA EnvRcptKeeps ==
  ASSUME SessionInv, NEW ok \in BOOLEAN, NEW fresh \in BOOLEAN, EnvRcpt(ok, fresh)
  PROVE  SessionInv'
<1>1. TypeOK /\ NothingLeaks /\ BytesAreCurrent /\ RecipientsAreCurrent
      /\ StageFollowsDialogue
  BY DEF SessionInv
<1>2. smtp = "rcpt" /\ smtp' = "rcpt" /\ msg' = msg /\ leaked' = leaked /\ past' = past
  BY DEF EnvRcpt
<1>3. priv \in Privdata /\ priv.live /\ msg \in Msg
  BY <1>2, InMailFacts DEF InMail
<1>4. /\ priv' \in Privdata /\ priv'.live /\ priv'.stage = priv.stage
      /\ priv'.array = priv.array /\ priv'.bytes = priv.bytes /\ priv'.parser = priv.parser
      /\ priv'.recipients \subseteq priv.recipients \cup {msg}
  <2> DEFINE members == IF ok THEN priv.recipients \cup {msg} ELSE priv.recipients
             cells   == IF fresh THEN priv.pool \cup {msg} ELSE priv.pool
  <2>1. priv' = [priv EXCEPT !.pool = cells, !.recipients = members]
    BY <1>3 DEF EnvRcpt, Privdata
  <2>2. /\ members \in SUBSET Msg /\ members \subseteq priv.recipients \cup {msg}
        /\ cells \in SUBSET Msg
    BY <1>3 DEF Privdata
  <2> HIDE DEF members, cells
  <2> QED BY <1>3, <2>1, <2>2 DEF Privdata
<1>5. TypeOK'
  BY <1>1, <1>2, <1>4 DEF TypeOK
<1>6. NothingLeaks'
  BY <1>1, <1>2 DEF NothingLeaks
<1>7. BytesAreCurrent' /\ RecipientsAreCurrent'
  BY <1>1, <1>2, <1>4 DEF BytesAreCurrent, RecipientsAreCurrent, InMail
<1>8. BodyIsCurrent' /\ StageFollowsDialogue'
  BY <1>1, <1>2, <1>4 DEF BodyIsCurrent, StageFollowsDialogue
<1>9. msg' # 0 /\ smtp' \in InMail /\ priv' # Null
  BY <1>2, <1>3, <1>4, NullAssumption DEF Msg, InMail
<1> QED
  BY <1>4, <1>5, <1>6, <1>7, <1>8, <1>9, InsideMail

\* A header of the message, possibly the first.
LEMMA HeaderKeeps ==
  ASSUME SessionInv, NEW from \in BOOLEAN, Header(from)
  PROVE  SessionInv'
<1>1. TypeOK /\ NothingLeaks /\ BytesAreCurrent /\ RecipientsAreCurrent
      /\ StageFollowsDialogue
  BY DEF SessionInv
<1>2. /\ smtp \in {"rcpt", "headers"} /\ smtp' = "headers"
      /\ msg' = msg /\ leaked' = leaked /\ past' = past
  BY DEF Header
<1>3. priv \in Privdata /\ priv.live /\ msg \in Msg
  BY <1>2, InMailFacts DEF InMail
<1>4. /\ priv' \in Privdata /\ priv'.live /\ priv'.stage = priv.stage
      /\ priv'.array = priv.array /\ priv'.parser = priv.parser
      /\ priv'.recipients = priv.recipients
      /\ priv'.bytes = priv.bytes \cup {msg}
  <2> DEFINE replace == priv.replaceFrom \/ from
  <2>1. priv' = [priv EXCEPT !.bytes = priv.bytes \cup {msg},
                             !.headers = priv.headers \cup {msg},
                             !.replaceFrom = replace]
    BY <1>3 DEF Header, Privdata
  <2>2. replace \in BOOLEAN
    OBVIOUS
  <2> HIDE DEF replace
  <2> QED BY <1>3, <2>1, <2>2 DEF Privdata
<1>5. TypeOK'
  BY <1>1, <1>2, <1>4 DEF TypeOK, InMail
<1>6. NothingLeaks'
  BY <1>1, <1>2 DEF NothingLeaks
<1>7. BytesAreCurrent' /\ RecipientsAreCurrent'
  BY <1>1, <1>2, <1>4 DEF BytesAreCurrent, RecipientsAreCurrent, InMail
<1>8. BodyIsCurrent' /\ StageFollowsDialogue'
  BY <1>1, <1>2, <1>4 DEF BodyIsCurrent, StageFollowsDialogue
<1>9. msg' # 0 /\ smtp' \in InMail /\ priv' # Null
  BY <1>2, <1>3, <1>4, NullAssumption DEF Msg, InMail
<1> QED
  BY <1>4, <1>5, <1>6, <1>7, <1>8, <1>9, InsideMail

\* A chunk of the body.
LEMMA BodyKeeps == ASSUME SessionInv, Body PROVE SessionInv'
<1>1. TypeOK /\ NothingLeaks /\ BytesAreCurrent /\ RecipientsAreCurrent
      /\ BodyIsCurrent /\ StageFollowsDialogue
  BY DEF SessionInv
<1>2. smtp = "body" /\ smtp' = "body" /\ msg' = msg /\ leaked' = leaked /\ past' = past
  BY DEF Body
<1>3. priv \in Privdata /\ priv.live /\ msg \in Msg
  BY <1>2, InMailFacts DEF InMail
<1>4. /\ priv' \in Privdata /\ priv'.live /\ priv'.stage = priv.stage
      /\ priv'.array = priv.array /\ priv'.parser = priv.parser
      /\ priv'.recipients = priv.recipients
      /\ priv'.bytes = priv.bytes \cup {msg}
      /\ priv'.body \subseteq priv.body \cup {msg}
  <2> DEFINE chunks == IF priv.envfrom = "empty" THEN priv.body ELSE priv.body \cup {msg}
  <2>1. priv' = [priv EXCEPT !.bytes = priv.bytes \cup {msg}, !.body = chunks]
    BY <1>3 DEF Body, Privdata
  <2>2. chunks \in SUBSET Msg /\ chunks \subseteq priv.body \cup {msg}
    BY <1>3 DEF Privdata
  <2> HIDE DEF chunks
  <2> QED BY <1>3, <2>1, <2>2 DEF Privdata
<1>5. TypeOK'
  BY <1>1, <1>2, <1>4 DEF TypeOK
<1>6. NothingLeaks'
  BY <1>1, <1>2 DEF NothingLeaks
<1>7. BytesAreCurrent' /\ RecipientsAreCurrent'
  BY <1>1, <1>2, <1>4 DEF BytesAreCurrent, RecipientsAreCurrent, InMail
<1>8. BodyIsCurrent' /\ StageFollowsDialogue'
  BY <1>1, <1>2, <1>4 DEF BodyIsCurrent, StageFollowsDialogue
<1>9. msg' # 0 /\ smtp' \in InMail /\ priv' # Null
  BY <1>2, <1>3, <1>4, NullAssumption DEF Msg, InMail
<1> QED
  BY <1>4, <1>5, <1>6, <1>7, <1>8, <1>9, InsideMail

\* A message rejected because of a header is the one that keeps the modules' data.
LEMMA BadHeaderKeeps == ASSUME SessionInv, BadHeader
  PROVE  SessionInv' /\ (smtp' = "idle" => priv' \in Privdata)
<1>1. TypeOK /\ NothingLeaks /\ StageFollowsDialogue
  BY DEF SessionInv
<1>2. /\ smtp \in {"rcpt", "headers"} /\ smtp' = "idle"
      /\ msg' = msg /\ leaked' = leaked /\ past' = past \cup {"refused header"}
  BY DEF BadHeader
<1>3. priv \in Privdata /\ msg \in Msg
  BY <1>2, InMailFacts DEF InMail
<1>4. priv' \in Privdata /\ priv'.stage = "RCPT"
  BY <1>1, <1>2, <1>3 DEF BadHeader, Privdata, StageFollowsDialogue
<1>5. TypeOK' /\ NothingLeaks'
  BY <1>1, <1>2, <1>4 DEF TypeOK, NothingLeaks
<1>6. Between'
  BY <1>2, <1>3, <1>4, MsgFacts DEF Between
<1> QED
  BY <1>2, <1>4, <1>5, <1>6, OutsideMail DEF InMail

\* The end of the headers: the body follows, or the message is rejected.
LEMMA EohKeeps == ASSUME SessionInv, Eoh
  PROVE  SessionInv' /\ (smtp' = "idle" => priv' \in Privdata)
<1>1. TypeOK /\ NothingLeaks /\ BytesAreCurrent /\ RecipientsAreCurrent
  BY DEF SessionInv
<1>2. smtp \in {"rcpt", "headers"} /\ msg' = msg /\ leaked' = leaked /\ past' = past
  BY DEF Eoh, MayEndHeaders
<1>3. priv \in Privdata /\ priv.live /\ msg \in Msg
  BY <1>2, InMailFacts DEF InMail
<1>4. NothingLeaks'
  BY <1>1, <1>2 DEF NothingLeaks
<1>5. CASE smtp' = "body" /\ \E needed \in BOOLEAN : priv' = EohAccepts(needed)
  <2>1. PICK needed \in BOOLEAN : priv' = EohAccepts(needed)
    BY <1>5
  <2>2. /\ priv' \in Privdata /\ priv'.live /\ priv'.stage = "HEADERS"
        /\ priv'.array = priv.array /\ priv'.bytes = priv.bytes
        /\ priv'.parser = priv.parser /\ priv'.recipients = priv.recipients
        /\ priv'.body = {}
    BY <1>3, <2>1 DEF EohAccepts, Privdata
  <2>3. TypeOK'
    BY <1>1, <1>2, <1>5, <2>2 DEF TypeOK, InMail
  <2>4. BytesAreCurrent' /\ RecipientsAreCurrent'
    BY <1>1, <1>2, <2>2 DEF BytesAreCurrent, RecipientsAreCurrent, InMail
  <2>5. BodyIsCurrent' /\ StageFollowsDialogue'
    BY <1>5, <2>2 DEF BodyIsCurrent, StageFollowsDialogue
  <2>6. msg' # 0 /\ smtp' \in InMail /\ priv' # Null
    BY <1>2, <1>3, <1>5, <2>2, NullAssumption DEF Msg, InMail
  <2> QED
    BY <1>4, <2>2, <2>3, <2>4, <2>5, <2>6, InsideMail
<1>6. CASE smtp' = "idle" /\ priv' = EohRejects
  <2>1. priv' \in Privdata /\ priv'.stage = "HEADERS" /\ ~priv'.live
    BY <1>3, <1>6 DEF EohRejects, ClearModules, Privdata
  <2>2. TypeOK'
    BY <1>1, <1>2, <1>6, <2>1 DEF TypeOK
  <2>3. Between'
    BY <1>2, <1>3, <2>1, MsgFacts DEF Between
  <2> QED
    BY <1>4, <1>6, <2>1, <2>2, <2>3, OutsideMail DEF InMail
<1> QED
  BY <1>5, <1>6 DEF Eoh

\* The end of the message.
LEMMA EomKeeps == ASSUME SessionInv, Eom
  PROVE  SessionInv' /\ (smtp' = "idle" => priv' \in Privdata)
<1>1. TypeOK /\ NothingLeaks
  BY DEF SessionInv
<1>2. smtp = "body" /\ smtp' = "idle" /\ msg' = msg /\ leaked' = leaked /\ past' = past
  BY DEF Eom
<1>3. priv \in Privdata /\ msg \in Msg
  BY <1>2, InMailFacts DEF InMail
<1>4. priv' \in Privdata /\ priv'.stage = "BODY" /\ ~priv'.live
  <2>1. PICK asked \in BOOLEAN :
          priv' = [ClearModules(priv) EXCEPT
                     !.stage = "BODY",
                     !.parser = IF asked /\ @ = Null THEN msg ELSE @]
    BY DEF Eom
  <2> QED BY <1>3, <2>1 DEF ClearModules, Privdata
<1>5. TypeOK' /\ NothingLeaks'
  BY <1>1, <1>2, <1>4 DEF TypeOK, NothingLeaks
<1>6. Between'
  BY <1>2, <1>3, <1>4, MsgFacts DEF Between
<1> QED
  BY <1>2, <1>4, <1>5, <1>6, OutsideMail DEF InMail

\* An aborted message leaves no Privdata.
LEMMA AbortKeeps == ASSUME SessionInv, Abort PROVE SessionInv'
<1>1. TypeOK /\ NothingLeaks
  BY DEF SessionInv
<1>2. smtp' = "idle" /\ priv' = Null /\ msg' = msg /\ leaked' = leaked /\ past' = past
  BY DEF Abort
<1>3. TypeOK' /\ NothingLeaks' /\ Between'
  BY <1>1, <1>2 DEF TypeOK, NothingLeaks, Between
<1> QED
  BY <1>2, <1>3, OutsideMail DEF InMail

-----------------------------------------------------------------------------
\* The invariant holds in every state of a connection.
THEOREM SessionInvariant == Spec => []SessionInv
<1>1. Init => SessionInv
  BY SessionInit
<1>2. SessionInv /\ [Next]_vars => SessionInv'
  <2> SUFFICES ASSUME SessionInv, [Next]_vars PROVE SessionInv'
    OBVIOUS
  <2>1. CASE Connect
    BY <2>1, ConnectKeeps
  <2>2. CASE Helo
    BY <2>2, HeloKeeps
  <2>3. CASE \E s \in {"address", "<>"} : EnvFrom(s)
    BY <2>3, EnvFromKeeps
  <2>4. CASE \E ok, fresh \in BOOLEAN : EnvRcpt(ok, fresh)
    BY <2>4, EnvRcptKeeps
  <2>5. CASE \E from \in BOOLEAN : Header(from)
    BY <2>5, HeaderKeeps
  <2>6. CASE BadHeader
    BY <2>6, BadHeaderKeeps
  <2>7. CASE Eoh
    BY <2>7, EohKeeps
  <2>8. CASE Body
    BY <2>8, BodyKeeps
  <2>9. CASE Eom
    BY <2>9, EomKeeps
  <2>10. CASE Abort
    BY <2>10, AbortKeeps
  <2>11. CASE Close \/ NullCallback \/ Dies \/ Over
    BY <2>11, EndKeeps
  <2>12. CASE UNCHANGED vars
    BY <2>12 DEF vars, SessionInv, TypeOK, PrivExists, Between, MessageHasBegun,
                 ModulesAreReady, BytesAreCurrent, RecipientsAreCurrent,
                 BodyIsCurrent, StageFollowsDialogue, NothingLeaks
  <2> QED
    BY <2>1, <2>2, <2>3, <2>4, <2>5, <2>6, <2>7, <2>8, <2>9, <2>10, <2>11, <2>12
    DEF Next
<1> QED
  BY <1>1, <1>2, PTL DEF Spec

\* The types of the session's variables, for any number of messages.
THEOREM SessionTypes == Spec => []TypeOK
<1>1. SessionInv => TypeOK
  BY DEF SessionInv
<1> QED BY <1>1, SessionInvariant, PTL

\* InitMsg comes before, and DestroyMsg after, whatever a module is asked during a
\* message (prdr_helo, prdr_envfrom, SetResponses).
THEOREM ModulesHaveTheirData == Spec => []ModulesAreReady
<1>1. SessionInv => ModulesAreReady
  BY DEF SessionInv
<1> QED BY <1>1, SessionInvariant, PTL

\* With one HELO, the byte array and the parser of a message hold nothing of another
\* (prdr_envfrom, lines 43-50).
THEOREM BytesOfOneMessage == Spec => []BytesAreCurrent
<1>1. SessionInv => BytesAreCurrent
  BY DEF SessionInv
<1> QED BY <1>1, SessionInvariant, PTL

\* With one HELO, the recipients of a message are its own (prdr_envfrom, line 40).
THEOREM RecipientsOfOneMessage == Spec => []RecipientsAreCurrent
<1>1. SessionInv => RecipientsAreCurrent
  BY DEF SessionInv
<1> QED BY <1>1, SessionInvariant, PTL

\* The body of a message is its own, even when HELO is repeated (prdr_eoh).
THEOREM BodyOfOneMessage == Spec => []BodyIsCurrent
<1>1. SessionInv => BodyIsCurrent
  BY DEF SessionInv
<1> QED BY <1>1, SessionInvariant, PTL

\* The stage is that of the SMTP dialogue, over any number of messages.
THEOREM StageIsRight == Spec => []StageFollowsDialogue
<1>1. SessionInv => StageFollowsDialogue
  BY DEF SessionInv
<1> QED BY <1>1, SessionInvariant, PTL

\* Only prdr_abort leaves a connection without its Privdata: as long as no message is
\* aborted, no callback follows a null pointer.
THEOREM OnlyAbortCrashes == Spec /\ [][~Abort]_vars => []AbortEndsTheMessageOnly
<1> DEFINE Alive == smtp # "crashed" /\ (smtp = "idle" => priv # Null)
<1>1. Init => Alive
  BY DEF Init
<1>2. ASSUME SessionInv, SessionInv', Alive, [Next]_vars, [~Abort]_vars PROVE Alive'
  <2> USE <1>2
  <2>1. CASE Connect
    BY <2>1, ConnectKeeps, NullAssumption DEF Connect
  <2>2. CASE Helo
    BY <2>2, HeloKeeps, NullAssumption DEF Helo
  <2>3. CASE BadHeader
    BY <2>3, BadHeaderKeeps, NullAssumption DEF BadHeader
  <2>4. CASE Eoh
    BY <2>4, EohKeeps, NullAssumption DEF Eoh
  <2>5. CASE Eom
    BY <2>5, EomKeeps, NullAssumption DEF Eom
  <2>6. CASE \E s \in {"address", "<>"} : EnvFrom(s)
    BY <2>6 DEF EnvFrom
  <2>7. CASE \E ok, fresh \in BOOLEAN : EnvRcpt(ok, fresh)
    BY <2>7 DEF EnvRcpt
  <2>8. CASE \E from \in BOOLEAN : Header(from)
    BY <2>8 DEF Header
  <2>9. CASE Body
    BY <2>9 DEF Body
  <2>10. CASE NullCallback \/ Close \/ Dies \/ Over
    BY <2>10 DEF NullCallback, Close, Dies, Over, vars
  <2>11. CASE UNCHANGED vars
    BY <2>11 DEF vars
  <2>12. CASE Abort
    BY <2>11, <2>12
  <2> QED
    BY <2>1, <2>2, <2>3, <2>4, <2>5, <2>6, <2>7, <2>8, <2>9, <2>10, <2>11, <2>12
    DEF Next
<1>3. Alive => AbortEndsTheMessageOnly
  BY DEF AbortEndsTheMessageOnly
<1> QED
  BY <1>1, <1>2, <1>3, SessionInvariant, PTL DEF Spec

\* InitMsg never overwrites live data of a module, unless a header is refused.
THEOREM NoDataIsLost == Spec => []NothingLeaks
<1>1. SessionInv => NothingLeaks
  BY DEF SessionInv
<1> QED BY <1>1, SessionInvariant, PTL
=============================================================================
