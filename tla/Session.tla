------------------------------ MODULE Session -------------------------------
(***************************************************************************)
(* One connection of the MTA and the messages that pass over it: the       *)
(* callbacks of smfi-operations.cpp and the life of the Privdata they keep *)
(* with the connection.                                                    *)
(*                                                                         *)
(* Messages are numbered.  A container of the Privdata is modelled by the  *)
(* set of the messages its contents come from: priv.recipients = {1, 2}    *)
(* holds recipients of message 1 and of message 2.  What the modules       *)
(* decide is left open here; Engine says what they can decide.             *)
(***************************************************************************)
EXTENDS Integers

CONSTANTS
  Null,         \* the null pointer
  MaxMsg        \* bound: messages on the connection

ASSUME SessionAssumption == MaxMsg \in Nat \ {0}

Msg     == 1..MaxMsg
InMail  == {"rcpt", "headers", "body"}

VARIABLES
  smtp,     \* what libmilter lets the MTA do next, or that it is over
  msg,      \* number of the current, or else of the last message
  priv,     \* what smfi_getpriv returns
  leaked,   \* has InitMsg written over a live msgpriv entry?
  past      \* what has happened on the connection: "HELO after a message",
            \* "refused header" (for the properties only)

vars == <<smtp, msg, priv, leaked, past>>

Privdata ==
  [stage      : {"EHLO", "MAIL", "RCPT", "HEADERS", "BODY"},
   envfrom    : {"address", "empty"},   \* msg.envfrom
   recipients : SUBSET Msg,             \* recipients
   pool       : SUBSET Msg,             \* module_pool
   headers    : SUBSET Msg,             \* msg.headers
   body       : SUBSET Msg,             \* msg.body
   array      : BOOLEAN,                \* gByteArray: is there one?
   bytes      : SUBSET Msg,             \* what has been appended to it
   parser     : Msg \cup {Null},        \* gMimeParser: the message it was made for
   live       : BOOLEAN,                \* msgpriv: is there data of the modules?
   replaceFrom : BOOLEAN]               \* replace_from_header

\* The null pointer is neither an object nor an address of one.
ASSUME NullAssumption == Null \notin Privdata /\ Null \notin Msg

-----------------------------------------------------------------------------
Init ==
  /\ smtp = "start" /\ msg = 0
  /\ priv = Null /\ leaked = FALSE /\ past = {}

\* InitModules, for the Privdata p: what an entry of msgpriv held is lost.
InitModules(p) == [p EXCEPT !.live = TRUE]
Loses(p)       == p.live

ClearModules(p) == [p EXCEPT !.live = FALSE]

Connect ==
  /\ smtp = "start" /\ smtp' = "idle"
  /\ priv' = [stage |-> "EHLO", envfrom |-> "empty", recipients |-> {}, pool |-> {},
              headers |-> {}, body |-> {}, array |-> FALSE, bytes |-> {},
              parser |-> Null, live |-> FALSE, replaceFrom |-> FALSE]
  /\ UNCHANGED <<msg, leaked, past>>

\* A callback that follows the pointer of smfi_getpriv when it is null.
NullCallback ==
  /\ smtp = "idle" /\ priv = Null
  /\ smtp' = "crashed"
  /\ UNCHANGED <<msg, priv, leaked, past>>

\* prdr_helo
Helo ==
  /\ smtp = "idle" /\ priv # Null
  /\ LET p == IF priv.stage # "EHLO" THEN ClearModules(priv) ELSE priv
     IN  /\ leaked' = (leaked \/ Loses(p))
         /\ priv' = [InitModules(p) EXCEPT !.stage = "MAIL"]
  /\ past' = IF msg = 0 THEN past ELSE past \cup {"HELO after a message"}
  /\ UNCHANGED <<smtp, msg>>

\* Mutant of the next operator: the byte array is kept for the next message.
NewMessage_KeepsBytes(p) ==
  [InitModules(p) EXCEPT !.recipients = {}, !.parser = Null]
\* Mutant of the next operator: the modules are not told of the message.
NewMessage_NoInit(p) ==
  [p EXCEPT !.recipients = {}, !.parser = Null,
     !.array = FALSE, !.bytes = {}]
\* Mutant of the next operator: the recipients are left where they are.
NewMessage_KeepsRecipients(p) ==
  [InitModules(p) EXCEPT !.parser = Null,
     !.array = FALSE, !.bytes = {}]

\* prdr_envfrom, lines 40-50: what is reset when the stage is not MAIL.
NewMessage(p) ==
  [InitModules(p) EXCEPT !.recipients = {}, !.parser = Null,
     !.array = FALSE, !.bytes = {}]

\* Mutant: the angle brackets are left on the sender.
Stripped_Not(sender) == sender

\* ProceedMailFromParams: nothing is left of the null sender without its brackets.
Stripped(sender) == IF sender = "<>" THEN "empty" ELSE sender

\* prdr_envfrom
EnvFrom(sender) ==
  /\ smtp = "idle" /\ priv # Null /\ msg + 1 \in Msg
  /\ smtp' = "rcpt" /\ msg' = msg + 1
  /\ LET p == IF priv.stage # "MAIL" THEN NewMessage(priv) ELSE priv
     IN  /\ leaked' = (leaked \/ (priv.stage # "MAIL" /\ Loses(priv)))
         /\ priv' = [p EXCEPT !.envfrom = Stripped(sender), !.stage = "RCPT",
                              !.array = TRUE]
  /\ UNCHANGED past

\* prdr_envrcpt: cells are made whether or not the recipient is accepted, unless
\* all modules find it equal to recipients the vector holds.
EnvRcpt(accepted, fresh) ==
  /\ smtp = "rcpt"
  /\ fresh \/ priv.recipients # {}
  /\ priv' = [priv EXCEPT !.pool = IF fresh THEN @ \cup {msg} ELSE @,
                          !.recipients = IF accepted THEN @ \cup {msg} ELSE @]
  /\ UNCHANGED <<smtp, msg, leaked, past>>

\* The MTA refuses DATA unless a recipient of this message was accepted.
MaySendData == msg \in priv.recipients

\* prdr_header, with a From header that asks to be replaced, or another one.
Header(from) ==
  /\ \/ smtp = "rcpt" /\ MaySendData
     \/ smtp = "headers"
  /\ smtp' = "headers"
  /\ priv' = [priv EXCEPT !.bytes = @ \cup {msg}, !.headers = @ \cup {msg},
                          !.replaceFrom = @ \/ from]
  /\ UNCHANGED <<msg, leaked, past>>

\* The same with non-ascii characters: Message::AddHeader refuses the header and
\* the message is rejected.  libmilter calls neither eom nor abort afterwards.
BadHeader ==
  /\ \/ smtp = "rcpt" /\ MaySendData
     \/ smtp = "headers"
  /\ smtp' = "idle" /\ past' = past \cup {"refused header"}
  /\ priv' = [priv EXCEPT !.bytes = @ \cup {msg}]
  /\ UNCHANGED <<msg, leaked>>

\* Mutant: the body of an earlier message is kept.
EohAccepts_KeepsBody(needed) ==
  IF needed THEN [priv EXCEPT !.stage = "HEADERS"]
  ELSE [priv EXCEPT !.stage = "HEADERS", !.envfrom = "empty", !.headers = {}, !.body = {}]

\* The end of prdr_eoh when no module rejects: either the body is emptied for the
\* chunks to come, or msg is replaced by an empty Message.
EohAccepts(needed) ==
  IF needed THEN [priv EXCEPT !.stage = "HEADERS", !.body = {}]
  ELSE [priv EXCEPT !.stage = "HEADERS", !.envfrom = "empty", !.headers = {}, !.body = {}]

\* Mutant: the modules' data is left when the message is rejected.
EohRejects_NoClear ==
  [priv EXCEPT !.stage = "HEADERS", !.recipients = {}]

\* The end of prdr_eoh when a module rejects: SetResponses, which ends with
\* ClearModules, and no recipients.
EohRejects ==
  [ClearModules(priv) EXCEPT !.stage = "HEADERS", !.recipients = {}]

MayEndHeaders == (smtp = "rcpt" /\ MaySendData) \/ smtp = "headers"

\* prdr_eoh
Eoh ==
  /\ MayEndHeaders
  /\ \/ /\ \E needed \in BOOLEAN : priv' = EohAccepts(needed)
        /\ smtp' = "body"
     \/ priv' = EohRejects /\ smtp' = "idle"
  /\ UNCHANGED <<msg, leaked, past>>

\* prdr_body
Body ==
  /\ smtp = "body"
  /\ priv' = [priv EXCEPT !.bytes = @ \cup {msg},
                          !.body = IF priv.envfrom = "empty" THEN @ ELSE @ \cup {msg}]
  /\ UNCHANGED <<smtp, msg, leaked, past>>

\* prdr_eom; a module may ask for the parser, which is made on the first call.
Eom ==
  /\ smtp = "body" /\ smtp' = "idle"
  /\ \E asked \in BOOLEAN :
       priv' = [ClearModules(priv) EXCEPT
                  !.stage = "BODY",
                  !.parser = IF asked /\ @ = Null THEN msg ELSE @]
  /\ UNCHANGED <<msg, leaked, past>>

\* prdr_abort: the Privdata is deleted, and the connection has none from then on.
Abort ==
  /\ smtp \in InMail
  /\ smtp' = "idle" /\ priv' = Null
  /\ UNCHANGED <<msg, leaked, past>>

\* prdr_close
Close ==
  /\ smtp = "idle" /\ smtp' = "closed" /\ priv' = Null
  /\ UNCHANGED <<msg, leaked, past>>

\* A module's answer ends the daemon in prdr_eoh or prdr_eom; Engine says when.
Dies ==
  /\ MayEndHeaders \/ smtp = "body"
  /\ smtp' = "dead"
  /\ UNCHANGED <<msg, priv, leaked, past>>

Over == smtp \in {"closed", "crashed", "dead"} /\ UNCHANGED vars

Next ==
  \/ Connect \/ NullCallback \/ Helo
  \/ \E s \in {"address", "<>"} : EnvFrom(s)
  \/ \E ok, fresh \in BOOLEAN : EnvRcpt(ok, fresh)
  \/ \E from \in BOOLEAN : Header(from)
  \/ BadHeader \/ Eoh \/ Body \/ Eom \/ Abort \/ Close
  \/ Dies \/ Over

Spec == Init /\ [][Next]_vars

-----------------------------------------------------------------------------
(***************************************************************************)
(* Properties that the code is meant to have and has.                      *)
(***************************************************************************)
TypeOK ==
  /\ smtp \in {"start", "idle", "closed", "crashed", "dead"} \cup InMail
  /\ msg \in 0..MaxMsg
  /\ leaked \in BOOLEAN
  /\ past \subseteq {"HELO after a message", "refused header"}
  /\ priv \in Privdata \cup {Null}

OneHelo   == "HELO after a message" \notin past
NoRefusal == "refused header" \notin past

\* While recipients, headers and body come in, the modules have the data their
\* InitMsg made, for HELO or for MAIL, and SetResponses has not yet taken it away;
\* mod_delay and mod_sieve follow that pointer (prdr_helo, prdr_envfrom).
ModulesAreReady == smtp \in InMail => priv # Null /\ priv.live

\* prdr_header, prdr_eoh and prdr_body append to a byte array that exists, and a
\* module that asks for a MIME parser gets the bytes of this message only.
BytesAreCurrent ==
  smtp \in InMail /\ OneHelo =>
    priv.array /\ priv.bytes \subseteq {msg} /\ priv.parser = Null

\* The modules are run at eoh and eom for recipients of this message only.
RecipientsAreCurrent ==
  smtp \in InMail /\ OneHelo => priv.recipients \subseteq {msg}

\* The body a module reads at the end of the message is of this message, on every
\* path through eoh and also when the client says HELO between messages.
BodyIsCurrent == smtp = "body" => priv.body \subseteq {msg}

\* The stage, which GetHeader, GetBody and SetEnvSender go by, follows the SMTP
\* dialogue over any number of messages.
StageFollowsDialogue ==
  /\ smtp \in {"rcpt", "headers"} => priv.stage = "RCPT"
  /\ smtp = "body" => priv.stage = "HEADERS"

\* What InitMsg made is given to DestroyMsg before InitMsg is called again, unless
\* a message was rejected because of a header.
NothingLeaks == NoRefusal => ~leaked

-----------------------------------------------------------------------------
(***************************************************************************)
(* What the documentation or a comment says and the code does not do.      *)
(***************************************************************************)

\* smfi-operations.cpp:234-235: a message is aborted, the connection goes on;
\* cleanup is for its end.
AbortEndsTheMessageOnly == smtp # "crashed"
=============================================================================
