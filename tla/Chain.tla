-------------------------------- MODULE Chain --------------------------------
(***************************************************************************)
(* The small modules at work: the daemon loads the plug-ins its            *)
(* configuration has a section for, and then runs mod_block_sender,        *)
(* mod_delay, mod_equal, mod_relayed, mod_via and mod_x_scc_headers, as    *)
(* far as they are loaded, for the messages of one connection.             *)
(*                                                                         *)
(* One step is one SoModule::Run; mod_delay sleeps in its Run while time   *)
(* passes.  No verdict is kept for an accepted recipient: modules that     *)
(* reject do so at RCPT, in cells of their own.  Session has the refused   *)
(* headers and what follows an abort, Engine the verdicts of modules in    *)
(* general.                                                                *)
(***************************************************************************)
EXTENDS Integers, Sequences

CONSTANTS
  Addr,        \* addresses of senders and recipients
  Blocked,     \* the sender mod_block_sender refuses
  Postmaster,  \* mail@aegee.org, who may write to himself
  Order,       \* lt_preloaded_symbols: the plug-ins in the order of the build
  Tables,      \* Tables[l]: the tables list l exports
  Delay,       \* mod_delay's options: seconds before the answer at each stage
  Sections,    \* the configurations: sets of plug-ins with a section
  MaxRcpt      \* bound: recipients at a time

None == -1     \* no pointer to a time_t; no select in progress

\* What the modules' Status returns, which depends on nothing.
Status ==
  [mod_block_sender  |-> {"RCPT"},
   mod_delay         |-> {"EHLO", "MAIL", "RCPT", "BODY"},
   mod_equal         |-> {"RCPT", "BODY"},
   mod_relayed       |-> {"BODY"},
   mod_via           |-> {"HEADERS"},
   mod_x_scc_headers |-> {"BODY"}]
Module == DOMAIN Status
Stage  == UNION {Status[m] : m \in Module}

\* The modules that take all recipients for equal (SoModule::equal).
Equal == {"mod_relayed", "mod_via", "mod_x_scc_headers"}

\* Plug-ins that throw -1 when they do not know an option in their section.
Strict == {"mod_delay", "list_log"}

ASSUME ChainAssumption ==
  /\ Order \in Seq(Module \cup DOMAIN Tables)
  /\ \A i, j \in DOMAIN Order : Order[i] = Order[j] => i = j
  /\ Tables \in [DOMAIN Tables -> SUBSET {"log", "relayed"}]
  /\ Delay \in [Status["mod_delay"] -> Nat]
  /\ Blocked \in Addr /\ Postmaster \in Addr /\ MaxRcpt \in Nat \ {0}

VARIABLES
  config,      \* sections of the configuration file
  unknown,     \* those of them with an option the plug-in does not know
  modules,     \* AegeeMilter::so_modules
  tables,      \* AegeeMilter::tables: the names that are keys of the map
  smtp,        \* what the MTA may do next, the callback in progress, or the end
  stage,       \* priv.stage
  todo,        \* recipients the callback has still to run the modules for;
               \* 0 stands for RunModules, which runs them for none
  at,          \* plug-ins of Order considered, or modules passed by the loop
  new,         \* the Recipient prdr_envrcpt has made
  sender,      \* priv.msg.envfrom, or None when msg has been replaced
  prdr,        \* priv.prdr_supported
  recipients,  \* priv.recipients
  kept,        \* how many of them MAIL FROM has left from earlier messages
  flags,       \* Module::flags: <<module, cell, stage>>
  timer,       \* mod_delay's msgpriv: the age of *last_time, or None
  wait,        \* seconds left in mod_delay's select, or None
  live,        \* history: objects time_t that have not been deleted
  credit,      \* history: seconds the client has waited since InitMsg, without
               \* the delays of the commands that have been answered
  spared       \* history: seconds since InitMsg that SIGALRM has cut off its waiting

plugins == <<config, unknown, modules, tables>>
place   == <<todo, at>>
mail    == <<new, sender, prdr, recipients, kept>>
delays  == <<timer, wait, live, credit, spared>>
vars    == <<plugins, smtp, stage, place, mail, flags, delays>>

Recipient == [address : Addr, never : BOOLEAN]
Longest   == CHOOSE d \in {Delay[s] : s \in DOMAIN Delay} :
               \A s \in DOMAIN Delay : Delay[s] <= d
AtMost(n, bound) == IF n <= bound THEN n ELSE bound

Loaded(m) == \E i \in DOMAIN modules : modules[i] = m
Wakes     == {"connected", "idle", "rcpt", "data"}
Busy      == {"helo", "envfrom", "envrcpt", "eoh", "eom"}

-----------------------------------------------------------------------------
(***************************************************************************)
(* Start-up: LoadPlugins.                                                  *)
(***************************************************************************)
Init ==
  /\ config \in Sections /\ unknown \in SUBSET (config \cap Strict)
  /\ modules = <<>> /\ tables = {}
  /\ smtp = "start" /\ stage = "EHLO" /\ todo = <<>> /\ at = 0
  /\ new = <<>> /\ sender = None /\ prdr = FALSE /\ recipients = <<>> /\ kept = 0
  /\ flags = {}
  /\ timer = None /\ wait = None /\ live = 0 /\ credit = 0 /\ spared = 0

\* One turn of the loop: a plug-in without a section is skipped, one that throws
\* ends the daemon, a list adds its tables.
Load ==
  /\ smtp = "start" /\ at < Len(Order) /\ at' = at + 1
  /\ LET p == Order[at + 1]
     IN  /\ smtp' = IF p \in unknown THEN "dead" ELSE smtp
         /\ modules' = IF p \in config \cap Module THEN Append(modules, p) ELSE modules
         /\ tables' = IF p \in config \cap DOMAIN Tables THEN tables \cup Tables[p]
                      ELSE tables
  /\ UNCHANGED <<config, unknown, stage, todo, mail, flags, delays>>

\* smfi_main, and prdr_connect for a connection.
Connect ==
  /\ smtp = "start" /\ at = Len(Order)
  /\ smtp' = "connected" /\ at' = 0
  /\ UNCHANGED <<plugins, stage, todo, mail, flags, delays>>

-----------------------------------------------------------------------------
(***************************************************************************)
(* The data of a message, which of the modules only mod_delay has.         *)
(***************************************************************************)

\* InitModules: a new time_t with the present time.
InitModules(freed) ==
  IF Loaded("mod_delay")
  THEN timer' = 0 /\ live' = freed + 1 /\ credit' = 0 /\ spared' = 0
  ELSE UNCHANGED <<timer, credit, spared>> /\ live' = freed

\* ClearModules: the objects left after DestroyMsg.
Cleared == IF timer = None THEN live ELSE live - 1

Call(callback, who) == smtp' = callback /\ todo' = who /\ at' = 0
Return(next)        == Call(next, <<>>)

Helo ==
  /\ smtp \in {"connected", "idle"} /\ Call("helo", <<0>>)
  /\ stage' = "EHLO"
  /\ InitModules(IF stage = "EHLO" THEN live ELSE Cleared)
  /\ UNCHANGED <<plugins, mail, flags, wait>>

\* Mutant of the next operator: the modules are not told of the message.
NewMessage_NoInit ==
  recipients' = <<>> /\ kept' = 0 /\ UNCHANGED <<timer, live, credit, spared>>

\* prdr_envfrom when the stage is not MAIL.
NewMessage == recipients' = <<>> /\ kept' = 0 /\ InitModules(live)

MailFrom(s, p) ==
  /\ smtp = "idle" /\ Call("envfrom", <<0>>)
  /\ IF stage # "MAIL" THEN NewMessage
     ELSE kept' = Len(recipients) /\ UNCHANGED <<recipients, timer, live, credit, spared>>
  /\ stage' = "MAIL" /\ sender' = s /\ prdr' = p
  /\ UNCHANGED <<plugins, new, flags, wait>>

\* The cells of a recipient that no module has in common with others are new.
RcptTo(a, never) ==
  /\ smtp = "rcpt" /\ Len(recipients) < MaxRcpt
  /\ Call("envrcpt", <<Len(recipients) + 1>>)
  /\ new' = [address |-> a, never |-> never]
  /\ flags' = {f \in flags : f[2] # Len(recipients) + 1}
  /\ UNCHANGED <<plugins, stage, sender, prdr, recipients, kept, delays>>

Everybody == [k \in DOMAIN recipients |-> k]

\* The MTA sends the headers only when a recipient of this message was accepted.
Eoh ==
  /\ smtp = "rcpt" /\ Len(recipients) > kept
  /\ Call("eoh", Everybody) /\ stage' = "HEADERS"
  /\ UNCHANGED <<plugins, mail, flags, delays>>

Eom ==
  /\ smtp = "data" /\ Call("eom", Everybody) /\ stage' = "BODY"
  /\ UNCHANGED <<plugins, mail, flags, delays>>

\* prdr_abort and prdr_close: the Privdata is deleted.
Close ==
  /\ smtp \in Wakes /\ smtp' = "closed"
  /\ timer' = None /\ live' = Cleared
  /\ UNCHANGED <<plugins, stage, place, mail, flags, wait, credit, spared>>

-----------------------------------------------------------------------------
(***************************************************************************)
(* The loops over the modules: RunModules and Privdata::operator().        *)
(***************************************************************************)
Subject == Head(todo)

\* The cell of module m for recipient k: that of the first accepted recipient, if the
\* module takes all for equal.
Cell(m, k) == IF m \in Equal THEN 1 ELSE k

\* flags |= stage, and then flags &= !MOD_FAILED, which leaves nothing.
Flagged(F, m, k) == {f \in F : <<f[1], f[2]>> # <<m, Cell(m, k)>>}

\* The module the loop comes to next.
Due(i) == /\ stage \in Status[modules[i]]
          /\ <<modules[i], Cell(modules[i], Subject), stage>> \notin flags
NextDue ==
  {i \in (at + 1)..Len(modules) : Due(i) /\ \A j \in (at + 1)..(i - 1) : ~Due(j)}

\* The modules that set a 5xx response, for the recipient r.
Objects(m, r) ==
  \/ m = "mod_block_sender" /\ sender = Blocked
  \/ m = "mod_equal" /\ stage = "RCPT" /\ r.address = sender /\ sender # Postmaster

\* Does the run write to the log?  What mod_via and mod_x_scc_headers find in the
\* headers is left open.  mod_equal looks for "<>" at the end of the message, which
\* ProceedMailFromParams has stripped of its brackets.
Logs(m, r) == CASE m = "mod_relayed"                        -> {TRUE}
                [] m \in {"mod_via", "mod_x_scc_headers"}   -> BOOLEAN
                [] OTHER                                    -> {Objects(m, r)}

\* The tables without which ListInsert throws std::out_of_range, with no one to catch it;
\* mod_relayed catches it for the table relayed, which nothing else reads here.
Needs(m, logs) == IF logs THEN {"log"} ELSE {}

Visited == IF Subject <= Len(recipients) THEN recipients[Subject] ELSE new

\* One Run that does not sleep.  A response ends prdr_envrcpt for the recipient.
Run(i) ==
  /\ todo # <<>> /\ i \in NextDue /\ modules[i] # "mod_delay"
  /\ flags' = Flagged(flags, modules[i], Subject)
  /\ \E logs \in Logs(modules[i], Visited) :
       IF ~(Needs(modules[i], logs) \subseteq tables)
       THEN Return("dead")
       ELSE IF Objects(modules[i], Visited) THEN Return("rcpt")
       ELSE UNCHANGED <<smtp, todo>> /\ at' = i
  /\ UNCHANGED <<plugins, stage, mail, delays>>

-----------------------------------------------------------------------------
(***************************************************************************)
(* mod_delay.                                                              *)
(***************************************************************************)
Remaining == IF Delay[stage] > timer THEN Delay[stage] - timer ELSE 0

\* Mutant of the next operator: a null pointer is not noticed.
Forgotten_Never == FALSE

Forgotten == timer = None

\* delay::Run up to the select.
Sleep(i) ==
  /\ todo # <<>> /\ i \in NextDue /\ modules[i] = "mod_delay" /\ wait = None
  /\ ~Forgotten /\ wait' = Remaining
  /\ UNCHANGED <<plugins, smtp, stage, place, mail, flags, timer, live, credit,
                 spared>>

\* It returns false when the time_t is gone; the operator then ends, with the modules
\* behind not run.  RunModules does not look at the result.
SkipRest(i) ==
  /\ todo # <<>> /\ i \in NextDue /\ modules[i] = "mod_delay" /\ Forgotten
  /\ flags' = Flagged(flags, modules[i], Subject)
  /\ at' = IF Subject = 0 THEN i ELSE Len(modules)
  /\ UNCHANGED <<plugins, smtp, stage, todo, mail, delays>>

\* Mutants of the next operator: the time is not taken; the pointer is left.
AfterSleep_NoMark ==
  IF stage = "BODY" THEN timer' = None /\ live' = live - 1
  ELSE UNCHANGED <<timer, live>>
AfterSleep_KeepsPointer ==
  IF stage = "BODY" THEN UNCHANGED timer /\ live' = live - 1
  ELSE timer' = 0 /\ UNCHANGED live

AfterSleep ==
  IF stage = "BODY" THEN timer' = None /\ live' = live - 1
  ELSE timer' = 0 /\ UNCHANGED live

\* The rest of delay::Run.
Wake(i) ==
  /\ wait = 0 /\ i \in NextDue
  /\ wait' = None /\ AfterSleep
  /\ flags' = Flagged(flags, modules[i], Subject)
  /\ at' = i
  /\ UNCHANGED <<plugins, smtp, stage, todo, mail, credit, spared>>

\* The seconds a client has waited, and with them those it was spared, are told apart up
\* to the longest delay and one that is still to be deducted.
UpTo(n, spent) == AtMost(n, 2 * Longest - spent)

\* A second passes.  Ages are told apart up to the longest delay.
Tick ==
  /\ smtp \in Wakes \cup Busy /\ Loaded("mod_delay")
  /\ timer' = IF timer = None THEN None ELSE AtMost(timer + 1, Longest)
  /\ wait' = IF wait > 0 THEN wait - 1 ELSE wait
  /\ credit' = UpTo(credit + 1, spared)
  /\ UNCHANGED <<plugins, smtp, stage, place, mail, flags, live, spared>>

\* Mutant of the next operator: select is called again with the whole delay.
Interrupted_Sleeps == Delay[stage]

Interrupted == 0

\* SIGALRM ends the select, and the client is answered early.
Alarm ==
  /\ wait > 0 /\ wait' = Interrupted
  /\ spared' = UpTo(spared + wait, credit)
  /\ UNCHANGED <<plugins, smtp, stage, place, mail, flags, timer, live, credit>>

-----------------------------------------------------------------------------
(***************************************************************************)
(* The ends of the loops and of the callbacks.                             *)
(***************************************************************************)
Owed(s)      == IF Loaded("mod_delay") THEN Delay[s] ELSE 0
Passed       == todo # <<>> /\ wait = None /\ \A i \in (at + 1)..Len(modules) : ~Due(i)

HeloEnd ==
  /\ smtp = "helo" /\ Passed /\ Return("idle") /\ stage' = "MAIL"
  /\ credit' = credit - Owed("EHLO")
  /\ UNCHANGED <<plugins, mail, flags, timer, wait, live, spared>>

MailEnd ==
  /\ smtp = "envfrom" /\ Passed /\ Return("rcpt") /\ stage' = "RCPT"
  /\ credit' = credit - Owed("MAIL")
  /\ UNCHANGED <<plugins, mail, flags, timer, wait, live, spared>>

\* The recipient has a cell the first one has not, and wants bounces.
NeedsPrdr ==
  recipients # <<>> /\ ~new.never /\ \E i \in DOMAIN modules : modules[i] \notin Equal

RcptEnd ==
  /\ smtp = "envrcpt" /\ Passed /\ Return("rcpt")
  /\ IF NeedsPrdr /\ ~prdr THEN UNCHANGED <<recipients, credit>>
     ELSE recipients' = Append(recipients, new) /\ credit' = credit - Owed("RCPT")
  /\ UNCHANGED <<plugins, stage, new, sender, prdr, kept, flags, timer, wait, live, spared>>

\* The next recipient of eoh or eom.
VisitEnd ==
  /\ smtp \in {"eoh", "eom"} /\ Passed /\ todo' = Tail(todo) /\ at' = 0
  /\ UNCHANGED <<plugins, smtp, stage, mail, flags, delays>>

\* Without a module that asks for the body the message is replaced by an empty one.
EohEnd ==
  /\ smtp = "eoh" /\ todo = <<>> /\ Return("data")
  /\ sender' = IF \E i \in DOMAIN modules : "BODY" \in Status[modules[i]] THEN sender
               ELSE None
  /\ UNCHANGED <<plugins, stage, new, prdr, recipients, kept, flags, delays>>

\* Everybody accepts, and SetResponses ends with ClearModules.
EomEnd ==
  /\ smtp = "eom" /\ todo = <<>> /\ Return("idle")
  /\ timer' = None /\ live' = Cleared /\ credit' = credit - Owed("BODY")
  /\ UNCHANGED <<plugins, stage, mail, flags, wait, spared>>

Over == smtp \in {"closed", "dead"} /\ UNCHANGED vars

Callback ==
  \/ \E i \in DOMAIN modules : Run(i) \/ Sleep(i) \/ SkipRest(i) \/ Wake(i)
  \/ HeloEnd \/ MailEnd \/ RcptEnd \/ VisitEnd \/ EohEnd \/ EomEnd

Next ==
  \/ Load \/ Connect \/ Helo \/ Eoh \/ Eom \/ Close \/ Callback \/ Tick \/ Alarm \/ Over
  \/ \E s \in Addr, p \in BOOLEAN : MailFrom(s, p)
  \/ \E a \in Addr, never \in BOOLEAN : RcptTo(a, never)

\* A callback that has begun goes on, and time does.
Spec == Init /\ [][Next]_vars /\ WF_vars(Callback) /\ WF_vars(Tick)

-----------------------------------------------------------------------------
(***************************************************************************)
(* Properties that the code is meant to have and has.                      *)
(***************************************************************************)

\* Every variable has its type; a callback in progress has modules or recipients
\* before it or has come to its end; mod_delay sleeps with its time_t in place.
TypeOK ==
  /\ config \in Sections /\ unknown \subseteq config
  /\ modules \in Seq(config \cap Module)
  /\ tables \subseteq {"log", "relayed"}
  /\ smtp \in {"start", "closed", "dead"} \cup Wakes \cup Busy /\ stage \in Stage
  /\ todo \in Seq(0..MaxRcpt)
  /\ smtp \notin Busy => todo = <<>>
  /\ smtp \in Wakes \cup Busy => at \in 0..Len(modules)
  /\ sender \in Addr \cup {None} /\ prdr \in BOOLEAN
  /\ recipients \in Seq(Recipient) /\ kept \in 0..Len(recipients)
  /\ Len(recipients) <= MaxRcpt
  /\ timer \in None..Longest /\ wait \in None..Longest
  /\ wait # None => timer # None /\ stage \in DOMAIN Delay

\* A client that does not wait is made to, and is answered early by no more than SIGALRM
\* has cut off: when a command has been answered, the seconds since the message was begun
\* and those cut off are at least the delays of its answers, one for HELO, MAIL and the
\* message, and one for each accepted recipient (delay::Run).
Paced == credit + spared >= 0

\* At any time mod_delay has one time_t for the message or none: no path of InitMsg,
\* Run and DestroyMsg over several messages, HELO and aborts loses or deletes one twice.
TimersAreFreed == live = IF timer = None THEN 0 ELSE 1

\* No recipient of the message in progress is one the loaded modules refuse: neither
\* mod_block_sender nor mod_equal is passed over because mod_delay failed.
Admitted ==
  smtp \in {"rcpt", "eoh"} => \A k \in (kept + 1)..Len(recipients) :
    /\ Loaded("mod_block_sender") => sender # Blocked
    /\ Loaded("mod_equal") /\ recipients[k].address = sender => sender = Postmaster

\* Every callback ends, with mod_delay asleep in it and SIGALRM at any time.
CallbacksEnd == smtp \in Busy ~> smtp \notin Busy
=============================================================================
