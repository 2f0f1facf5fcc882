# Verification of aegee-milter

aegee-milter is a filter that sendmail consults over the milter protocol. It
loads *modules* (`mod_sieve`, `mod_delay`, ...) that look at a message on behalf
of each recipient, and *lists* that the modules query. Recipients may disagree
about one message; the program's core keeps a matrix of recipients and modules,
lets recipients share cells where a module treats them alike, and turns the
verdicts into one SMTP reply (or, with PRDR, several).

This directory holds TLA+ models of that code, TLC configurations and proofs
that TLAPS checks. Paths below are relative to the repository; `core/`,
`modules/` and `lists/` stand for `src/core/` and so on.

## Inventory

| Part | State | Operations | Interacts with |
|---|---|---|---|
| SMTP session: `core/smfi-operations.cpp`, `Privdata.cpp`, `Message.*` | the `Privdata` of a connection: stage, recipients, pool of cells, headers, body, byte array, MIME parser, data of the modules | the callbacks `prdr_connect` ... `prdr_close` | libmilter calls it, one thread per connection; it calls the matrix |
| Matrix: `core/Privdata.cpp`, `Recipient.*`, `Module.*`, `SoModule.*` | for each recipient a vector of cells (`Module`), for each cell the flags of the stages, the verdict, the module's own data | `operator()` runs the modules of a recipient, `SetResponse`, `DoFail`, `SetResponses` | modules through `Status`, `Run`, `Equal`, `InitRcpt`; the MTA through return values |
| Envelope and headers: `core/Privdata.cpp`, `Message.hpp` | `msg` of every cell: deleted or not, recipients added, header changes | `AddRecipient`, `DelRecipient`, `AddHeader`, the clean-up after failure, `CompactHeaders`, `GetRecipients` | modules call them; at the end `smfi_addrcpt`, `smfi_delrcpt`, `smfi_addheader` |
| `mod_sieve`: `core.cpp`, `libcyrus_sieve.cpp`, `message.hpp` | cached paths of the scripts of a message; per cell the stages asked for and the collected actions | the callbacks of libcyrus_sieve, `Run`, `Status`, `Equal` | the list `sieve_bytecode_path`; the files it names, which it reads at every run; the matrix; sends mail |
| `mod_sieve/libsieve.cpp` | none | older back end, its call is commented out | - |
| `mod_arf` | a mutex | `Run` for a complaint | LISTSERV, memcached, sendmail; concurrent threads |
| Small modules: `mod_delay`, `mod_equal`, `mod_block_sender`, `mod_simple`, `mod_relayed`, `mod_via`, `mod_x_scc_headers` | `mod_delay`: a `time_t` per message, in `msgpriv` | `InitMsg`, `DestroyMsg`, one test each; `mod_delay` sleeps | matrix; the list `log` |
| Lists: `list_listserv`, `list_memcached`, `list_log`, `list_timsieved_scripts` | outside the process | `Query`, `Insert`, `Remove` | called through `AegeeMilter::ListQuery` etc. |
| `list_odbc.c` | - | not built (configure.ac:46), written for an older interface | - |
| Daemon: `core/AegeeMilter.cpp`, `aegee-milter.cpp`, `SoList.*` | `so_modules`, `so_lists`, the map `tables`, configuration | start-up, `LoadPlugins`, `ProceedConfFile`, `ListInsert`, `ListQuery`, SIGALRM | loads everything else; its alarm interrupts sleeping modules |
| `contrib/sm8.14.3-prdr.diff` | - | PRDR in sendmail | third-party code |

### What is hard

* *Protocol sequences.* What MAIL FROM resets depends on the stage the previous
  callback left; messages may be aborted, refused at a header, rejected at the
  end of the headers, and HELO may be repeated.
* *Sharing.* Cells belong to several recipients. A module that declares recipients
  equal may answer differently for each of them, as mod_sieve does when a script
  tests the envelope; a run on behalf of a later recipient then changes what
  earlier ones were told.
* *Partial failure.* One module fails for one recipient and the rest goes on; a
  failed run is undone only in part.
* *Stale values.* mod_sieve remembers the path of a script and reads the file again;
  its owner may upload another in between.
* *Stages.* A module that lacks headers or body asks for a later stage and is
  run again from the start; what it had collected must be forgotten.
* *Concurrency.* `mod_arf` handles complaints in several threads, against lists
  that others change, calls that fail without its noticing, a cache that forgets, and
  a daemon that may die.
* *Time.* A module sleeps in its run, on behalf of each recipient, with data that
  the first recipient's run at the end of the message deletes; SIGALRM ends the
  sleep early.
* *Configuration.* Which modules run, and which table a module writes to, is known
  when the daemon has started; a table that is missing is an exception in `Run`.
* *One reply.* Without PRDR the recipients of a message must all agree before
  the verdict is known.

What makes each part correct: a *session* never shows a module the body of another
message, nor, with one HELO on the connection, its bytes or recipients, and never
calls it without the data `InitMsg` made; the *matrix* accepts without PRDR only
recipients that share all cells, runs every cell that asks, and gives the MTA one
reply for all; the *envelope* loses no recipient nobody deleted and adds none a
failed run wanted; *mod_sieve* loads one file for the recipients of a cell and
carries out what it says in the last run, once and in full; *mod_arf* has a cause
for every mail it sends and overlooks no list; the *small modules* make a client
wait, but for what SIGALRM cuts off, admit nobody they object to and neither lose
nor free a timer twice.

## Modules

| Module | Models | Correspondence |
|---|---|---|
| `Engine`, `MCEngine` | one message through the matrix | `recipients`, `pool` are `priv.recipients`, `priv.module_pool`; `EnvRcpt`, `Eoh`/`EohCall`/`EohEnd`, `Body`, `Eom`/`EomCall`/`EomEnd`, `Abort` are the callbacks, the loops taken one recipient a step; `PoolAfter`, `Throws`, `AfterRun` are `Privdata::operator()`; `Answers`, `SetResponses` the second half of `SetResponses()`. What modules do is the parameter `Can`, anew at each run (`May`), in a shared cell too; at its end the mappings to `Verdict` and `Session` |
| `Verdict` | the promise to the MTA about a message: recipients one by one, then one outcome | abstract; `Engine!OneVerdict` is `Verdict!Spec` under the mapping at the end of `Engine` |
| `Session` | the callbacks of a connection over several messages | `priv` is the `Privdata`, each container being the set of messages its contents come from; one action per callback, `NullCallback` the callbacks that find a null pointer; the matrix' decisions are left open |
| `Envelope` | changes of envelope and headers by the modules of one message | `msg[<<m, k>>]` is `Module::msg` of the cell recipient `k` made for module `m`; `Call`s between `Succeeds`, `Fails`, `Rejects` are one run; `Compact` and `Edit` the first half of `SetResponses()` |
| `Sieve`, `MCSieve` | mod_sieve on one message | `local` is `sieve_local` by cell, `cached` `sieve_global::recipients`, which holds the paths `list` gives; `file` has the script behind each path and is read at every run; a script is the sequence of callbacks it makes for a recipient; `Outcome` is `sieve::Run` with the callbacks of `libcyrus_sieve.cpp`; `Upload` replaces a file under its name, or has another path in use, during the message; `lost` (`Missing`) is what `prdr_eoh` gives up and `prdr_body` skips |
| `Arf`, `MCArf` | mod_arf in several threads | one action per call to LISTSERV or memcached, `step` is the place in `arf::Run` and `remove_email_from_list`; `Ask`, `Check` and `Remove` may fail (`Fail`: no answer, an error taken for a subscription, a removal that does not happen) and the code goes on; `Crash`, `Expire` and owners' changes are the environment |
| `Chain`, `MCChain` | the small modules, loaded by the daemon, over the messages of a connection | `config`, `modules`, `tables` are the configuration and what `LoadPlugins` makes of it; `Run`, `Sleep`/`Wake`, `SkipRest` are one turn of the loop in `operator()` or `RunModules`; `timer` is the age of mod_delay's `*last_time`, `Tick` a second, `Alarm` SIGALRM; `credit` and `spared` are the seconds a client has waited beyond what its answers should have cost it, and those SIGALRM has cut off |
| `EngineProofs`, `SessionProofs`, `EnvelopeProofs`, `SieveProofs`, `ArfProofs`, `ChainProofs` | theorems | each extends the module it is about |
| `Facts` | two facts about numbers | that a set of numbers has a least element (`LeastExists`), and induction over a set of numbers (`Induction`) |

The modules share no variables: they are views of one program, at the joints of
the code. `Session` leaves open what `Engine` decides about recipients, and what
`Engine` decides stays within what `Session` allows: under the mapping at the end of
`Engine` each of its callbacks, however many calls of the operator it makes, is a
stutter while it runs and one callback of `Session` when it returns
(`MessageOfConnection`). The mapping is about the first message of a connection,
after HELO; headers and MIME parser, which `Engine` does not have, stay empty in it. `Engine`
leaves open what modules answer and covers every module by the parameters `Can`,
`Status` and `Equal`; `Sieve` has the details of one module and takes from `Engine`
how cells are found and recipients visited; `Envelope` takes any sharing of cells
`Engine` can produce (`CellsOfAccepted` in `EngineProofs` is what its `Init` asks of
accepted recipients) and more. `Chain` composes real modules with the loop, the
start-up and several messages; it leaves refused headers and what follows an abort
to `Session`, and verdicts at later stages, which its modules do not give, to
`Engine`. `Verdict` is what all this comes to for the MTA. Names with an underscore (`Free_Always`) are mutants: plausible bugs
used to show that a property can fail.

## Runs

All runs are exhaustive for the given bounds. Deadlock is checked everywhere;
where the system may stop (`Finished`, `Over`) the module says so by an action.

| Run | Bounds | Shows |
|---|---|---|
| `Engine` | 2 addresses, 2 modules, 3 RCPT; any client (PRDR or not, null sender or not, NOTIFY=NEVER); modules that may answer anew at every run, in a cell they share too; one of them asks for headers and body | accepted recipients share their cells with the first (`SameCellsAsFirst`), so one reply is right for all (`OneReplyForAll`); every cell is shown what it asked for (`ShownToEveryCell`), with the body (`BodyIsThere`); the message has one outcome (`OneVerdict`); each callback does one thing `Session` allows it (`MessageOfConnection`); callbacks end (`CallbackEnds`). 608447 states |
| `Session` | 3 messages on a connection, 51087 states | data of the modules, bytes, recipients and body are those of the current message; nothing leaks |
| `Envelope` | 2 RCPT, 2 modules, 3 addresses, 3 calls, 5569629 states | nobody is lost whom nobody deleted; whom a module without failures has deleted is gone (`DeletedAreGone`); whom a module has added, and none deleted, gets the message (`AddedArrive`); failed runs add nobody; common header changes are applied |
| `Sieve` | 4 scripts in 2 files, 2 addresses, 3 RCPT, a sender or a bounce, 1 upload, 2552152 states | the recipients of a cell are given one file, and one script unless the file has been replaced (`OneFilePerCell`); nothing is sent early; only the whole message is redirected or answered, a bounce without its body (`SentWhole`); the last run has done what the file then said, in full (`ScriptsAreCarriedOut`); mailed once; what is done stays done when an unchanged file is run again at a later stage (`DoneStaysDone`) |
| `Arf` | 2 threads, a list with a sub-list, 3 complaints, 1 change, 2 losses (a crash, a lost key, a call that fails), 1083308 states | each mail has a cause of its own (`ToldOnce`), not removed again while the key is there, what stays subscribed was subscribed meanwhile or not removed by LISTSERV (`NoneLeft`), complaints end |
| `Chain` | 12 configurations, 3 addresses, at most 2 recipients at a time, delays of 0, 2, 1 and 2 seconds, any number of messages, 1620299 states | a client that does not wait is made to, up to the seconds SIGALRM cuts off (`Paced`); one `time_t` at a time, none lost (`TimersAreFreed`); nobody is admitted past a module that failed (`Admitted`); callbacks end |
| `Engine_givenup`, `Engine_terminated`, `Engine_disagree`, `Session_abort`, `Envelope_headers`, `Sieve_include` | small | what a doc or comment says and the code does not do; see below |

Why the bounds suffice: two modules are the least that makes the order of the
columns, a failure before another module and the last module visible; three RCPT
commands make a first, a refused or deferred, and a later recipient; three
messages let a container be filled, kept and met again after a reset. In
`Envelope` three calls are enough to add, delete and add again in different
cells. In `Arf` three complaints leave two concurrent and one after a key exists, and two
losses let an error be taken for a subscription that then is not removed, or a
complaint be repeated after a key was lost.
In `Sieve` one upload falls between any two steps: between the look-up of a path and
the first run, between two recipients of a cell, and between two stages.
In `Chain` ages are told apart up to the longest delay, and what a client has waited
and been spared up to twice that, which is as far as the code looks: messages need no
bound. The configurations are the module that sleeps and the one that compares,
either, both or none, alone, with all the others, and with the log as well.

Every property of a passing run has a mutant in `PROJECT.json` that violates it
under the run's own bounds.

### Fairness

`Engine` and `Chain` assume weak fairness of `Callback`: a callback the MTA has
begun is a sequential loop that runs to its end; nothing is assumed of the MTA.
`Chain` assumes that time passes (`Tick`), or `select` would not return. `Arf`
assumes weak fairness of each thread's processing: libmilter's threads are
scheduled by the operating system. A `std::mutex` promises no order, so
`ComplaintsEnd` is about finitely many complaints; with an endless stream of
them the code promises less. The other modules have safety properties only.

## Disagreements between the code and its texts

Each is shown by a run that TLC finds violated:

1. `Engine_givenup` - when the loop of `prdr_eoh` asks the cells whether they need
   the body, only the last cell visited answers, for `current_module` is not set
   (smfi-operations.cpp:149) and `sieve::Status` reads it
   (mod_sieve/core.cpp:462-464): a message is accepted and replaced by an empty one
   although a recipient's script needs the body. The comment at
   smfi-operations.cpp:156 says that no module needs it. The comment is right when
   the recipients are of one class and only the last module is dynamic
   (`GivenUpOfOneClass`).
2. `Engine_terminated` - a rejection at the end of the message is thrown out of
   `prdr_eom` (smfi-operations.cpp:191) and ends the daemon. It takes a module that
   both objects to messages and is run at their end (`SurvivesTheEnd`), which
   mod_sieve is and mod_equal may be.
3. `Engine_disagree` - if the first recipient accepts and a later one rejects,
   `answers.front()` is null and is followed (Privdata.cpp:403). It takes a client
   that uses PRDR or NOTIFY=NEVER (`DisagreementOfClasses`).
4. `Session_abort` - after an abort the connection has no `Privdata`
   (smfi-operations.cpp:207); the next callback follows a null pointer. Nothing else
   does that to a connection (`OnlyAbortCrashes`).
5. `Envelope_headers` - `Module::operator!=` compares the kind of module, so that
   header changes of one recipient's cell are applied for everybody
   (Privdata.cpp:290). It takes accepted recipients that do not share all their
   cells (`PrivateInOneClass`).
6. `Sieve_include` - an included personal script is remembered under its name in
   a cell several recipients share (mod_sieve/core.cpp:179). It goes no further
   than the cell (`IncludesAreOfTheCell`).

Met while reading and modelled as the code has it, with no run of their own; the
properties say what is true in spite of them.

In the matrix and the session:

* A module that shares a cell is run for every recipient, because
  `flags &= !MOD_FAILED` (Privdata.cpp:423) clears all bits, though
  documentation.txt:22 and :30 promise one run for all. With mod_relayed this is as well:
  each run records the recipient it is for, and one run would record the first only.
* A module that shares a cell may answer a later recipient otherwise: mod_sieve compares
  scripts (mod_sieve/core.cpp:482-490), and a script may test the envelope. The later
  recipient's rejection is then in the accepted recipient's cell
  (smfi-operations.cpp:71), and rejects the message for it when the others agree. No
  property says that an acceptance at RCPT lasts; `OneReplyForAll` says that there is
  one reply for all.
* For the second recipient at the end of a message mod_delay finds its `time_t` deleted
  and fails, so that the modules behind it are not run for that recipient
  (mod_delay.cpp:39, Privdata.cpp:436); modules behind a failed one wait for the next
  stage.
* A `Status` that is asked while `current_module` belongs to another module reads that
  one's data (`wrongCell` in `Engine`, where it is taken to be a null pointer;
  `RightCell` says when it does not happen).
* HELO between messages keeps the recipients of the last one (smfi-operations.cpp:29;
  `RecipientsAreCurrent` is about connections with one HELO).
* MAIL FROM does not clear `priv.msg` (smfi-operations.cpp:39): after a message that was
  not replaced at the end of its headers, the headers of the last message precede those
  of this one. `BodyIsCurrent` is about the body, which is emptied; of headers no
  property says this.
* NOTIFY=NEVER lets a recipient in although it differs from the first (:98); a rejection
  at the end of the headers rejects for all (:161); `replace_from_header` stays for
  later messages (:120).
* A module that writes to a log that is not configured ends the daemon
  (AegeeMilter.cpp:248). mod_equal's branch for the end of the message compares with
  "<>", from which the brackets have been stripped, and cannot be entered.
* SIGALRM ends the sleep of mod_delay, and the client is answered early
  (mod_delay.cpp:58). `Paced` counts those seconds apart.

In the envelope and mod_sieve:

* A failed run's deletion of its recipient and its header changes survive
  (Privdata.cpp:427-436), though doc/prdr-milter.texi:191 says that its results are not
  taken into account and TODO:1-5 asks for it. `DeletedAreGone` therefore claims nothing
  for modules one of whose runs in the cell has failed; the code deletes for them too.
* An address that one module adds to a recipient gets the message although another module
  deletes it, against doc/prdr-milter.texi:193: the second erases it from its own cell
  only (Privdata.cpp:116-119). `AddedArrive` claims nothing for addresses that any
  module has deleted.
* Recipients added by the last module never reach the MTA (Privdata.cpp:95).
* The file of a script is read again at every run (libcyrus_sieve.cpp:211) while the path
  is remembered: recipients of a cell may be treated by two scripts when the owner
  uploads under the same name during the message, and what was carried out at RCPT may
  be done otherwise at a later stage. `OneFilePerCell` and `DoneStaysDone` say that this
  takes such an upload; which script of the file runs last is what
  `ScriptsAreCarriedOut` is about.
* The body of a bounce is skipped (smfi-operations.cpp:176-178), for an empty sender is
  how `prdr_body` tells a message that has been given up. A redirected bounce goes out
  without its body, and a script that tests the size of a bounce is misled.
* A plain reject behind one whose text cannot be expanded yet does nothing (core.cpp:277);
  the run counts as failed and is repeated.

In mod_arf:

* An answer of LISTSERV that is an error counts as a subscription
  (list_listserv.cpp:69), and the result of the removal is not looked at
  (mod_arf.cpp:198): owners are told that somebody "was removed" (mod_arf.cpp:97) who was
  not subscribed, or still is. `ToldOnce` counts each such slip as a cause of a mail.
* A crash between a list and its sub-lists leaves the sub-lists: the key of the list ends
  the repeated complaint at once, and the owners are not told.

## Proofs

`tlapm` checks all theorems for every value of the constants, from the named
assumptions of each module (numbers are naturals, functions have their domains,
`Null` and `None` are distinct).

* `EngineProofs`. `TypeCorrect` is inductive as it stands, because `TypeOK` says
  that every accepted recipient has its cells in the pool and that only the loops
  have recipients to visit. `DelayedMode` needs that the first recipient stays
  first (`FrontStays`): the vector only grows, with larger serials, or is
  emptied. `OneReply` combines both: recipients with the same cells have the same
  entry in `answers` (`SameAnswers`), one entry means one response
  (`UniformResponse`), and a throw at the headers means that the entry is not
  empty (`ThrowRejects`). That a first element exists (`EarliestExists`) follows
  from `LeastExists` in `Facts`.
  `Refinement` shows the same of `Verdict`: initial states map to initial states
  and every step to a step or a stutter; it needs `Undecided`, that a message the
  MTA still sends has no answers yet.
  `EverybodyShown` rests on
  `Showings`: while a loop runs, the recipients it has been at are shown all that
  their cells asked for at this stage (`ShownAt`), and earlier stages are complete.
  `BodyFound` rests on `Bodies`: with one class of recipients and the last module
  alone dynamic, the one cell `eoh` asks is the one all share. `GivenUpOfOneClass` is
  the same invariant seen from the message that is given up.
  `PartOfConnection` shows that a message is what `Session` says of a first message,
  step by step. It needs that the stage follows the callbacks (`StageFits`) and that an
  open message has no answers (`Undecided`). `Seen` and `SeenDone` say in plain terms
  what `Session` sees of a message that is open, and of one that has ended; the
  lemmas on each callback compare two such pictures. A callback is seen when it
  returns, so that the steps of the loops in `eoh` and `eom` are stutters.
  `CellsOfAccepted` is inductive as it stands: a recipient either makes a cell or is
  given one of an accepted recipient.
  `SurvivesTheEnd`, `DisagreementOfClasses` and `RightCell` each say what one of the
  ways in which a message can end the daemon takes. The first rests on what a cell can have
  come to (`CellsAreLawful`): it asks for the end of the message, or holds a verdict,
  only if its module is able of that; the last on `AskedAsStatus`. `DaemonSurvives` puts them
  together. Their hypotheses are about the modules, as parameters `Can` and `Status`
  describe them, and hold for the repository's modules but mod_sieve and mod_equal,
  and for mod_sieve in last place when no script rejects.
  `LoopsAdvance` and `LoopsGoOn` are the two halves of `CallbackEnds` a state or a
  step can show: a step of a callback strikes a recipient off or returns, and while
  there are recipients to visit the next one can be visited. The second is about
  modules that can `Return`: with one that at all stages only asks for a later one
  the model has no run of it, and the theorem says nothing. Every instance the runs
  check has only modules that return.
* `SessionProofs`. The properties are about the time during a message; what
  `prdr_envfrom` finds is decided earlier. `SessionInv` adds `Between`: outside a
  message, stage MAIL means live data and - with one HELO - empty containers, and
  another stage means no data, unless a header was refused. One lemma per
  callback shows that it keeps the invariant. `StageIsRight` is a part of it.
  `OnlyAbortCrashes` is about the behaviours without an abort: in them there is a
  `Privdata` whenever a callback looks for it.
* `EnvelopeProofs`. `EnvelopeInv` adds to the properties `NobodyIsLost` (until
  its turn in the loop of `SetResponses` each recipient is in the envelope, and
  afterwards unless it was deleted or deleted under another RCPT command) and
  `CellsAreVouched` (an address in a cell is one the run in progress has added, or
  one of a run that succeeded).
  The loop of `SetResponses` needs `EditInv`: what has been added by the recipients
  and modules the loop has passed is in the envelope (`AddedSoFar`); an address
  everybody has deleted, in a failed run or not, is out of it as soon as a recipient of that name has been
  passed, but for the turns between the one that puts the next recipient of the
  name back and the one that finds it deleted (`GoneSoFar`).
  `PrivateInOneClass` rests on `AppliedOfAccepted`: the cells whose header changes the
  MTA is given are those of an accepted recipient.
* `SieveProofs`. The cache of a message only grows, so that the path `Equal` looked up
  is the path `Run` loads: two recipients of a cell both have their keys in the cache,
  with one value (`Shares`), and what has been run for a recipient is the file its keys
  in the cache lead to, with the script that is in it still unless the file has been
  replaced (`Runs`).
  What is done with the collected actions rests on `MailInv`: a stage goes through
  recipients accepted before it, and a message is replaced by an empty one before the
  end only (`Staged`); mail is sent in the run at the end of the message, and no more
  of it than the script says (`Mailed`); an empty message is one that no recipient of
  the common cell waits for (`Empty`); and an accepted recipient's script has been
  carried out, or its cell asks for a stage that is still to come (`Carried`). The
  actions of a script are picked by a recursive function on positions (`Chosen`), not
  by `SelectSeq`, so that facts about them can be proved by `Induction` of `Facts`,
  where the property is a set and not an operator. `DoneStays` needs `Lasting`: a
  script that has done anything to a whole message lacks nothing at its stage, and
  then lacks nothing later (`LacksLater`).
  `IncludesAreOfTheCell` needs that the personal script a cell remembers is that of
  one of its recipients (`Scoped`).
* `ArfProofs`. A thread past the lock has the mutex (`Exclusive`). `Due` counts the
  causes there have been for a mail: subscriptions, and slips of LISTSERV. What a thread
  owes the owners is accounted for: as soon as it has found a subscription, or an error
  it takes for one, there was one cause more than mails; once it is past the removal and
  the address is subscribed, because somebody did it again or LISTSERV did not remove it,
  there were two more (`Owed`). A subscription that exists has not been told of
  (`Credit`). The mutex keeps a second thread from owing the same mail. A crash ends all
  debts.
  A second invariant (`LoopInv`) follows the loops of `remove_email_from_list`: each
  list is still to be looked at, has been found, is to be removed from, or no longer
  has the address, but for subscriptions others have made since the thread got the mutex
  or LISTSERV has not removed (`kept`, `Swept`); and the list complained about comes first
  and once, so that its key is never there before its turn (`Once`). For that no list may
  be its own sub-list (`SublistsDiffer`).
  `MutexComesFree` counts what the holder of the mutex has left to do (`Work`): each
  step of its own lowers the number, nobody else raises it, and it is 0 exactly when
  the thread has given the mutex back or the daemon has died.
* `ChainProofs`. `ChainInv` has a part for each thing that has to be right at once:
  the stage fits the callback (`Stages`), the loop is within the modules and its
  recipients (`Loops`), the `time_t` is there when mod_delay can be asked for it,
  and it is the only one (`Timers`), the time the client has waited, together with
  what SIGALRM has cut off (`Balance`), covers the delays mod_delay has answered for
  (`Credits`), a recipient that got past a module had no objection from it
  (`Admissions`), and what is loaded is what the configuration says (`Modules`).
  `CallbacksAdvance` counts the turns a callback has left (`Ahead`): two for each
  module and recipient, for mod_delay sleeps before it is done. A step of the loop
  lowers it, a second or a SIGALRM only shortens the sleep. `CallbacksGoOn` says that
  one of them is always possible.

Every invariant and action property of the passing runs, and both refinements, are
stated by a theorem. What the runs find violated is bounded by one: each of the six
disagreements has a theorem that says under which conditions it cannot occur or how far it goes. Only model-checked are the three liveness properties
`CallbackEnds`, `CallbacksEnd` and `ComplaintsEnd`: that something happens under
fairness is out of the prover's reach. The facts their argument rests on are proved:
the variants decrease (`LoopsAdvance`, `CallbacksAdvance`, `MutexComesFree`) and the
callbacks are never stuck (`LoopsGoOn`, `CallbacksGoOn`). What remains to the runs is
that an action which stays possible is taken.

## Not modelled

The text of replies, mails and logs; ESMTP parameters but SIZE, PRDR and NOTIFY;
the rules by which a vacation notice is suppressed; parsing of MIME and of
complaint reports; the reading of options, the socket, the PID file and the fork
(sequential, done once); `libsieve.cpp` and `list_odbc.c` (not used by the build);
the sendmail patch; `mod_simple`, a demonstration. Errors inside libcyrus_sieve
without a failing callback are left out: the sources do not say when they happen.
`SetBody` has no effect in the code beyond its own variable. A pointer read as
another module's data is taken to be null (`wrongCell`). The expiry of lists
by SIGALRM is modelled by what it does to a sleeping module only: no list that the
build enables keeps anything to expire. In `Sieve` paths that differ in case only are
one path, and a file that a path names is never gone. In `Arf` a query for the
sub-lists of a list does not fail on its own; the daemon may die at it.

## Plan

Done, in this order: `Engine`, `Session`, `Envelope`, `Sieve`, `Arf`, `Verdict` and
the refinement, `Chain`, the refinement of `Session` by `Engine`; the proofs of all invariants and action properties the runs
check, and of the variants behind the liveness properties.

Next:

1. `InjectResponse`, the splitting of long replies into lines, as an operator with
   its reference definition.
2. A composition of `Session` and `Engine` over two messages, for what a HELO
   between two messages leaves in the matrix.
