-------------------------------- MODULE Sieve --------------------------------
(***************************************************************************)
(* mod_sieve on one message: which script it runs for a recipient, when    *)
(* the script can run to its end, and what is done of the actions it       *)
(* collects.  A script runs at RCPT; a callback of libcyrus_sieve.cpp that *)
(* needs the headers or the body makes the run fail and asks for the later *)
(* stage, where the script is run again from the start.                    *)
(*                                                                         *)
(* The list gives the path of a file, which is remembered; the file is     *)
(* read again at every run.  Others write both.  A script is known by the  *)
(* callbacks it makes for a recipient as long as they succeed.  Paths that *)
(* differ in case only are one path, and a file is never gone.             *)
(*                                                                         *)
(* mod_sieve is the only module here; Engine has the rules for several.    *)
(* The client offers PRDR, so that no recipient is deferred.               *)
(***************************************************************************)
EXTENDS Integers, Sequences

CONSTANTS
  Addr,         \* recipient addresses
  Path,         \* paths of files with scripts in bytecode
  Script,       \* scripts
  Program,      \* Program[s][a]: the callbacks of script s for recipient a
  None,         \* "no script found", the empty path
  MaxRcpt,      \* bound: RCPT commands in the message
  MaxUploads    \* bound: changes of the list and the files during the message

Rcpt     == 1..MaxRcpt
Stage    == {"RCPT", "HEADERS", "BODY"}
Test     == {"header", "size", "include"}
Action   == {"keep", "redirect", "fileinto", "vacation", "discard", "reject",
             "rejectHeader"}     \* a reject whose text contains ${headers.}
Finder   == Addr \cup {"default"}  \* the keys of the list; "default" is the empty one

ASSUME SieveAssumption ==
  /\ MaxRcpt \in Nat \ {0} /\ MaxUploads \in Nat
  /\ Program \in [Script -> [Addr -> Seq(Test \cup Action)]]
  /\ None \notin Path /\ None \notin Script /\ None \notin Addr /\ "default" \notin Addr

VARIABLES
  list,       \* external: the path ListQuery finds; everybody shares the default
  file,       \* external: the scripts in the files
  uploads,    \* external: changes so far
  replaced,   \* history: the files changed so far
  sized,      \* did MAIL FROM come with SIZE= ?
  sender,     \* "null" for a bounce, or "address"
  cached,     \* sieve_global.recipients, a function on the keys asked for
  address,    \* Recipient::address, for all RCPT commands
  owner,      \* the RCPT command that made the cell of the recipient
  accepted,   \* recipients
  local,      \* the cells' sieve_local, with the Module's smfi_const
  stage, todo,
  lost,       \* what of the message is missing in priv.msg at its end
  phase,      \* "message", or how it ended
  ran,        \* history: the files run for each recipient, with the scripts in them
  last,       \* history: the script in each recipient's last run
  effects,    \* history: what each recipient's last run has done
  sent,       \* history: <<action, stage, lost>> of all mails sent for each recipient
  included    \* history: whose personal scripts the recipient's script included

message == <<list, file, uploads, replaced, sized, sender>>
history == <<ran, last, effects, sent, included>>
vars    == <<message, cached, address, owner, accepted, local, stage, todo, lost,
             phase, history>>

sieve_local == [desired_stages : SUBSET Stage, actions : Seq(Action),
                personal : Addr \cup {None}, rejects : BOOLEAN]
NewLocal    == [desired_stages |-> {"RCPT"}, actions |-> <<>>, personal |-> None,
                rejects |-> FALSE]

-----------------------------------------------------------------------------
\* Mutant of the next operator: only a script that was found is remembered.
Looked_FoundOnly(known, keys) ==
  [k \in DOMAIN known \cup {x \in keys : list[x] # None} |->
     IF k \in DOMAIN known THEN known[k] ELSE list[k]]

\* get_default_script_for_recipient: the cache once the keys have been looked up.
Looked(known, keys) ==
  [k \in DOMAIN known \cup keys |-> IF k \in DOMAIN known THEN known[k] ELSE list[k]]

Found(known, k) == IF k \in DOMAIN known THEN known[k] ELSE list[k]

\* sieve_getscript (":personal", ""): the keys it looks up, and the path.
Keys(known, a) == IF Found(known, a) = None THEN {a, "default"} ELSE {a}
GetScript(known, a) ==
  IF Found(known, a) = None THEN Found(known, "default") ELSE Found(known, a)

\* Equal, for the accepted recipient k, and the cell prdr_envrcpt takes for a.
Equal(known, k, a) == Found(known, address[k]) = Found(known, a)
First(S)           == {k \in S : \A j \in S : k <= j}
Sharing(known, a)  == First({k \in accepted : Equal(known, k, a)})

\* The keys Equal looks up until it finds an equal recipient.
Compared(known, a) ==
  IF accepted = {} THEN {}
  ELSE {a} \cup {address[k] : k \in {k \in accepted : \A j \in Sharing(known, a) : k <= j}}

-----------------------------------------------------------------------------
\* Mutant of the next operator: cyrus_redirect does not look at the stage.
Lacks_NotForRedirect(c, s) ==
  CASE c = "header" -> IF s = "RCPT" THEN {"HEADERS"} ELSE {}
    [] c = "size"   -> IF s # "BODY" /\ ~sized THEN {"BODY"} ELSE {}
    [] c \in {"keep", "fileinto", "vacation"} -> IF s # "BODY" THEN {"BODY"} ELSE {}
    [] OTHER -> {}

\* The stage a callback asks for when it cannot do its work at stage s.
Lacks(c, s) ==
  CASE c = "header" -> IF s = "RCPT" THEN {"HEADERS"} ELSE {}
    [] c = "size"   -> IF s # "BODY" /\ ~sized THEN {"BODY"} ELSE {}
    [] c \in {"keep", "redirect", "fileinto", "vacation"} ->
         IF s # "BODY" THEN {"BODY"} ELSE {}
    [] OTHER -> {}

\* The callbacks that succeed, and the stage the next one asks for.
Stuck(p, s)  == First({i \in DOMAIN p : Lacks(p[i], s) # {}})
Made(p, s)   == SubSeq(p, 1, IF Stuck(p, s) = {} THEN Len(p)
                             ELSE (CHOOSE i \in Stuck(p, s) : TRUE) - 1)
Asked(p, s)  == UNION {Lacks(p[i], s) : i \in Stuck(p, s)}

\* Mutant of the next operator: the actions a run has performed are not cleared.
Leftover_OfPerformed(failed, actions) == IF failed THEN <<>> ELSE actions

\* sieve::Run, both branches: actions.clear ()
Leftover(failed, actions) == <<>>

\* Mutant: the later stage is not asked for.
Desired_Same(l, stages) == l.desired_stages

Desired(l, stages) == l.desired_stages \cup stages

\* The elements of a sequence that are in S, in their order.
Chosen(seq, S) ==
  LET upto[n \in 0..Len(seq)] ==
        IF n = 0 THEN <<>>
        ELSE IF seq[n] \in S THEN Append(upto[n - 1], seq[n]) ELSE upto[n - 1]
  IN  upto[Len(seq)]

\* expand_variables_in_string for the text of a reject, before the headers are there.
Unready(s) == IF s = "RCPT" THEN {"rejectHeader"} ELSE {}

\* What is done of the actions a run has collected.  A reject that cannot be expanded
\* sets sieve_local::failed, and no reject after it does anything.
Performed(seq, s) ==
  LET late == First({i \in DOMAIN seq : seq[i] \in Unready(s)})
      n    == IF late = {} THEN Len(seq) ELSE CHOOSE i \in late : TRUE
  IN  Chosen(SubSeq(seq, 1, n), Action \ Unready(s))
        \o Chosen(SubSeq(seq, n + 1, Len(seq)), Action \ {"reject", "rejectHeader"})

(***************************************************************************)
(* libcyrus_sieve_run and sieve::Run with script p in the sieve_local l.   *)
(* External: after a callback has failed, libcyrus_sieve may or may not    *)
(* call keep (lapse), which asks for the body.                             *)
(***************************************************************************)
Outcome(p, s, l, lapse) ==
  LET made      == Made(p, s)
      failed    == Stuck(p, s) # {}
      collected == l.actions \o Chosen(made, Action)
      late      == {i \in DOMAIN collected : collected[i] \in Unready(s)} # {}
      done      == IF failed THEN <<>> ELSE Performed(collected, s)
      reject    == \E i \in DOMAIN done : done[i] \in {"reject", "rejectHeader"}
      stages    == Asked(p, s) \cup (IF failed /\ lapse THEN {"BODY"} ELSE {})
                     \cup (IF ~failed /\ late THEN {"HEADERS"} ELSE {})
  IN  [done   |-> done,
       failed |-> failed \/ late,
       tests  |-> {made[i] : i \in DOMAIN made},
       local  |-> [l EXCEPT !.desired_stages = Desired(l, stages),
                            !.actions = Leftover(failed, collected),
                            !.rejects = ~(failed \/ late) /\ (@ \/ reject)]]

\* The cell after a run for a: the first recipient that needs a personal script by
\* its name leaves it there for the others.
Included(o, a) ==
  IF "include" \in o.tests /\ o.local.personal = None
  THEN [o.local EXCEPT !.personal = a] ELSE o.local

\* Mail the actions send: a redirect and a vacation notice.  A bounce gets no notice;
\* an empty message has no sender, and is taken for one.
Mails(done, s) ==
  LET mails == Chosen(done, IF sender = "null" \/ "headers" \in lost THEN {"redirect"}
                            ELSE {"redirect", "vacation"})
  IN  [i \in DOMAIN mails |-> <<mails[i], s, lost>>]

\* The tests that see an incomplete message.
Misleading == (IF "headers" \in lost THEN {"header"} ELSE {})
              \cup (IF "body" \in lost /\ ~sized THEN {"size"} ELSE {})

\* The callbacks a script makes.  Such a test may turn out otherwise; the script is
\* then taken to end with the implicit keep.
Paths(p) ==
  {p} \cup {SubSeq(p, 1, i) \o <<"keep">> : i \in {i \in DOMAIN p : p[i] \in Misleading}}

Noted(o, k, a, path) ==
  /\ ran' = [ran EXCEPT ![k] = @ \cup {<<path, file[path]>>}]
  /\ last' = [last EXCEPT ![k] = file[path]]
  /\ effects' = [effects EXCEPT ![k] = o.done]
  /\ sent' = [sent EXCEPT ![k] = @ \o Mails(o.done, stage)]
  /\ included' = [included EXCEPT ![k] =
                    IF "include" \in o.tests THEN @ \cup {Included(o, a).personal} ELSE @]

-----------------------------------------------------------------------------
Init ==
  /\ list \in [Finder -> Path \cup {None}] /\ list["default"] # None
  /\ file \in [Path -> Script] /\ uploads = 0 /\ replaced = {}
  /\ sized \in BOOLEAN /\ sender \in {"null", "address"}
  /\ cached = [k \in {} |-> None] /\ address = <<>> /\ owner = <<>>
  /\ accepted = {} /\ local = [k \in {} |-> NewLocal]
  /\ stage = "RCPT" /\ todo = {} /\ lost = {} /\ phase = "message"
  /\ ran = <<>> /\ last = <<>> /\ effects = <<>> /\ sent = <<>> /\ included = <<>>

\* A user uploads a script under the same name, or has another file or none in use.
Upload ==
  /\ phase = "message" /\ uploads < MaxUploads /\ uploads' = uploads + 1
  /\ \/ \E f \in Path, s \in Script :
          file' = [file EXCEPT ![f] = s] /\ replaced' = replaced \cup {f} /\ UNCHANGED list
     \/ \E a \in Addr, f \in Path \cup {None} :
          list' = [list EXCEPT ![a] = f] /\ UNCHANGED <<file, replaced>>
  /\ UNCHANGED <<sized, sender, cached, address, owner, accepted, local, stage, todo, lost,
                 phase, history>>

\* Mutant of the next operator: InitRcpt only for the first recipient.
LocalWith_First(cell) == IF local = <<>> THEN [c \in {cell} |-> NewLocal] ELSE local

\* InitRcpt makes the sieve_local of a new cell.
LocalWith(cell) == [c \in DOMAIN local \cup {cell} |->
                      IF c \in DOMAIN local THEN local[c] ELSE NewLocal]

\* prdr_envrcpt finds or makes the cell.
Arrive(a) ==
  /\ phase = "message" /\ stage = "RCPT" /\ todo = {} /\ Len(address) < MaxRcpt
  /\ LET k      == Len(address) + 1
         shared == Sharing(cached, a)
         cell   == IF shared = {} THEN k ELSE owner[CHOOSE j \in shared : TRUE]
     IN  /\ cached' = Looked(cached, Compared(cached, a))
         /\ address' = Append(address, a) /\ owner' = Append(owner, cell)
         /\ local' = LocalWith(cell)
         /\ todo' = {k}
  /\ ran' = Append(ran, {}) /\ last' = Append(last, None) /\ effects' = Append(effects, <<>>)
  /\ sent' = Append(sent, <<>>) /\ included' = Append(included, {})
  /\ UNCHANGED <<message, accepted, stage, lost, phase>>

\* The operator calls sieve::Run for the next recipient, or passes it over.  A
\* rejection refuses a recipient at RCPT and ends the message later on.
Run(k) ==
  /\ phase = "message" /\ k \in First(todo)
  /\ stage \in local[owner[k]].desired_stages
  /\ LET a    == address[k]
         path == GetScript(cached, a)
     IN  \E lapse \in BOOLEAN, p \in Paths(Program[file[path]][a]) :
       LET o == Outcome(p, stage, local[owner[k]], lapse)
       IN  /\ cached' = Looked(cached, Keys(cached, a))
           /\ local' = [local EXCEPT ![owner[k]] = Included(o, a)]
           /\ Noted(o, k, a, path)
           /\ todo' = IF o.local.rejects THEN {} ELSE todo \ {k}
           /\ accepted' = IF stage = "RCPT" /\ ~o.local.rejects THEN accepted \cup {k}
                          ELSE accepted
           /\ phase' = IF o.local.rejects /\ stage # "RCPT" THEN "rejected" ELSE phase
  /\ UNCHANGED <<message, address, owner, stage, lost>>

PassOver(k) ==
  /\ phase = "message" /\ k \in First(todo)
  /\ stage \notin local[owner[k]].desired_stages
  /\ todo' = todo \ {k}
  /\ UNCHANGED <<message, cached, address, owner, accepted, local, stage, lost, phase,
                 history>>

\* Mutant of the next operator: what a fresh cell asks for is taken.
BodyNeeded_Fresh == "BODY" \in NewLocal.desired_stages

\* prdr_eoh asks for the body if Status does, which reads the cell the last recipient
\* has left in current_module, whoever the loop is at.
BodyNeeded ==
  \A k \in accepted : (\A j \in accepted : j <= k) => "BODY" \in local[owner[k]].desired_stages

\* prdr_eoh may put an empty message in the place of priv.msg, and prdr_body takes a
\* bounce for one and skips its body.
Missing == IF ~BodyNeeded THEN {"headers", "body"}
           ELSE IF sender = "null" THEN {"body"} ELSE {}

\* The next callback of the MTA: the headers have ended, or the message has.  A
\* rejection may be left in a cell by a recipient that was refused.
NextStage ==
  /\ phase = "message" /\ todo = {} /\ accepted # {}
  /\ IF stage = "BODY"
     THEN /\ phase' = IF \E k \in accepted : local[owner[k]].rejects THEN "rejected"
                      ELSE "accepted"
          /\ UNCHANGED <<stage, todo, lost>>
     ELSE /\ stage' = IF stage = "RCPT" THEN "HEADERS" ELSE "BODY"
          /\ lost' = IF stage = "RCPT" THEN {} ELSE Missing
          /\ todo' = accepted /\ UNCHANGED phase
  /\ UNCHANGED <<message, cached, address, owner, accepted, local, history>>

\* The MTA may also give up while it has no accepted recipient.
Over ==
  /\ phase # "message" \/ (todo = {} /\ Len(address) = MaxRcpt /\ accepted = {})
  /\ UNCHANGED vars

Next ==
  \/ Upload \/ NextStage \/ Over
  \/ \E a \in Addr : Arrive(a)
  \/ \E k \in Rcpt : Run(k) \/ PassOver(k)

Spec == Init /\ [][Next]_vars

-----------------------------------------------------------------------------
(***************************************************************************)
(* Properties that the code is meant to have and has.                      *)
(***************************************************************************)
TypeOK ==
  /\ list \in [Finder -> Path \cup {None}] /\ file \in [Path -> Script]
  /\ uploads \in 0..MaxUploads /\ replaced \subseteq Path
  /\ sized \in BOOLEAN /\ sender \in {"null", "address"}
  /\ DOMAIN cached \subseteq Finder /\ \A k \in DOMAIN cached : cached[k] \in Path \cup {None}
  /\ Len(address) \in 0..MaxRcpt /\ DOMAIN owner = DOMAIN address
  /\ \A k \in DOMAIN address : address[k] \in Addr /\ owner[k] \in DOMAIN local
  /\ accepted \subseteq DOMAIN address /\ todo \subseteq DOMAIN address
  /\ \A c \in DOMAIN local :
       /\ local[c].desired_stages \subseteq Stage
       /\ local[c].personal \in Addr \cup {None} /\ local[c].rejects \in BOOLEAN
  /\ stage \in Stage /\ lost \subseteq {"headers", "body"}
  /\ phase \in {"message", "accepted", "rejected"}

\* The recipients that share a cell are given one file, at all stages, however often
\* users have others in use while the message comes in: what Equal has compared is what
\* Run loads.  They are given one script as well, unless that file has been replaced
\* (get_default_script_for_recipient, libcyrus_sieve_run).
OneFilePerCell ==
  \A k, j \in DOMAIN owner : owner[k] = owner[j] =>
    \A r, q \in ran[k] \cup ran[j] :
      r[1] = q[1] /\ (r[2] # q[2] => r[1] \in replaced)

\* Nothing is sent before the message is complete, in a cell that other recipients
\* make run at other stages as well (cyrus_redirect, cyrus_autorespond).
NothingSentBeforeTheEnd ==
  \A k \in DOMAIN sent : \A i \in DOMAIN sent[k] : sent[k][i][2] = "BODY"

\* A redirected message and a message that is answered are the one that was received,
\* when all accepted recipients share a cell: the empty message takes its place only if
\* no script of theirs has come to its end for want of the body (prdr_eoh, sieve::Status).
\* A bounce goes on without its body (prdr_body).
OneCell   == \A k, j \in accepted : owner[k] = owner[j]
SentWhole ==
  OneCell =>
    \A k \in DOMAIN sent : \A i \in DOMAIN sent[k] :
      sent[k][i][3] \subseteq IF sender = "null" THEN {"body"} ELSE {}

\* When a message has been accepted, the last run for a recipient has done what the
\* script in its file said then, all of it, once and in its order: no run has been left
\* waiting for a stage, and nothing is left over from failed runs or from other
\* recipients, nor from a script that has been replaced.  Excepted are scripts that have
\* tested what is missing, in a bounce or when the recipients have different cells.
ActionsOf(s, k) == Chosen(Program[s][address[k]], Action)
Misled(k)       == \E i \in DOMAIN Program[last[k]][address[k]] :
                     Program[last[k]][address[k]][i] \in Misleading
ScriptsAreCarriedOut ==
  phase = "accepted" =>
    \A k \in accepted :
      \/ effects[k] = ActionsOf(last[k], k)
      \/ Misled(k) /\ (sender = "null" \/ ~OneCell)

\* No mail is sent twice for a recipient, though its script may run at three stages
\* and the cell for several recipients (sieve::Run).
MailedOnce ==
  \A k \in DOMAIN sent : sent[k] # <<>> =>
    Len(sent[k]) <= Len(Chosen(ActionsOf(last[k], k), {"redirect", "vacation"}))

\* What has been carried out for a recipient is not undone or done otherwise when its
\* script is run again at a later stage, which another recipient of the cell has asked
\* for (sieve_local::desired_stages, sieve::Run).  A file that has been replaced does
\* what it says now, and so may a header test on an empty message.
DoneStaysDone ==
  [][\A k \in DOMAIN effects :
       /\ effects[k] # <<>> /\ effects[k] = ActionsOf(last[k], k)
       /\ GetScript(cached, address[k]) \notin replaced /\ "headers" \notin lost
       => effects'[k] = effects[k]]_vars

-----------------------------------------------------------------------------
(***************************************************************************)
(* What the documentation or a comment says and the code does not do.      *)
(***************************************************************************)

\* core.cpp:170: the scope of an included personal script is private, to the recipient
\* its name is looked up for.
IncludesAreOwn == \A k \in DOMAIN included : included[k] \subseteq {address[k]}
=============================================================================
