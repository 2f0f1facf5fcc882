--------------------------------- MODULE Arf ---------------------------------
(***************************************************************************)
(* mod_arf: somebody has marked mail from a list as spam, the provider     *)
(* sends a complaint, and the module removes the address from the list and *)
(* its sub-lists and tells the owners.  libmilter serves every connection  *)
(* in a thread of its own, so that complaints are processed concurrently;  *)
(* the module has a mutex.  The lists are kept by LISTSERV, which others   *)
(* use too; a key in memcached says that an address has been removed.      *)
(*                                                                         *)
(* One action is one call to LISTSERV or memcached.  Either may fail, and  *)
(* the module does not look at it: an answer of LISTSERV that is an error  *)
(* stands for a subscription, and a removal that did not happen is told of *)
(* like one that did.  The daemon may die between two calls; the provider  *)
(* then sends the complaint again, or it does not.                         *)
(***************************************************************************)
EXTENDS Integers, Sequences

CONSTANTS
  Worker,         \* threads of libmilter
  List, Email,
  Sublists,       \* Sublists[l]: the keyword of list l, as LISTSERV returns it
  None,           \* nobody holds the mutex
  MaxComplaints,  \* bound: complaints
  MaxChanges,     \* bound: what subscribers and owners do
  MaxLosses       \* bound: crashes, keys that expire, calls that fail

Pair == List \X Email
Step == {"idle", "locking", "asking", "checking", "removing", "inserting", "telling",
         "unlocking"}

\* Mutant of the next operator: the last sub-list is not looked at.
Deep_ButLast(l) == IF Sublists[l] = <<>> THEN <<l>>
                   ELSE <<l>> \o SubSeq(Sublists[l], 1, Len(Sublists[l]) - 1)

\* The lists remove_email_from_list_deep looks at, in its order.
Deep(l) == <<l>> \o Sublists[l]

ASSUME ArfAssumption ==
  /\ Sublists \in [List -> Seq(List)] /\ List # {} /\ Email # {}
  /\ None \notin Worker
  /\ MaxComplaints \in Nat /\ MaxChanges \in Nat /\ MaxLosses \in Nat

\* LISTSERV does not return a list among its own sub-lists.
ASSUME SublistsDiffer == \A l \in List : \A i \in DOMAIN Sublists[l] : Sublists[l][i] # l

VARIABLES
  members,     \* external: who is subscribed to what
  keys,        \* external: the keys in memcached
  mutex,       \* arf::mutex
  step,        \* what a thread does next
  complaint,   \* the <<list, address>> it is about
  todo,        \* lists to check, or to remove the address from
  ret,         \* the lists the address was found in
  complaints, changes, losses,   \* so far
  joined,      \* history: how often an address has been subscribed
  slips,       \* history: how often LISTSERV failed to say that it is not subscribed, or
               \* to remove it
  told,        \* history: how often its removal has been told
  removed,     \* history: removals whose key memcached has not lost since
  kept         \* history: since the thread got the mutex, subscriptions that others have
               \* made and those LISTSERV has not removed

thread  == <<step, complaint, todo, ret>>
bounds  == <<complaints, changes, losses>>
history == <<joined, slips, told, removed, kept>>
vars    == <<members, keys, mutex, thread, bounds, history>>

Init ==
  /\ members \in SUBSET Pair /\ keys = {} /\ mutex = None
  /\ step = [w \in Worker |-> "idle"]
  /\ complaint = [w \in Worker |-> CHOOSE p \in Pair : TRUE]
  /\ todo = [w \in Worker |-> <<>>] /\ ret = [w \in Worker |-> <<>>]
  /\ complaints = 0 /\ changes = 0 /\ losses = 0
  /\ joined = [p \in Pair |-> IF p \in members THEN 1 ELSE 0]
  /\ slips = [p \in Pair |-> 0] /\ told = [p \in Pair |-> 0] /\ removed = {}
  /\ kept = [w \in Worker |-> {}]

-----------------------------------------------------------------------------
Goto(w, s) == step' = [step EXCEPT ![w] = s]

\* A call fails.
Fail == losses < MaxLosses /\ losses' = losses + 1

\* Run for a complaint at the end of the message, up to the mutex.  Complaints about
\* senders that are not lists only cause a mail to the mail team and are left out.
Complain(w, p) ==
  /\ step[w] = "idle" /\ complaints < MaxComplaints
  /\ complaints' = complaints + 1
  /\ complaint' = [complaint EXCEPT ![w] = p]
  /\ Goto(w, "locking")
  /\ UNCHANGED <<members, keys, mutex, todo, ret, changes, losses, history>>

\* Mutant of the next operator: there is no mutex.
Free_Always == TRUE

Free == mutex = None

Lock(w) ==
  /\ step[w] = "locking" /\ Free
  /\ mutex' = w /\ Goto(w, "asking")
  /\ kept' = [kept EXCEPT ![w] = {}]
  /\ UNCHANGED <<members, keys, complaint, todo, ret, bounds, joined, slips, told, removed>>

\* Where the function goes when the address has been removed before; the mutant
\* returns without the mutex being released.
Known_Returns == "idle"
Known         == "unlocking"

\* ListQuery ("memcached", ...): a failed query is taken for a missing key.
Ask(w) ==
  /\ step[w] = "asking"
  /\ \/ /\ Goto(w, IF complaint[w] \in keys THEN Known ELSE "checking")
        /\ UNCHANGED <<losses, removed>>
     \/ /\ Fail /\ removed' = removed \ {complaint[w]}
        /\ Goto(w, "checking")
  /\ todo' = [todo EXCEPT ![w] = Deep(complaint[w][1])]
  /\ ret' = [ret EXCEPT ![w] = <<>>]
  /\ UNCHANGED <<members, keys, mutex, complaint, complaints, changes, joined, slips,
                 told, kept>>

\* The subscription a query, or a turn of the loop of remove_email_from_list, is about.
Current(w) == <<Head(todo[w]), complaint[w][2]>>

\* remove_email_from_list_deep: one query "listserv-check-subscriber".  LISTSERV says
\* in words starting with T that somebody is not subscribed, and any other answer, an
\* error too, is taken for the opposite (listserv_check_subscriber).
Check(w) ==
  /\ step[w] = "checking" /\ todo[w] # <<>>
  /\ \/ /\ ret' = [ret EXCEPT ![w] = IF Current(w) \in members
                                     THEN Append(@, Head(todo[w])) ELSE @]
        /\ UNCHANGED <<losses, slips>>
     \/ /\ Current(w) \notin members /\ Fail
        /\ ret' = [ret EXCEPT ![w] = Append(@, Head(todo[w]))]
        /\ slips' = [slips EXCEPT ![Current(w)] = @ + 1]
  /\ todo' = [todo EXCEPT ![w] = Tail(@)]
  /\ UNCHANGED <<members, keys, mutex, step, complaint, complaints, changes, joined, told,
                 removed, kept>>

\* Mutant of the next operator: an empty result is not noticed.
AfterChecks_Always(w) == "removing"

\* The address is nowhere, and the mail team is told; or the removals begin.
AfterChecks(w) == IF ret[w] = <<>> THEN "unlocking" ELSE "removing"

Checked(w) ==
  /\ step[w] = "checking" /\ todo[w] = <<>>
  /\ Goto(w, AfterChecks(w))
  /\ todo' = [todo EXCEPT ![w] = ret[w]]
  /\ UNCHANGED <<members, keys, mutex, complaint, ret, bounds, history>>

\* ListRemove ("listserv", ...), whose result nobody looks at.
Remove(w) ==
  /\ step[w] = "removing"
  /\ \/ /\ members' = members \ {Current(w)}
        /\ UNCHANGED <<losses, slips, kept>>
     \/ /\ Current(w) \in members /\ Fail
        /\ slips' = [slips EXCEPT ![Current(w)] = @ + 1]
        /\ kept' = [kept EXCEPT ![w] = @ \cup {Current(w)}]
        /\ UNCHANGED members
  /\ Goto(w, "inserting")
  /\ UNCHANGED <<keys, mutex, complaint, todo, ret, complaints, changes, joined, told,
                 removed>>

\* Mutant of the next operator: the key is made for the list complained about.
Key_OfTheComplaint(w) == complaint[w]

Key(w) == Current(w)

\* ListInsert ("memcached", ...).
Insert(w) ==
  /\ step[w] = "inserting"
  /\ keys' = keys \cup {Key(w)} /\ removed' = removed \cup {Current(w)}
  /\ todo' = [todo EXCEPT ![w] = Tail(@)]
  /\ Goto(w, IF Len(todo[w]) = 1 THEN "telling" ELSE "removing")
  /\ UNCHANGED <<members, mutex, complaint, ret, bounds, joined, slips, told, kept>>

\* Subscriptions named in the mail to the owners.
Named(w) == {<<ret[w][i], complaint[w][2]>> : i \in DOMAIN ret[w]}

\* email_subscribed_to_list: one mail for all lists in ret.
Tell(w) ==
  /\ step[w] = "telling" /\ Goto(w, "unlocking")
  /\ told' = [p \in Pair |-> told[p] + (IF p \in Named(w) THEN 1 ELSE 0)]
  /\ UNCHANGED <<members, keys, mutex, complaint, todo, ret, bounds, joined, slips,
                 removed, kept>>

Unlock(w) ==
  /\ step[w] = "unlocking" /\ mutex' = None /\ Goto(w, "idle")
  /\ UNCHANGED <<members, keys, complaint, todo, ret, bounds, history>>

Process(w) ==
  Lock(w) \/ Ask(w) \/ Check(w) \/ Checked(w) \/ Remove(w) \/ Insert(w) \/ Tell(w)
    \/ Unlock(w)

-----------------------------------------------------------------------------
\* The daemon dies and is started again; memcached is another process.
Crash ==
  /\ Fail
  /\ mutex' = None
  /\ step' \in {s \in [Worker -> {"idle", "locking"}] :
                  \A w \in Worker : step[w] = "idle" => s[w] = "idle"}
  /\ UNCHANGED <<members, keys, complaint, todo, ret, complaints, changes, history>>

\* An owner or a subscriber changes a subscription.
Subscribe(p) ==
  /\ p \notin members /\ changes < MaxChanges /\ changes' = changes + 1
  /\ members' = members \cup {p} /\ joined' = [joined EXCEPT ![p] = @ + 1]
  /\ kept' = [w \in Worker |-> kept[w] \cup {p}]
  /\ UNCHANGED <<keys, mutex, thread, complaints, losses, slips, told, removed>>

Unsubscribe(p) ==
  /\ p \in members /\ changes < MaxChanges /\ changes' = changes + 1
  /\ members' = members \ {p}
  /\ UNCHANGED <<keys, mutex, thread, complaints, losses, history>>

\* After 29 days, or at once, when memcached did not accept it.
Expire(p) ==
  /\ p \in keys /\ Fail
  /\ keys' = keys \ {p} /\ removed' = removed \ {p}
  /\ UNCHANGED <<members, mutex, thread, complaints, changes, joined, slips, told,
                 kept>>

\* No more complaints come; ComplaintsEnd says that those there are get an end.
Over == complaints = MaxComplaints /\ UNCHANGED vars

Next ==
  \/ \E w \in Worker : Process(w) \/ \E p \in Pair : Complain(w, p)
  \/ \E p \in Pair : Subscribe(p) \/ Unsubscribe(p) \/ Expire(p)
  \/ Crash \/ Over

\* libmilter's threads run on; a complaint in a thread that waits for the mutex gets
\* it when no other complaint comes in between.
Fairness == \A w \in Worker : WF_vars(Process(w))

Spec == Init /\ [][Next]_vars /\ Fairness

-----------------------------------------------------------------------------
(***************************************************************************)
(* Properties that the code is meant to have and has.                      *)
(***************************************************************************)
TypeOK ==
  /\ members \subseteq Pair /\ keys \subseteq Pair /\ mutex \in Worker \cup {None}
  /\ step \in [Worker -> Step] /\ complaint \in [Worker -> Pair]
  /\ todo \in [Worker -> Seq(List)] /\ ret \in [Worker -> Seq(List)]
  /\ \A w \in Worker : step[w] \in {"removing", "inserting"} => todo[w] # <<>>
  /\ complaints \in 0..MaxComplaints /\ changes \in 0..MaxChanges
  /\ losses \in 0..MaxLosses
  /\ joined \in [Pair -> Nat] /\ told \in [Pair -> Nat] /\ removed \subseteq Pair
  /\ slips \in [Pair -> Nat] /\ kept \in [Worker -> SUBSET Pair]

\* Every mail to the owners has a cause of its own, a subscription, an error taken for
\* one, or a removal that did not happen: two complaints about one subscription, in
\* whatever threads, do not both find it and both send the mail (Run's lock).
ToldOnce == \A p \in Pair : told[p] <= joined[p] + slips[p]

\* A removed address whose owner has subscribed it again is not removed a second time
\* for complaints about that list, as long as memcached knows of the removal, which may
\* have been one from a sub-list (Run, lines 273-277, remove_email_from_list).
NotRemovedAgain ==
  \A w \in Worker :
    step[w] = "removing" /\ Current(w) = complaint[w] => Current(w) \notin removed

\* When the owners have been told, the address is subscribed neither to the list nor
\* to a sub-list, but for subscriptions made meanwhile, and those LISTSERV was asked to
\* remove and did not: no list is overlooked (remove_email_from_list_deep).
NoneLeft ==
  \A w \in Worker : step[w] = "unlocking" /\ ret[w] # <<>> =>
    \A l \in {complaint[w][1]} \cup {Sublists[complaint[w][1]][i] :
                                      i \in DOMAIN Sublists[complaint[w][1]]} :
      <<l, complaint[w][2]>> \in members => <<l, complaint[w][2]>> \in kept[w]

\* Every complaint is dealt with: no path keeps the mutex.
ComplaintsEnd == \A w \in Worker : step[w] = "locking" ~> step[w] = "idle"
=============================================================================
