------------------------------ MODULE ArfProofs ------------------------------
(***************************************************************************)
(* Theorems about Arf for any threads, lists, addresses and sub-lists, any *)
(* number of complaints, changes of subscriptions, crashes and lost keys.  *)
(*                                                                         *)
(* An address is told of at most as often as it was subscribed, or         *)
(* LISTSERV failed to say that it is not, or to remove it: Due.  A thread  *)
(* that has found a subscription owes the owners a mail: until it has been *)
(* sent, something due is left over to account for it, and if the address  *)
(* is subscribed after its removal, one more.                              *)
(***************************************************************************)
EXTENDS Arf, TLAPS

\* The members of a list of lists.
Listed(s) == {s[i] : i \in DOMAIN s}

\* The steps in which a thread has the mutex.
Critical  == Step \ {"idle", "locking"}
Exclusive == \A w \in Worker : step[w] \in Critical => mutex = w

\* The lists a thread has yet to remove the address from.
ToRemove(w) ==
  CASE step[w] = "removing"  -> Listed(todo[w])
    [] step[w] = "inserting" -> Listed(Tail(todo[w]))
    [] step[w] = "telling"   -> {}
    [] OTHER                 -> List

Pending == {"checking", "removing", "inserting", "telling"}

Due(p) == joined[p] + slips[p]

OwedFor(w, l, p) ==
  /\ told[p] < Due(p)
  /\ l \notin ToRemove(w) /\ p \in members => told[p] + 1 < Due(p)
Owed(w) ==
  step[w] \in Pending =>
    \A l \in Listed(ret[w]) : OwedFor(w, l, <<l, complaint[w][2]>>)

\* A subscription there is has not been told of.
Credit == \A p \in Pair : told[p] <= Due(p) /\ (p \in members => told[p] < Due(p))

ArfInv == TypeOK /\ Exclusive /\ Credit /\ \A w \in Worker : Owed(w)

-----------------------------------------------------------------------------
\* What Head, Tail and Append do to the members.
LEMMA ListedFacts ==
  ASSUME NEW s \in Seq(List), NEW l \in List
  PROVE  /\ Listed(s) \subseteq List /\ Listed(<<>>) = {}
         /\ Listed(Append(s, l)) = Listed(s) \cup {l} /\ Append(s, l) \in Seq(List)
         /\ s # <<>> => /\ Head(s) \in List /\ Tail(s) \in Seq(List)
                        /\ Listed(s) = Listed(Tail(s)) \cup {Head(s)}
                        /\ Len(s) = 1 => Listed(Tail(s)) = {}
                        /\ Len(s) # 1 => Tail(s) # <<>>
<1>1. Listed(s) \subseteq List /\ Listed(<<>>) = {}
  BY DEF Listed
<1>2. Append(s, l) \in Seq(List)
  OBVIOUS
<1>3. Listed(Append(s, l)) = Listed(s) \cup {l}
  <2>1. DOMAIN Append(s, l) = DOMAIN s \cup {Len(s) + 1}
    OBVIOUS
  <2>2. Append(s, l)[Len(s) + 1] = l /\ \A i \in DOMAIN s : Append(s, l)[i] = s[i]
    OBVIOUS
  <2> QED BY <2>1, <2>2 DEF Listed
<1>4. ASSUME s # <<>>
      PROVE  /\ Head(s) \in List /\ Tail(s) \in Seq(List)
             /\ Listed(s) = Listed(Tail(s)) \cup {Head(s)}
             /\ Len(s) = 1 => Listed(Tail(s)) = {}
             /\ Len(s) # 1 => Tail(s) # <<>>
  <2>1. Len(s) \in Nat /\ Len(s) >= 1 /\ DOMAIN s = 1..Len(s) /\ Head(s) = s[1]
    BY <1>4
  <2>2. Tail(s) \in Seq(List) /\ DOMAIN Tail(s) = 1..(Len(s) - 1)
        /\ Len(Tail(s)) = Len(s) - 1
    BY <1>4
  <2>3. \A i \in 1..(Len(s) - 1) : Tail(s)[i] = s[i + 1]
    BY <1>4
  <2>4. Listed(s) \subseteq Listed(Tail(s)) \cup {Head(s)}
    <3> SUFFICES ASSUME NEW i \in 1..Len(s) PROVE s[i] \in Listed(Tail(s)) \cup {Head(s)}
      BY <2>1 DEF Listed
    <3>1. CASE i = 1
      BY <2>1, <3>1
    <3>2. CASE i # 1
      <4>1. i - 1 \in 1..(Len(s) - 1) /\ Tail(s)[i - 1] = s[i]
        BY <2>1, <2>3, <3>2
      <4> QED BY <2>2, <4>1 DEF Listed
    <3> QED BY <3>1, <3>2
  <2>5. Listed(Tail(s)) \cup {Head(s)} \subseteq Listed(s)
    <3>1. Head(s) \in Listed(s)
      BY <2>1 DEF Listed
    <3>2. ASSUME NEW i \in 1..(Len(s) - 1) PROVE Tail(s)[i] \in Listed(s)
      <4>1. i + 1 \in DOMAIN s /\ Tail(s)[i] = s[i + 1]
        BY <2>1, <2>3
      <4> QED BY <4>1 DEF Listed
    <3> QED BY <2>2, <3>1, <3>2 DEF Listed
  <2>6. Len(s) = 1 => Listed(Tail(s)) = {}
    BY <2>1, <2>2 DEF Listed
  <2>7. Len(s) # 1 => Tail(s) # <<>>
    BY <2>1, <2>2
  <2> QED BY <2>1, <2>2, <2>4, <2>5, <2>6, <2>7
<1> QED BY <1>1, <1>2, <1>3, <1>4

\* While a thread has the mutex, nobody else owes a mail or begins to.
LEMMA OthersOwe ==
  ASSUME ArfInv, NEW w \in Worker, step[w] \in Critical,
         \A v \in Worker \ {w} : step'[v] = step[v]
  PROVE  \A v \in Worker \ {w} : step'[v] \notin Critical /\ Owed(v)'
<1>1. \A v \in Worker \ {w} : step[v] \notin Critical
  BY DEF ArfInv, Exclusive
<1>2. Pending \subseteq Critical
  BY DEF Pending, Critical, Step
<1> QED BY <1>1, <1>2 DEF Owed

\* A thread that is not about to tell anybody owes nothing.
LEMMA OwesNothing ==
  ASSUME NEW w \in Worker, step'[w] \notin Pending
  PROVE  Owed(w)'
  BY DEF Owed

\* What is left of a call of a thread with the mutex: the thread's own part.
LEMMA HolderKeeps ==
  ASSUME ArfInv, NEW w \in Worker, step[w] \in Critical, NEW s \in Step, Goto(w, s),
         mutex' = mutex, TypeOK', Credit', Owed(w)'
  PROVE  ArfInv'
<1>1. step' = [step EXCEPT ![w] = s] /\ step \in [Worker -> Step]
  BY DEF Goto, ArfInv, TypeOK
<1>2. \A v \in Worker \ {w} : step'[v] = step[v]
  BY <1>1
<1>3. \A v \in Worker \ {w} : step'[v] \notin Critical /\ Owed(v)'
  BY <1>2, OthersOwe
<1>4. mutex' = w
  BY DEF ArfInv, Exclusive
<1>5. Exclusive'
  BY <1>3, <1>4 DEF Exclusive
<1> QED BY <1>3, <1>5 DEF ArfInv

\* The counters count: what is due is a number, and one more failure adds one.
LEMMA DueType == ASSUME TypeOK, NEW p \in Pair PROVE Due(p) \in Nat /\ told[p] \in Nat
<1>1. joined[p] \in Nat /\ slips[p] \in Nat /\ told[p] \in Nat
  BY DEF TypeOK
<1> QED BY <1>1 DEF Due

LEMMA DueGrows ==
  ASSUME TypeOK, NEW q \in Pair, joined' = joined, slips' = [slips EXCEPT ![q] = @ + 1]
  PROVE  /\ slips' \in [Pair -> Nat] /\ Due(q)' = Due(q) + 1
         /\ \A p \in Pair : Due(p)' \in Nat /\ Due(p)' >= Due(p)
<1>1. slips \in [Pair -> Nat] /\ joined \in [Pair -> Nat]
  BY DEF TypeOK
<1>2. slips' \in [Pair -> Nat] /\ slips'[q] = slips[q] + 1
      /\ \A p \in Pair : p # q => slips'[p] = slips[p]
  BY <1>1
<1>3. slips[q] \in Nat /\ joined[q] \in Nat
  BY <1>1
<1>4. ASSUME NEW p \in Pair PROVE Due(p)' \in Nat /\ Due(p)' >= Due(p)
  <2>1. slips[p] \in Nat /\ joined[p] \in Nat /\ slips'[p] \in {slips[p], slips[p] + 1}
    BY <1>1, <1>2
  <2> QED BY <2>1 DEF Due
<1> QED BY <1>2, <1>3, <1>4 DEF Due

\* One more failure is within the bound.
LEMMA FailType == ASSUME TypeOK, Fail PROVE losses' \in 0..MaxLosses
<1>1. losses \in Nat /\ losses < MaxLosses /\ losses' = losses + 1 /\ MaxLosses \in Nat
  BY ArfAssumption DEF TypeOK, Fail
<1> QED BY <1>1

-----------------------------------------------------------------------------
\* The constants: Deep is a sequence of lists.
LEMMA DeepType == ASSUME NEW l \in List PROVE Deep(l) \in Seq(List)
<1>1. Sublists[l] \in Seq(List) /\ <<l>> \in Seq(List)
  BY ArfAssumption
<1> QED BY <1>1 DEF Deep

\* At the beginning there is one subscription for every member and nothing is told.
LEMMA ArfInit == Init => ArfInv
<1> SUFFICES ASSUME Init PROVE ArfInv
  OBVIOUS
<1>1. step = [w \in Worker |-> "idle"] /\ mutex = None /\ members \in SUBSET Pair
  BY DEF Init
<1>2. \E p \in Pair : TRUE
  <2>1. PICK l \in List, e \in Email : TRUE
    BY ArfAssumption
  <2>2. <<l, e>> \in Pair
    BY <2>1 DEF Pair
  <2> QED BY <2>2
<1>3. (CHOOSE p \in Pair : TRUE) \in Pair
  BY <1>2
<1>4. complaint \in [Worker -> Pair]
  BY <1>3 DEF Init
<1>5. todo \in [Worker -> Seq(List)] /\ ret \in [Worker -> Seq(List)]
  BY DEF Init
<1>6. complaints \in 0..MaxComplaints /\ changes \in 0..MaxChanges
      /\ losses \in 0..MaxLosses
  BY ArfAssumption DEF Init
<1>7. joined \in [Pair -> Nat] /\ told \in [Pair -> Nat] /\ removed \subseteq Pair
      /\ slips \in [Pair -> Nat] /\ kept \in [Worker -> SUBSET Pair] /\ keys \subseteq Pair
  BY DEF Init
<1>8. TypeOK
  BY <1>1, <1>4, <1>5, <1>6, <1>7 DEF TypeOK, Step
<1>9. Credit
  BY DEF Init, Credit, Due
<1>10. Exclusive /\ \A w \in Worker : Owed(w)
  BY <1>1 DEF Exclusive, Critical, Owed, Pending
<1> QED BY <1>8, <1>9, <1>10 DEF ArfInv

\* A complaint comes; the thread does not have the mutex yet.
LEMMA ComplainKeeps ==
  ASSUME ArfInv, NEW w \in Worker, NEW p \in Pair, Complain(w, p)
  PROVE  ArfInv'
<1>1. /\ step[w] = "idle" /\ step' = [step EXCEPT ![w] = "locking"]
      /\ complaint' = [complaint EXCEPT ![w] = p]
      /\ complaints < MaxComplaints /\ complaints' = complaints + 1
      /\ UNCHANGED <<members, keys, mutex, todo, ret, changes, losses, joined, slips, told,
                     removed, kept>>
  BY DEF Complain, Goto, history
<1>2. TypeOK
  BY DEF ArfInv
<1>3. complaints' \in 0..MaxComplaints
  BY <1>1, <1>2, ArfAssumption DEF TypeOK
<1>4. step' \in [Worker -> Step] /\ complaint' \in [Worker -> Pair]
  BY <1>1, <1>2 DEF TypeOK, Step
<1>5. \A v \in Worker \ {w} : step'[v] = step[v] /\ complaint'[v] = complaint[v]
  BY <1>1, <1>2 DEF TypeOK
<1>6. step'[w] = "locking"
  BY <1>1, <1>2 DEF TypeOK
<1>7. TypeOK'
  BY <1>1, <1>2, <1>3, <1>4, <1>5, <1>6 DEF TypeOK
<1>8. Exclusive' /\ Credit'
  BY <1>1, <1>5, <1>6 DEF ArfInv, Exclusive, Credit, Due, Critical
<1>9. ASSUME NEW v \in Worker \ {w} PROVE Owed(v)'
  BY <1>1, <1>5 DEF ArfInv, Owed, OwedFor, Due, ToRemove
<1>10. Owed(w)'
  BY <1>6, OwesNothing DEF Pending
<1> QED BY <1>7, <1>8, <1>9, <1>10 DEF ArfInv

\* The mutex was free, so that no thread was in a critical step.
LEMMA LockKeeps == ASSUME ArfInv, NEW w \in Worker, Lock(w) PROVE ArfInv'
<1>1. /\ step[w] = "locking" /\ step' = [step EXCEPT ![w] = "asking"]
      /\ mutex = None /\ mutex' = w /\ kept' = [kept EXCEPT ![w] = {}]
      /\ UNCHANGED <<members, keys, complaint, todo, ret, complaints, changes, losses,
                     joined, slips, told, removed>>
  BY DEF Lock, Free, Goto, bounds
<1>2. TypeOK
  BY DEF ArfInv
<1>3. \A v \in Worker : step[v] \notin Critical
  BY <1>1, ArfAssumption DEF ArfInv, Exclusive
<1>4. step'[w] = "asking" /\ \A v \in Worker \ {w} : step'[v] = step[v]
  BY <1>1, <1>2 DEF TypeOK
<1>5. TypeOK'
  BY <1>1, <1>2, <1>4 DEF TypeOK, Step
<1>6. Exclusive' /\ Credit'
  BY <1>1, <1>3, <1>4 DEF ArfInv, Exclusive, Credit, Due
<1>7. \A v \in Worker : step'[v] \notin Pending
  BY <1>3, <1>4 DEF Pending, Critical, Step
<1> QED BY <1>5, <1>6, <1>7, OwesNothing DEF ArfInv

\* The query begins with nothing found.
LEMMA AskKeeps == ASSUME ArfInv, NEW w \in Worker, Ask(w) PROVE ArfInv'
<1>1. /\ step[w] = "asking" /\ complaint[w] \in Pair
      /\ todo' = [todo EXCEPT ![w] = Deep(complaint[w][1])]
      /\ ret' = [ret EXCEPT ![w] = <<>>]
      /\ UNCHANGED <<members, keys, mutex, complaint, complaints, changes, joined, slips,
                     told, kept>>
  BY DEF Ask, ArfInv, TypeOK
<1>2. PICK s \in {"checking", "unlocking"} : Goto(w, s)
  BY DEF Ask, Known
<1>3. TypeOK
  BY DEF ArfInv
<1>4. losses' \in 0..MaxLosses /\ removed' \subseteq Pair
  BY <1>3, ArfAssumption DEF Ask, Fail, TypeOK
<1>5. Deep(complaint[w][1]) \in Seq(List)
  BY <1>1, DeepType DEF Pair
<1>6. step' = [step EXCEPT ![w] = s] /\ step'[w] = s /\ ret'[w] = <<>>
      /\ \A v \in Worker \ {w} : step'[v] = step[v] /\ todo'[v] = todo[v]
  BY <1>1, <1>2, <1>3 DEF Goto, TypeOK
<1>7. TypeOK'
  <2>1. step' \in [Worker -> Step] /\ todo' \in [Worker -> Seq(List)]
        /\ ret' \in [Worker -> Seq(List)]
    BY <1>1, <1>3, <1>5, <1>6 DEF TypeOK, Step
  <2> QED BY <1>1, <1>3, <1>4, <1>6, <2>1 DEF TypeOK
<1>8. Credit'
  BY <1>1 DEF ArfInv, Credit, Due
<1>9. Owed(w)'
  BY <1>6 DEF Owed, Listed
<1> QED BY <1>1, <1>2, <1>7, <1>8, <1>9, HolderKeeps DEF Critical, Step

\* What is found is subscribed, and so there is credit for it.
LEMMA CheckKeeps == ASSUME ArfInv, NEW w \in Worker, Check(w) PROVE ArfInv'
<1> DEFINE l == Head(todo[w])
<1>1. /\ step[w] = "checking" /\ todo[w] # <<>> /\ todo' = [todo EXCEPT ![w] = Tail(@)]
      /\ UNCHANGED <<members, keys, mutex, step, complaint, complaints, changes, joined,
                     told, removed, kept>>
  BY DEF Check
<1>2. TypeOK
  BY DEF ArfInv
<1>3. todo[w] \in Seq(List) /\ ret[w] \in Seq(List) /\ complaint[w] \in Pair
  BY <1>2 DEF TypeOK
<1>4. l \in List /\ Tail(todo[w]) \in Seq(List)
  BY <1>1, <1>3
<1>q. PICK q \in Pair : q = <<l, complaint[w][2]>>
  BY <1>3, <1>4 DEF Pair
<1>5. Append(ret[w], l) \in Seq(List) /\ Listed(Append(ret[w], l)) = Listed(ret[w]) \cup {l}
  BY <1>3, <1>4, ListedFacts
<1>6. \/ ret' = ret /\ losses' = losses /\ slips' = slips
      \/ /\ ret' = [ret EXCEPT ![w] = Append(ret[w], l)] /\ losses' = losses
         /\ q \in members /\ slips' = slips
      \/ /\ ret' = [ret EXCEPT ![w] = Append(ret[w], l)]
         /\ Fail /\ slips' = [slips EXCEPT ![q] = @ + 1]
  <2>1. [ret EXCEPT ![w] = ret[w]] = ret
    BY <1>2 DEF TypeOK
  <2> QED BY <1>q, <2>1 DEF Check, Current
<1>7. /\ slips' \in [Pair -> Nat] /\ losses' \in 0..MaxLosses
      /\ \A p \in Pair : Due(p)' \in Nat /\ Due(p)' >= Due(p)
  <2>1. CASE slips' = slips /\ losses' = losses
    <3>1. \A p \in Pair : Due(p)' = Due(p) /\ Due(p) \in Nat
      BY <1>1, <1>2, <2>1, DueType DEF Due
    <3>2. \A p \in Pair : Due(p)' \in Nat /\ Due(p)' >= Due(p)
      BY <3>1
    <3> QED BY <1>2, <2>1, <3>2 DEF TypeOK
  <2>2. CASE Fail /\ slips' = [slips EXCEPT ![q] = @ + 1]
    BY <1>1, <1>2, <2>2, DueGrows, FailType
  <2> QED BY <1>6, <2>1, <2>2
<1>8. TypeOK'
  <2>1. todo' \in [Worker -> Seq(List)]
    BY <1>1, <1>2, <1>4 DEF TypeOK
  <2>2. ret' = ret \/ ret' = [ret EXCEPT ![w] = Append(ret[w], l)]
    BY <1>6
  <2>3. ret' \in [Worker -> Seq(List)]
    BY <1>2, <1>5, <2>2 DEF TypeOK
  <2>4. \A v \in Worker : step[v] \in {"removing", "inserting"} => todo'[v] # <<>>
    BY <1>1, <1>2 DEF TypeOK
  <2> QED BY <1>1, <1>2, <1>7, <2>1, <2>3, <2>4 DEF TypeOK
<1>9. \A p \in Pair : Due(p) \in Nat /\ told[p] \in Nat
  BY <1>2, DueType
<1>10. Credit'
  <2> SUFFICES ASSUME NEW p \in Pair
               PROVE  told[p] <= Due(p)' /\ (p \in members => told[p] < Due(p)')
    BY <1>1 DEF Credit
  <2>1. told[p] <= Due(p) /\ (p \in members => told[p] < Due(p))
    BY DEF ArfInv, Credit
  <2> QED BY <1>7, <1>9, <2>1
<1>11. Owed(w)'
  <2> SUFFICES ASSUME NEW k \in Listed(ret'[w])
               PROVE  OwedFor(w, k, <<k, complaint[w][2]>>)'
    BY <1>1 DEF Owed
  <2>1. ToRemove(w)' = List /\ Listed(ret'[w]) \subseteq List
    <3>1. ret'[w] \in Seq(List)
      BY <1>8 DEF TypeOK
    <3> QED BY <1>1, <1>4, <3>1, ListedFacts DEF ToRemove
  <2>2. PICK p \in Pair : p = <<k, complaint[w][2]>>
    BY <1>3, <2>1 DEF Pair
  <2>3. told[p] < Due(p)'
    <3>1. CASE k \in Listed(ret[w])
      <4>1. OwedFor(w, k, p)
        BY <1>1, <2>2, <3>1 DEF ArfInv, Owed, Pending
      <4>2. told[p] < Due(p)
        BY <4>1 DEF OwedFor
      <4> QED BY <1>7, <1>9, <4>2
    <3>2. CASE k \notin Listed(ret[w])
      <4>1. p = q /\ ret' # ret
        <5>1. ret' # ret
          BY <3>2
        <5>2. ret' = [ret EXCEPT ![w] = Append(ret[w], l)]
          BY <1>6, <5>1
        <5>3. ret'[w] = Append(ret[w], l)
          BY <1>2, <5>2 DEF TypeOK
        <5> QED BY <1>5, <1>q, <2>2, <3>2, <5>1, <5>3
      <4>2. CASE q \in members /\ slips' = slips
        <5>1. told[q] < Due(q)
          BY <4>2 DEF ArfInv, Credit
        <5> QED BY <1>1, <4>1, <4>2, <5>1 DEF Due
      <4>3. CASE slips' = [slips EXCEPT ![q] = @ + 1]
        <5>1. told[q] <= Due(q)
          BY DEF ArfInv, Credit
        <5>2. Due(q)' = Due(q) + 1
          BY <1>1, <1>2, <4>3, DueGrows
        <5>3. Due(q) \in Nat /\ told[q] \in Nat
          BY <1>9
        <5> QED BY <4>1, <5>1, <5>2, <5>3
      <4> QED BY <1>6, <4>1, <4>2, <4>3
    <3> QED BY <3>1, <3>2
  <2>4. ToRemove(w)' = List /\ k \in List
    BY <2>1
  <2>5. p = <<k, complaint'[w][2]>> /\ told' = told
    BY <1>1, <2>2
  <2> QED BY <2>3, <2>4, <2>5 DEF OwedFor
<1>12. step' = [step EXCEPT ![w] = "checking"]
  BY <1>1, <1>2 DEF TypeOK
<1> QED BY <1>1, <1>8, <1>10, <1>11, <1>12, HolderKeeps DEF Critical, Step, Goto

\* The removals begin: no list found has been dealt with yet.
LEMMA CheckedKeeps == ASSUME ArfInv, NEW w \in Worker, Checked(w) PROVE ArfInv'
<1>1. /\ step[w] = "checking" /\ todo' = [todo EXCEPT ![w] = ret[w]]
      /\ UNCHANGED <<members, keys, mutex, complaint, ret, complaints, changes, losses,
                     joined, slips, told, removed, kept>>
  BY DEF Checked, bounds, history
<1>2. TypeOK
  BY DEF ArfInv
<1>3. PICK s \in {"removing", "unlocking"} : Goto(w, s) /\ (s = "removing" => ret[w] # <<>>)
  BY DEF Checked, AfterChecks
<1>4. /\ step' = [step EXCEPT ![w] = s] /\ step'[w] = s /\ todo'[w] = ret[w]
      /\ \A v \in Worker \ {w} : step'[v] = step[v] /\ todo'[v] = todo[v]
  BY <1>1, <1>2, <1>3 DEF Goto, TypeOK
<1>5. TypeOK'
  <2>1. step' \in [Worker -> Step] /\ todo' \in [Worker -> Seq(List)]
    BY <1>1, <1>2, <1>4 DEF TypeOK, Step
  <2> QED BY <1>1, <1>2, <1>3, <1>4, <2>1 DEF TypeOK
<1>6. Credit'
  BY <1>1 DEF ArfInv, Credit, Due
<1>7. Owed(w)'
  <2>1. CASE s = "unlocking"
    BY <1>4, <2>1, OwesNothing DEF Pending
  <2>2. CASE s = "removing"
    <3> SUFFICES ASSUME NEW l \in Listed(ret[w])
                 PROVE  OwedFor(w, l, <<l, complaint[w][2]>>)'
      BY <1>1 DEF Owed
    <3>1. ToRemove(w)' = Listed(ret[w])
      BY <1>4, <2>2 DEF ToRemove
    <3>2. OwedFor(w, l, <<l, complaint[w][2]>>)
      BY <1>1 DEF ArfInv, Owed, Pending
    <3> QED BY <1>1, <3>1, <3>2 DEF OwedFor, Due
  <2> QED BY <1>3, <2>1, <2>2
<1> QED BY <1>1, <1>3, <1>5, <1>6, <1>7, HolderKeeps DEF Critical, Step

\* The list that is done with no longer has the address, or LISTSERV has failed.
LEMMA RemoveKeeps == ASSUME ArfInv, NEW w \in Worker, Remove(w) PROVE ArfInv'
<1>1. /\ step[w] = "removing" /\ step' = [step EXCEPT ![w] = "inserting"]
      /\ UNCHANGED <<keys, mutex, complaint, todo, ret, complaints, changes, joined, told,
                     removed>>
  BY DEF Remove, Goto
<1>2. TypeOK /\ todo[w] \in Seq(List) /\ todo[w] # <<>> /\ complaint[w] \in Pair
  BY <1>1 DEF ArfInv, TypeOK
<1>3. step'[w] = "inserting" /\ \A v \in Worker \ {w} : step'[v] = step[v]
  BY <1>1, <1>2 DEF TypeOK
<1>4. PICK q \in Pair : q = <<Head(todo[w]), complaint[w][2]>>
  <2>1. Head(todo[w]) \in List
    BY <1>2
  <2> QED BY <1>2, <2>1 DEF Pair
<1>5. \/ members' = members \ {q} /\ UNCHANGED <<losses, slips, kept>>
      \/ /\ q \in members /\ members' = members
         /\ Fail /\ slips' = [slips EXCEPT ![q] = @ + 1]
         /\ kept' = [kept EXCEPT ![w] = @ \cup {q}]
  BY <1>4 DEF Remove, Current
<1>6. /\ slips' \in [Pair -> Nat] /\ losses' \in 0..MaxLosses
      /\ kept' \in [Worker -> SUBSET Pair] /\ members' \subseteq members
      /\ \A p \in Pair : Due(p)' \in Nat /\ Due(p)' >= Due(p)
  <2>1. CASE members' = members \ {q} /\ UNCHANGED <<losses, slips, kept>>
    <3>1. \A p \in Pair : Due(p)' = Due(p) /\ Due(p) \in Nat
      BY <1>1, <1>2, <2>1, DueType DEF Due
    <3>2. \A p \in Pair : Due(p)' >= Due(p)
      BY <3>1
    <3> QED BY <1>2, <2>1, <3>1, <3>2 DEF TypeOK
  <2>2. CASE /\ q \in members /\ members' = members
             /\ Fail /\ slips' = [slips EXCEPT ![q] = @ + 1]
             /\ kept' = [kept EXCEPT ![w] = @ \cup {q}]
    <3>1. slips' \in [Pair -> Nat] /\ \A p \in Pair : Due(p)' \in Nat /\ Due(p)' >= Due(p)
      BY <1>1, <1>2, <1>4, <2>2, DueGrows
    <3>2. kept' \in [Worker -> SUBSET Pair]
      BY <1>2, <1>4, <2>2 DEF TypeOK
    <3> QED BY <1>2, <2>2, <3>1, <3>2, FailType
  <2> QED BY <1>5, <2>1, <2>2
<1>7. TypeOK'
  BY <1>1, <1>2, <1>3, <1>6 DEF TypeOK, Step
<1>8. \A p \in Pair : /\ Due(p) \in Nat /\ told[p] \in Nat
                      /\ Due(p)' \in Nat /\ Due(p)' >= Due(p)
  BY <1>2, <1>6, DueType
<1>9. Credit'
  <2> SUFFICES ASSUME NEW p \in Pair
               PROVE  told[p] <= Due(p)' /\ (p \in members' => told[p] < Due(p)')
    BY <1>1 DEF Credit
  <2>1. told[p] <= Due(p) /\ (p \in members => told[p] < Due(p))
    BY DEF ArfInv, Credit
  <2> QED BY <1>6, <1>8, <2>1
<1>10. Owed(w)'
  <2> SUFFICES ASSUME NEW l \in Listed(ret[w])
               PROVE  OwedFor(w, l, <<l, complaint[w][2]>>)'
    BY <1>1 DEF Owed
  <2>1. ToRemove(w) = Listed(todo[w]) /\ ToRemove(w)' = Listed(Tail(todo[w]))
    BY <1>1, <1>3 DEF ToRemove
  <2>2. \E k \in List : TRUE
    BY ArfAssumption
  <2>3. ToRemove(w) = ToRemove(w)' \cup {Head(todo[w])}
    BY <1>2, <2>1, <2>2, ListedFacts
  <2>4. PICK p \in Pair : p = <<l, complaint[w][2]>>
    <3>1. ret[w] \in Seq(List)
      BY <1>2 DEF TypeOK
    <3>2. l \in List
      BY <2>2, <3>1, ListedFacts
    <3> QED BY <1>2, <3>2 DEF Pair
  <2>5. OwedFor(w, l, p)
    BY <1>1, <2>4 DEF ArfInv, Owed, Pending
  <2>6. told[p] < Due(p) /\ told[p] < Due(p)'
    BY <1>8, <2>5 DEF OwedFor
  <2>7. l \notin ToRemove(w)' /\ p \in members' => told[p] + 1 < Due(p)'
    <3>1. CASE p = q /\ q \in members'
      <4>1. slips' = [slips EXCEPT ![q] = @ + 1]
        BY <1>5, <3>1
      <4>2. Due(q)' = Due(q) + 1
        BY <1>1, <1>2, <4>1, DueGrows
      <4> QED BY <1>8, <2>6, <3>1, <4>2
    <3>2. CASE p # q /\ p \in members'
      <4>1. l # Head(todo[w])
        BY <1>4, <2>4, <3>2
      <4>2. l \notin ToRemove(w)' => l \notin ToRemove(w)
        BY <2>3, <4>1
      <4>3. l \notin ToRemove(w)' => told[p] + 1 < Due(p)
        BY <1>6, <2>5, <3>2, <4>2 DEF OwedFor
      <4> QED BY <1>8, <4>3
    <3> QED BY <3>1, <3>2
  <2>8. p = <<l, complaint'[w][2]>> /\ told' = told
    BY <1>1, <2>4
  <2> QED BY <2>6, <2>7, <2>8 DEF OwedFor
<1> QED BY <1>1, <1>7, <1>9, <1>10, HolderKeeps DEF Critical, Step, Goto

\* A key changes nothing in what is owed; the loop goes on with the same lists.
LEMMA InsertKeeps == ASSUME ArfInv, NEW w \in Worker, Insert(w) PROVE ArfInv'
<1>1. /\ step[w] = "inserting" /\ todo' = [todo EXCEPT ![w] = Tail(@)]
      /\ keys' = keys \cup {<<Head(todo[w]), complaint[w][2]>>}
      /\ removed' = removed \cup {<<Head(todo[w]), complaint[w][2]>>}
      /\ UNCHANGED <<members, mutex, complaint, ret, complaints, changes, losses, joined,
                     slips, told, kept>>
  BY DEF Insert, Key, Current, bounds
<1>2. TypeOK /\ todo[w] \in Seq(List) /\ todo[w] # <<>> /\ complaint[w] \in Pair
  BY <1>1 DEF ArfInv, TypeOK
<1>3. PICK s \in {"telling", "removing"} :
        Goto(w, s) /\ s = IF Len(todo[w]) = 1 THEN "telling" ELSE "removing"
  BY DEF Insert
<1>4. /\ step' = [step EXCEPT ![w] = s] /\ step'[w] = s /\ todo'[w] = Tail(todo[w])
      /\ \A v \in Worker \ {w} : step'[v] = step[v] /\ todo'[v] = todo[v]
  BY <1>1, <1>2, <1>3 DEF Goto, TypeOK
<1>5. \E k \in List : TRUE
  BY ArfAssumption
<1>6. /\ Head(todo[w]) \in List /\ Tail(todo[w]) \in Seq(List)
      /\ Len(todo[w]) = 1 => Listed(Tail(todo[w])) = {}
      /\ Len(todo[w]) # 1 => Tail(todo[w]) # <<>>
  BY <1>2, <1>5, ListedFacts
<1>7. TypeOK'
  <2>1. <<Head(todo[w]), complaint[w][2]>> \in Pair
    BY <1>2, <1>6 DEF Pair
  <2>2. step' \in [Worker -> Step] /\ todo' \in [Worker -> Seq(List)]
    BY <1>1, <1>2, <1>4, <1>6 DEF TypeOK, Step
  <2>3. \A v \in Worker : step'[v] \in {"removing", "inserting"} => todo'[v] # <<>>
    BY <1>2, <1>3, <1>4, <1>6 DEF TypeOK
  <2> QED BY <1>1, <1>2, <2>1, <2>2, <2>3 DEF TypeOK
<1>8. Credit'
  BY <1>1 DEF ArfInv, Credit, Due
<1>9. Owed(w)'
  <2> SUFFICES ASSUME NEW l \in Listed(ret[w])
               PROVE  OwedFor(w, l, <<l, complaint[w][2]>>)'
    BY <1>1 DEF Owed
  <2>1. ToRemove(w) = Listed(Tail(todo[w]))
    BY <1>1 DEF ToRemove
  <2>2. ToRemove(w)' = ToRemove(w)
    BY <1>3, <1>4, <1>6, <2>1 DEF ToRemove
  <2>3. OwedFor(w, l, <<l, complaint[w][2]>>)
    BY <1>1 DEF ArfInv, Owed, Pending
  <2> QED BY <1>1, <2>2, <2>3 DEF OwedFor, Due
<1> QED BY <1>1, <1>3, <1>7, <1>8, <1>9, HolderKeeps DEF Critical, Step

\* The mail: what was owed for the lists in it is enough.
LEMMA TellKeeps == ASSUME ArfInv, NEW w \in Worker, Tell(w) PROVE ArfInv'
<1>1. /\ step[w] = "telling" /\ step' = [step EXCEPT ![w] = "unlocking"]
      /\ told' = [p \in Pair |-> told[p] + (IF p \in Named(w) THEN 1 ELSE 0)]
      /\ UNCHANGED <<members, keys, mutex, complaint, todo, ret, complaints, changes,
                     losses, joined, slips, removed, kept>>
  BY DEF Tell, Goto, bounds
<1>2. TypeOK
  BY DEF ArfInv
<1>3. step'[w] = "unlocking" /\ \A v \in Worker \ {w} : step'[v] = step[v]
  BY <1>1, <1>2 DEF TypeOK
<1>4. TypeOK'
  <2>1. told' \in [Pair -> Nat]
    <3>1. \A p \in Pair : told[p] + (IF p \in Named(w) THEN 1 ELSE 0) \in Nat
      <4>1. \A p \in Pair : told[p] \in Nat
        BY <1>2 DEF TypeOK
      <4> QED BY <4>1
    <3> QED BY <1>1, <3>1
  <2> QED BY <1>1, <1>2, <1>3, <2>1 DEF TypeOK, Step
<1>5. Credit'
  <2> SUFFICES ASSUME NEW p \in Pair
               PROVE  told'[p] <= Due(p) /\ (p \in members => told'[p] < Due(p))
    BY <1>1 DEF Credit, Due
  <2>1. told[p] \in Nat /\ Due(p) \in Nat
    BY <1>2 DEF TypeOK, Due
  <2>2. CASE p \in Named(w)
    <3>1. PICK l \in Listed(ret[w]) : p = <<l, complaint[w][2]>>
      BY <2>2 DEF Named, Listed
    <3>2. OwedFor(w, l, p) /\ ToRemove(w) = {}
      BY <1>1, <3>1 DEF ArfInv, Owed, Pending, ToRemove
    <3> QED BY <1>1, <2>1, <2>2, <3>2 DEF OwedFor
  <2>3. CASE p \notin Named(w)
    BY <1>1, <2>1, <2>3 DEF ArfInv, Credit
  <2> QED BY <2>2, <2>3
<1>6. Owed(w)'
  BY <1>3, OwesNothing DEF Pending
<1> QED BY <1>1, <1>4, <1>5, <1>6, HolderKeeps DEF Critical, Step, Goto

\* The mutex is released; no other thread is in a critical step.
LEMMA UnlockKeeps == ASSUME ArfInv, NEW w \in Worker, Unlock(w) PROVE ArfInv'
<1>1. /\ step[w] = "unlocking" /\ mutex' = None /\ step' = [step EXCEPT ![w] = "idle"]
      /\ UNCHANGED <<members, keys, complaint, todo, ret, complaints, changes, losses,
                     joined, slips, told, removed, kept>>
  BY DEF Unlock, Goto, bounds, history
<1>2. TypeOK
  BY DEF ArfInv
<1>3. step'[w] = "idle" /\ \A v \in Worker \ {w} : step'[v] = step[v]
  BY <1>1, <1>2 DEF TypeOK
<1>4. TypeOK'
  BY <1>1, <1>2, <1>3 DEF TypeOK, Step
<1>5. \A v \in Worker \ {w} : step'[v] \notin Critical /\ Owed(v)'
  BY <1>1, <1>3, OthersOwe DEF Critical, Step
<1>6. Owed(w)'
  BY <1>3, OwesNothing DEF Pending
<1>7. Exclusive'
  BY <1>3, <1>5 DEF Exclusive, Critical
<1>8. Credit'
  BY <1>1 DEF ArfInv, Credit, Due
<1> QED BY <1>4, <1>5, <1>6, <1>7, <1>8 DEF ArfInv

-----------------------------------------------------------------------------
\* What a thread owed when the daemon dies is never told.
LEMMA CrashKeeps == ASSUME ArfInv, Crash PROVE ArfInv'
<1>1. /\ mutex' = None /\ step' \in [Worker -> {"idle", "locking"}]
      /\ losses < MaxLosses /\ losses' = losses + 1
      /\ UNCHANGED <<members, keys, complaint, todo, ret, complaints, changes, joined,
                     slips, told, removed, kept>>
  BY DEF Crash, Fail, history
<1>2. \A w \in Worker : step'[w] \in {"idle", "locking"}
  BY <1>1
<1>3. losses' \in 0..MaxLosses
  BY <1>1, ArfAssumption DEF ArfInv, TypeOK
<1>4. step' \in [Worker -> Step]
  BY <1>1 DEF Step
<1>5. TypeOK'
  BY <1>1, <1>2, <1>3, <1>4 DEF ArfInv, TypeOK
<1>6. Exclusive' /\ Credit'
  BY <1>1, <1>2 DEF ArfInv, Exclusive, Credit, Due, Critical
<1>7. \A w \in Worker : Owed(w)'
  BY <1>2, OwesNothing DEF Pending
<1> QED BY <1>5, <1>6, <1>7 DEF ArfInv

\* A new subscription can be told of once more.
LEMMA SubscribeKeeps == ASSUME ArfInv, NEW p \in Pair, Subscribe(p) PROVE ArfInv'
<1>1. /\ changes < MaxChanges /\ changes' = changes + 1
      /\ members' = members \cup {p} /\ joined' = [joined EXCEPT ![p] = @ + 1]
      /\ kept' = [w \in Worker |-> kept[w] \cup {p}]
      /\ UNCHANGED <<keys, mutex, step, complaint, todo, ret, complaints, losses, slips,
                     told, removed>>
  BY DEF Subscribe, thread
<1>2. TypeOK
  BY DEF ArfInv
<1>3. changes' \in 0..MaxChanges
  BY <1>1, <1>2, ArfAssumption DEF TypeOK
<1>4. joined' \in [Pair -> Nat] /\ kept' \in [Worker -> SUBSET Pair]
  BY <1>1, <1>2 DEF TypeOK
<1>5. TypeOK'
  BY <1>1, <1>2, <1>3, <1>4 DEF TypeOK
<1>6. joined'[p] = joined[p] + 1 /\ \A q \in Pair \ {p} : joined'[q] = joined[q]
  BY <1>1, <1>2 DEF TypeOK
<1>7. Credit'
  <2> SUFFICES ASSUME NEW q \in Pair
               PROVE  told[q] <= Due(q)' /\ (q \in members' => told[q] < Due(q)')
    BY <1>1 DEF Credit
  <2>1. Due(q) \in Nat /\ told[q] \in Nat
    BY <1>2, DueType
  <2>2. joined[q] \in Nat /\ slips[q] \in Nat
    BY <1>2 DEF TypeOK
  <2>3. told[q] <= Due(q) /\ (q \in members => told[q] < Due(q))
    BY DEF ArfInv, Credit
  <2>4. CASE q = p
    BY <1>1, <1>6, <2>1, <2>2, <2>3, <2>4 DEF Due
  <2>5. CASE q # p
    BY <1>1, <1>6, <2>1, <2>2, <2>3, <2>5 DEF Due
  <2> QED BY <2>4, <2>5
<1>8. Exclusive'
  BY <1>1 DEF ArfInv, Exclusive
<1>9. ASSUME NEW w \in Worker, step[w] \in Pending, NEW l \in Listed(ret[w])
      PROVE  OwedFor(w, l, <<l, complaint[w][2]>>)'
  <2> DEFINE q == <<l, complaint[w][2]>>
  <2>1. OwedFor(w, l, q)
    BY <1>9 DEF ArfInv, Owed
  <2>2. ret[w] \in Seq(List) /\ complaint[w] \in Pair
    BY <1>2 DEF TypeOK
  <2>3. l \in List
    BY <2>2, <1>9, ArfAssumption, ListedFacts
  <2>4. q \in Pair
    BY <2>2, <2>3 DEF Pair
  <2>5. told[q] \in Nat /\ joined[q] \in Nat /\ slips[q] \in Nat
    BY <1>2, <2>4 DEF TypeOK
  <2>6. ToRemove(w)' = ToRemove(w)
    BY <1>1 DEF ToRemove
  <2>7. CASE q = p
    BY <1>1, <1>6, <2>1, <2>5, <2>7 DEF OwedFor, Due
  <2>8. CASE q # p
    BY <1>1, <1>6, <2>1, <2>4, <2>6, <2>8 DEF OwedFor, Due
  <2> QED BY <2>7, <2>8
<1>10. \A w \in Worker : Owed(w)'
  BY <1>1, <1>9 DEF Owed
<1> QED BY <1>5, <1>7, <1>8, <1>10 DEF ArfInv

\* A subscription that ends and a key that expires take nothing from what is owed.
LEMMA EnvironmentKeeps ==
  ASSUME ArfInv, NEW p \in Pair, Unsubscribe(p) \/ Expire(p)
  PROVE  ArfInv'
<1>1. /\ members' \subseteq members /\ keys' \subseteq keys /\ removed' \subseteq removed
      /\ UNCHANGED <<mutex, step, complaint, todo, ret, complaints, joined, slips, told,
                     kept>>
  BY DEF Unsubscribe, Expire, thread, history
<1>2. changes' \in 0..MaxChanges /\ losses' \in 0..MaxLosses
  <2>1. CASE Unsubscribe(p)
    BY <2>1, ArfAssumption DEF Unsubscribe, ArfInv, TypeOK
  <2>2. CASE Expire(p)
    BY <2>2, FailType DEF Expire, ArfInv, TypeOK
  <2> QED BY <2>1, <2>2
<1>3. TypeOK'
  BY <1>1, <1>2 DEF ArfInv, TypeOK
<1>4. Exclusive' /\ Credit'
  BY <1>1 DEF ArfInv, Exclusive, Credit, Due
<1>5. \A w \in Worker : Owed(w)'
  BY <1>1 DEF ArfInv, Owed, OwedFor, Due, ToRemove
<1> QED BY <1>3, <1>4, <1>5 DEF ArfInv

-----------------------------------------------------------------------------
\* The inductive invariant: a thread past the mutex has it, and for each subscription it
\* has found there is credit until the mail is sent, whatever others subscribe meanwhile.
THEOREM ArfInvariant == Spec => []ArfInv
<1>1. ArfInv /\ [Next]_vars => ArfInv'
  <2> SUFFICES ASSUME ArfInv, [Next]_vars PROVE ArfInv'
    OBVIOUS
  <2>1. ASSUME NEW w \in Worker, Process(w) PROVE ArfInv'
    BY <2>1, LockKeeps, AskKeeps, CheckKeeps, CheckedKeeps, RemoveKeeps, InsertKeeps,
       TellKeeps, UnlockKeeps DEF Process
  <2>2. ASSUME NEW w \in Worker, NEW p \in Pair, Complain(w, p) PROVE ArfInv'
    BY <2>2, ComplainKeeps
  <2>3. ASSUME NEW p \in Pair, Subscribe(p) \/ Unsubscribe(p) \/ Expire(p) PROVE ArfInv'
    BY <2>3, SubscribeKeeps, EnvironmentKeeps
  <2>4. ASSUME Crash PROVE ArfInv'
    BY <2>4, CrashKeeps
  <2>5. ASSUME UNCHANGED vars PROVE ArfInv'
    BY <2>5 DEF vars, thread, bounds, history, ArfInv, TypeOK, Exclusive, Credit, Owed,
                OwedFor, Due, ToRemove
  <2> QED BY <2>1, <2>2, <2>3, <2>4, <2>5 DEF Next, Over
<1> QED BY ArfInit, <1>1, PTL DEF Spec

\* Every variable keeps its type, and the loop of remove_email_from_list never takes a
\* list from an empty sequence.
THEOREM ArfTypes == Spec => []TypeOK
<1>1. ArfInv => TypeOK
  BY DEF ArfInv
<1> QED BY <1>1, ArfInvariant, PTL

\* Every mail to the owners has its own cause, a subscription or a failure of LISTSERV,
\* for any number of threads, complaints, crashes, lost keys, failed calls and changes by
\* others (arf::Run under the mutex).
THEOREM ToldAtMostOnce == Spec => []ToldOnce
<1>1. ArfInv => ToldOnce
  BY DEF ArfInv, Credit, Due, ToldOnce
<1> QED BY <1>1, ArfInvariant, PTL

\* Only one thread at a time is between the lock and the unlock of arf::Run.
THEOREM MutualExclusion ==
  Spec => [](\A v, w \in Worker : step[v] \in Critical /\ step[w] \in Critical => v = w)
<1>1. ArfInv => \A v, w \in Worker : step[v] \in Critical /\ step[w] \in Critical => v = w
  BY DEF ArfInv, Exclusive
<1> QED BY <1>1, ArfInvariant, PTL

-----------------------------------------------------------------------------
(***************************************************************************)
(* What a thread has still to do, and what it may not do again.  While it  *)
(* has the mutex every list it is about is either still to be looked at,   *)
(* or in what it has found, or without the address; later, it is to be     *)
(* removed from, or without the address, but for what others subscribe.    *)
(* The list complained about comes first, and only once: when its key is   *)
(* there, it is not among the lists that are left.                         *)
(***************************************************************************)
Left(w, l) ==
  <<l, complaint[w][2]>> \in members => <<l, complaint[w][2]>> \in kept[w]

Awaits(w, l) ==
  CASE step[w] = "checking"  -> l \in Listed(todo[w]) \cup Listed(ret[w])
    [] step[w] = "removing"  -> l \in Listed(todo[w])
    [] step[w] = "inserting" -> l \in Listed(Tail(todo[w]))
    [] step[w] = "unlocking" -> ret[w] = <<>>
    [] step[w] = "telling"   -> FALSE
    [] OTHER                 -> TRUE
Swept(w) == \A l \in Listed(Deep(complaint[w][1])) : Awaits(w, l) \/ Left(w, l)

Main(w)  == complaint[w][1]
Once(w) ==
  /\ step[w] = "checking" =>
       /\ complaint[w] \notin removed
       /\ Main(w) \in Listed(todo[w]) => todo[w] = Deep(Main(w)) /\ ret[w] = <<>>
       /\ ret[w] # <<>> => Main(w) \notin Listed(Tail(ret[w]))
  /\ step[w] \in {"removing", "inserting"} => Main(w) \notin Listed(Tail(todo[w]))
  /\ step[w] = "removing" /\ Head(todo[w]) = Main(w) => complaint[w] \notin removed

LoopInv == removed \subseteq keys /\ \A w \in Worker : Swept(w) /\ Once(w)

\* What Deep returns: the list, and then its sub-lists.
LEMMA DeepFacts ==
  ASSUME NEW l \in List
  PROVE  /\ Deep(l) # <<>> /\ Head(Deep(l)) = l /\ Tail(Deep(l)) = Sublists[l]
         /\ l \notin Listed(Sublists[l])
         /\ Listed(Deep(l)) = {l} \cup {Sublists[l][i] : i \in DOMAIN Sublists[l]}
<1>1. Sublists[l] \in Seq(List) /\ <<l>> \in Seq(List)
  BY ArfAssumption
<1>2. Deep(l) # <<>> /\ Head(Deep(l)) = l /\ Tail(Deep(l)) = Sublists[l]
  BY <1>1 DEF Deep
<1>3. l \notin Listed(Sublists[l])
  BY SublistsDiffer DEF Listed
<1>4. Listed(Deep(l)) = Listed(Sublists[l]) \cup {l}
  BY <1>1, <1>2, DeepType, ListedFacts
<1> QED BY <1>2, <1>3, <1>4 DEF Listed

\* A thread without the mutex has nothing to keep.
LEMMA OutsideLoop ==
  ASSUME NEW w \in Worker, step[w] \notin Critical
  PROVE  Swept(w) /\ Once(w)
  BY DEF Critical, Step, Swept, Awaits, Once

\* The step of a thread that had the mutex, or has just got it: the others are outside.
LEMMA OnlyOneLoops ==
  ASSUME ArfInv, NEW w \in Worker, mutex \in {w, None}, NEW s \in Step, Goto(w, s),
         (removed \subseteq keys)', Swept(w)', Once(w)'
  PROVE  LoopInv'
<1>1. step' = [step EXCEPT ![w] = s] /\ step \in [Worker -> Step]
  BY DEF Goto, ArfInv, TypeOK
<1>2. \A v \in Worker \ {w} : step[v] \notin Critical
  BY ArfAssumption DEF ArfInv, Exclusive
<1>3. \A v \in Worker \ {w} : step'[v] \notin Critical
  BY <1>1, <1>2
<1>4. ASSUME NEW v \in Worker, step'[v] \notin Critical PROVE (Swept(v) /\ Once(v))'
  BY <1>4 DEF Critical, Step, Swept, Awaits, Once
<1> QED BY <1>3, <1>4 DEF LoopInv

LEMMA LoopBegins ==
  ASSUME ArfInv, LoopInv, NEW w \in Worker, Lock(w) \/ Ask(w) PROVE LoopInv'
<1>1. TypeOK
  BY DEF ArfInv
<1>2. complaint[w] \in Pair /\ complaint' = complaint
  BY <1>1 DEF TypeOK, Lock, Ask
<1>3. CASE Lock(w)
  <2>1. step'[w] = "asking" /\ Goto(w, "asking") /\ mutex = None
    BY <1>1, <1>3 DEF TypeOK, Lock, Goto, Free
  <2>2. (removed \subseteq keys)'
    BY <1>3 DEF LoopInv, Lock
  <2> QED BY <2>1, <2>2, OnlyOneLoops DEF Step, Swept, Awaits, Once
<1>4. CASE Ask(w)
  <2>1. mutex = w /\ step[w] = "asking"
    BY <1>4 DEF ArfInv, Exclusive, Critical, Step, Ask
  <2>2. todo'[w] = Deep(complaint[w][1]) /\ ret'[w] = <<>>
    BY <1>1, <1>4 DEF TypeOK, Ask
  <2>3. (removed \subseteq keys)'
    BY <1>4 DEF LoopInv, Ask
  <2>4. PICK s \in {"checking", "unlocking"} :
          Goto(w, s) /\ (s = "checking" => complaint[w] \notin removed')
    BY <1>4 DEF Ask, Known, LoopInv
  <2>5. step'[w] = s
    BY <1>1, <2>4 DEF TypeOK, Goto
  <2>6. Swept(w)'
    BY <1>2, <2>2, <2>4, <2>5 DEF Swept, Awaits
  <2>7. Once(w)'
    BY <1>2, <2>2, <2>4, <2>5 DEF Once, Main
  <2> QED BY <2>1, <2>3, <2>4, <2>6, <2>7, OnlyOneLoops DEF Step
<1> QED BY <1>3, <1>4

LEMMA LoopChecks == ASSUME ArfInv, LoopInv, NEW w \in Worker, Check(w) PROVE LoopInv'
<1> DEFINE l == Head(todo[w])
           found == ret' # ret
<1>1. /\ TypeOK /\ step[w] = "checking" /\ todo[w] # <<>> /\ mutex = w
      /\ UNCHANGED <<members, keys, step, complaint, removed, kept>>
  BY DEF ArfInv, Exclusive, Critical, Step, Check
<1>2. /\ todo'[w] = Tail(todo[w])
      /\ ret'[w] = IF found THEN Append(ret[w], l) ELSE ret[w]
      /\ ~found => <<l, complaint[w][2]>> \notin members
  <2>1. todo'[w] = Tail(todo[w])
    BY <1>1 DEF TypeOK, Check
  <2>2. ret' = [ret EXCEPT ![w] = Append(ret[w], l)]
        \/ (ret' = [ret EXCEPT ![w] = ret[w]] /\ <<l, complaint[w][2]>> \notin members)
    BY DEF Check, Current
  <2>3. ret[w] \in Seq(List) /\ l \in List /\ [ret EXCEPT ![w] = ret[w]] = ret
    BY <1>1 DEF TypeOK
  <2>4. Append(ret[w], l) # ret[w]
    BY <2>3
  <2> QED BY <1>1, <2>1, <2>2, <2>3, <2>4 DEF TypeOK
<1>3. todo[w] \in Seq(List) /\ ret[w] \in Seq(List) /\ complaint[w] \in Pair
      /\ Main(w) \in List
  BY <1>1 DEF TypeOK, Pair, Main
<1>4. l \in List /\ Tail(todo[w]) \in Seq(List)
      /\ Listed(todo[w]) = Listed(Tail(todo[w])) \cup {l}
  BY <1>1, <1>3, ListedFacts
<1>5. Listed(Append(ret[w], l)) = Listed(ret[w]) \cup {l}
  BY <1>3, <1>4, ListedFacts
<1>6. Goto(w, "checking") /\ step'[w] = "checking"
  BY <1>1 DEF TypeOK, Goto
<1>7. Swept(w)'
  <2> SUFFICES ASSUME NEW k \in Listed(Deep(complaint[w][1]))
               PROVE  (Awaits(w, k) \/ Left(w, k))'
    BY <1>1 DEF Swept
  <2>1. Awaits(w, k) \/ Left(w, k)
    BY DEF LoopInv, Swept
  <2>2. CASE Left(w, k)
    BY <1>1, <2>2 DEF Left
  <2>3. CASE k \in Listed(todo'[w]) \cup Listed(ret'[w])
    BY <1>6, <2>3 DEF Awaits
  <2>4. CASE k = l /\ ~found
    BY <1>1, <1>2, <2>4 DEF Left
  <2> QED BY <1>1, <1>2, <1>4, <1>5, <2>1, <2>2, <2>3, <2>4 DEF Awaits
<1>8. Once(w)'
  <2>1. /\ complaint[w] \notin removed
        /\ Main(w) \in Listed(todo[w]) => todo[w] = Deep(Main(w)) /\ ret[w] = <<>>
        /\ ret[w] # <<>> => Main(w) \notin Listed(Tail(ret[w]))
    BY <1>1 DEF LoopInv, Once
  <2>2. Main(w) \notin Listed(todo'[w])
    BY <1>2, <1>3, <1>4, <2>1, DeepFacts
  <2>3. ret'[w] # <<>> => Main(w) \notin Listed(Tail(ret'[w]))
    <3>1. CASE ~found
      BY <1>2, <2>1, <3>1
    <3>2. CASE found /\ ret[w] = <<>>
      <4>1. Tail(ret'[w]) = <<>>
        BY <1>2, <1>4, <3>2
      <4> QED BY <1>3, <4>1, ListedFacts
    <3>3. CASE found /\ ret[w] # <<>>
      <4>1. l # Main(w)
        BY <1>4, <2>1, <3>3
      <4>2. Tail(ret'[w]) = Append(Tail(ret[w]), l) /\ Tail(ret[w]) \in Seq(List)
        BY <1>2, <1>3, <1>4, <3>3
      <4>3. Listed(Append(Tail(ret[w]), l)) = Listed(Tail(ret[w])) \cup {l}
        BY <1>4, <4>2, ListedFacts
      <4> QED BY <2>1, <3>3, <4>1, <4>2, <4>3
    <3> QED BY <3>1, <3>2, <3>3
  <2> QED BY <1>1, <1>6, <2>1, <2>2, <2>3 DEF Once, Main
<1> QED BY <1>1, <1>6, <1>7, <1>8, OnlyOneLoops DEF LoopInv, Step

\* What has been found is all there is to remove.
LEMMA LoopChecked == ASSUME ArfInv, LoopInv, NEW w \in Worker, Checked(w) PROVE LoopInv'
<1>1. /\ TypeOK /\ step[w] = "checking" /\ todo[w] = <<>> /\ mutex = w
      /\ UNCHANGED <<members, keys, complaint, ret, removed, kept>>
  BY DEF ArfInv, Exclusive, Critical, Step, Checked, history
<1>2. PICK s \in {"removing", "unlocking"} :
        Goto(w, s) /\ (s = "removing" <=> ret[w] # <<>>)
  BY DEF Checked, AfterChecks
<1>3. step'[w] = s /\ todo'[w] = ret[w]
  BY <1>1, <1>2 DEF TypeOK, Goto, Checked
<1>4. ret[w] \in Seq(List) /\ complaint[w] \in Pair
  BY <1>1 DEF TypeOK
<1>5. Swept(w)'
  <2> SUFFICES ASSUME NEW k \in Listed(Deep(complaint[w][1]))
               PROVE  (Awaits(w, k) \/ Left(w, k))'
    BY <1>1 DEF Swept
  <2>1. k \in Listed(ret[w]) \/ Left(w, k)
    BY <1>1 DEF LoopInv, Swept, Awaits, Listed
  <2>2. Left(w, k)' <=> Left(w, k)
    BY <1>1 DEF Left
  <2> QED BY <1>1, <1>2, <1>3, <2>1, <2>2 DEF Awaits, Listed
<1>6. Once(w)'
  BY <1>1, <1>2, <1>3 DEF LoopInv, Once, Main
<1> QED BY <1>1, <1>2, <1>5, <1>6, OnlyOneLoops DEF LoopInv, Step

\* The list that comes first loses the address, or keeps it by a failure, and then gets its
\* key.
LEMMA LoopRemoves ==
  ASSUME ArfInv, LoopInv, NEW w \in Worker, Remove(w) \/ Insert(w) PROVE LoopInv'
<1>1. /\ TypeOK /\ step[w] \in {"removing", "inserting"} /\ todo[w] # <<>> /\ mutex = w
      /\ UNCHANGED <<complaint, ret>>
  BY DEF ArfInv, Exclusive, Critical, Step, Remove, Insert, TypeOK
<1>2. todo[w] \in Seq(List) /\ complaint[w] \in Pair
  BY <1>1 DEF TypeOK
<1>3. \E k \in List : TRUE
  BY ArfAssumption
<1>4. /\ Head(todo[w]) \in List /\ Tail(todo[w]) \in Seq(List)
      /\ Listed(todo[w]) = Listed(Tail(todo[w])) \cup {Head(todo[w])}
      /\ Len(todo[w]) = 1 => Listed(Tail(todo[w])) = {}
      /\ Len(todo[w]) # 1 => Tail(todo[w]) # <<>>
  BY <1>1, <1>2, <1>3, ListedFacts
<1>5. Main(w) \notin Listed(Tail(todo[w])) /\ Main(w)' = Main(w)
  BY <1>1 DEF LoopInv, Once, Main
<1>6. CASE Remove(w)
  <2>1. /\ Goto(w, "inserting") /\ step'[w] = "inserting" /\ todo' = todo
        /\ members' \subseteq members /\ kept[w] \subseteq kept'[w]
        /\ \/ <<Head(todo[w]), complaint[w][2]>> \notin members'
           \/ <<Head(todo[w]), complaint[w][2]>> \in kept'[w]
        /\ step[w] = "removing" /\ (removed \subseteq keys)' /\ removed' = removed
    BY <1>1, <1>6 DEF Remove, Current, Goto, TypeOK, LoopInv
  <2>2. Swept(w)'
    <3> SUFFICES ASSUME NEW k \in Listed(Deep(complaint[w][1]))
                 PROVE  (Awaits(w, k) \/ Left(w, k))'
      BY <1>1 DEF Swept
    <3>1. k \in Listed(todo[w]) \/ Left(w, k)
      BY <2>1 DEF LoopInv, Swept, Awaits
    <3>2. CASE Left(w, k) \/ k = Head(todo[w])
      BY <1>1, <2>1, <3>2 DEF Left
    <3>3. CASE k \in Listed(Tail(todo[w]))
      BY <2>1, <3>3 DEF Awaits
    <3> QED BY <1>4, <3>1, <3>2, <3>3
  <2>3. Once(w)'
    BY <1>1, <1>5, <2>1 DEF Once
  <2> QED BY <1>1, <2>1, <2>2, <2>3, OnlyOneLoops DEF Step
<1>7. CASE Insert(w)
  <2>1. PICK s \in {"telling", "removing"} :
          Goto(w, s) /\ s = IF Len(todo[w]) = 1 THEN "telling" ELSE "removing"
    BY <1>7 DEF Insert
  <2>2. /\ step'[w] = s /\ todo'[w] = Tail(todo[w]) /\ members' = members /\ kept' = kept
        /\ removed' = removed \cup {<<Head(todo[w]), complaint[w][2]>>}
        /\ step[w] = "inserting" /\ (removed \subseteq keys)'
    BY <1>1, <1>7, <2>1 DEF Insert, Key, Current, Goto, TypeOK, LoopInv
  <2>3. Swept(w)'
    <3> SUFFICES ASSUME NEW k \in Listed(Deep(complaint[w][1]))
                 PROVE  (Awaits(w, k) \/ Left(w, k))'
      BY <1>1 DEF Swept
    <3>1. k \in Listed(Tail(todo[w])) \/ Left(w, k)
      BY <2>2 DEF LoopInv, Swept, Awaits
    <3>2. CASE Left(w, k)
      BY <1>1, <2>2, <3>2 DEF Left
    <3>3. CASE k \in Listed(Tail(todo[w]))
      BY <1>4, <2>1, <2>2, <3>3 DEF Awaits
    <3> QED BY <3>1, <3>2, <3>3
  <2>4. Once(w)'
    <3>1. CASE s = "telling"
      BY <2>2, <3>1 DEF Once
    <3>2. CASE s = "removing"
      <4>1. /\ Head(Tail(todo[w])) \in List
            /\ Listed(Tail(todo[w])) = Listed(Tail(Tail(todo[w]))) \cup {Head(Tail(todo[w]))}
        BY <1>3, <1>4, <2>1, <3>2, ListedFacts
      <4> QED BY <1>5, <2>2, <3>2, <4>1 DEF Once
    <3> QED BY <3>1, <3>2
  <2> QED BY <1>1, <2>1, <2>2, <2>3, <2>4, OnlyOneLoops DEF Step
<1> QED BY <1>6, <1>7

LEMMA LoopEnds ==
  ASSUME ArfInv, LoopInv, NEW w \in Worker, Tell(w) \/ Unlock(w) PROVE LoopInv'
<1>1. /\ TypeOK /\ step[w] \in {"telling", "unlocking"} /\ mutex = w
      /\ UNCHANGED <<members, keys, complaint, todo, ret, removed, kept>>
  BY DEF ArfInv, Exclusive, Critical, Step, Tell, Unlock, bounds, history
<1>2. CASE Tell(w)
  <2>1. Goto(w, "unlocking") /\ step'[w] = "unlocking" /\ step[w] = "telling"
    BY <1>1, <1>2 DEF Tell, Goto, TypeOK
  <2>2. Swept(w)'
    BY <1>1, <2>1 DEF LoopInv, Swept, Awaits, Left
  <2> QED BY <1>1, <2>1, <2>2, OnlyOneLoops DEF LoopInv, Once, Step
<1>3. CASE Unlock(w)
  <2>1. Goto(w, "idle") /\ step'[w] = "idle"
    BY <1>1, <1>3 DEF Unlock, Goto, TypeOK
  <2> QED BY <1>1, <2>1, OnlyOneLoops DEF LoopInv, Once, Swept, Awaits, Step
<1> QED BY <1>2, <1>3

\* What others do: a new subscription is one that may be left, for everybody.
LEMMA LoopEnvironment ==
  ASSUME ArfInv, LoopInv, NEW p \in Pair, Subscribe(p) \/ Unsubscribe(p) \/ Expire(p)
  PROVE  LoopInv'
<1>1. /\ TypeOK /\ UNCHANGED <<step, complaint, todo, ret>>
      /\ removed' \subseteq removed /\ (removed \subseteq keys)'
  BY DEF ArfInv, LoopInv, Subscribe, Unsubscribe, Expire, thread, history
<1>2. ASSUME NEW w \in Worker, NEW l, Left(w, l) PROVE Left(w, l)'
  <2>1. kept[w] \subseteq kept'[w] /\ members' \ members \subseteq kept'[w]
    <3>1. CASE Subscribe(p)
      BY <3>1 DEF Subscribe
    <3>2. CASE Unsubscribe(p) \/ Expire(p)
      BY <3>2 DEF Unsubscribe, Expire, history
    <3> QED BY <3>1, <3>2
  <2> QED BY <1>1, <1>2, <2>1 DEF Left
<1>3. ASSUME NEW w \in Worker PROVE Swept(w)'
  BY <1>1, <1>2 DEF LoopInv, Swept, Awaits
<1>4. ASSUME NEW w \in Worker PROVE Once(w)'
  BY <1>1 DEF LoopInv, Once, Main
<1> QED BY <1>1, <1>3, <1>4 DEF LoopInv

\* A complaint that comes in, and a crash: the thread has not the mutex.
LEMMA LoopOutside ==
  ASSUME ArfInv, LoopInv, Crash \/ \E w \in Worker, p \in Pair : Complain(w, p)
  PROVE  LoopInv'
<1>1. TypeOK /\ UNCHANGED <<members, keys, todo, ret, removed, kept>>
  BY DEF ArfInv, Crash, Complain, history
<1>2. ASSUME NEW v \in Worker, step'[v] \notin Critical PROVE (Swept(v) /\ Once(v))'
  BY <1>2 DEF Critical, Step, Swept, Awaits, Once
<1>3. CASE Crash
  <2>1. \A v \in Worker : step'[v] \notin Critical
    BY <1>3 DEF Crash, Critical
  <2> QED BY <1>1, <1>2, <2>1 DEF LoopInv
<1>4. ASSUME NEW w \in Worker, NEW p \in Pair, Complain(w, p) PROVE LoopInv'
  <2>1. step'[w] = "locking" /\ \A v \in Worker \ {w} : step'[v] = step[v]
                                                      /\ complaint'[v] = complaint[v]
    BY <1>1, <1>4 DEF TypeOK, Complain, Goto
  <2>2. ASSUME NEW v \in Worker \ {w} PROVE (Swept(v) /\ Once(v))'
    BY <1>1, <2>1 DEF LoopInv, Swept, Awaits, Left, Once, Main
  <2>3. step'[w] \notin Critical
    BY <2>1 DEF Critical
  <2> QED BY <1>1, <1>2, <2>2, <2>3 DEF LoopInv
<1> QED BY <1>3, <1>4

LEMMA LoopInvariant == Spec => []LoopInv
<1>1. Init => LoopInv
  <2> SUFFICES ASSUME Init, NEW w \in Worker PROVE Swept(w) /\ Once(w)
    BY DEF LoopInv, Init
  <2>1. step[w] = "idle"
    BY DEF Init
  <2> QED BY <2>1, OutsideLoop DEF Critical
<1>2. ArfInv /\ LoopInv /\ [Next]_vars => LoopInv'
  <2> SUFFICES ASSUME ArfInv, LoopInv, [Next]_vars PROVE LoopInv'
    OBVIOUS
  <2>1. ASSUME NEW w \in Worker, Process(w) PROVE LoopInv'
    BY <2>1, LoopBegins, LoopChecks, LoopChecked, LoopRemoves, LoopEnds DEF Process
  <2>2. CASE UNCHANGED vars
    BY <2>2 DEF vars, thread, bounds, history, LoopInv, Swept, Awaits, Left, Once, Main
  <2> QED BY <2>1, <2>2, LoopEnvironment, LoopOutside DEF Next, Over
<1> QED BY <1>1, <1>2, ArfInvariant, PTL DEF Spec

\* A key in memcached protects an address that its owner has subscribed again: no thread
\* removes it for a complaint about that list (arf::Run, lines 273-277).
THEOREM NotAgain == Spec => []NotRemovedAgain
<1>1. LoopInv => NotRemovedAgain
  <2> SUFFICES ASSUME LoopInv, NEW w \in Worker, step[w] = "removing",
                      Current(w) = complaint[w]
               PROVE  Current(w) \notin removed
    BY DEF NotRemovedAgain
  <2>1. Head(todo[w]) = Main(w)
    BY DEF Current, Main
  <2> QED BY <2>1 DEF LoopInv, Once
<1> QED BY <1>1, LoopInvariant, PTL

\* No list and no sub-list is overlooked (remove_email_from_list_deep).
THEOREM EverySubscription == Spec => []NoneLeft
<1>1. ArfInv /\ LoopInv => NoneLeft
  <2> SUFFICES ASSUME ArfInv, LoopInv, NEW w \in Worker, step[w] = "unlocking",
                      ret[w] # <<>>,
                      NEW l \in {Main(w)} \cup {Sublists[Main(w)][i] :
                                                  i \in DOMAIN Sublists[Main(w)]}
               PROVE  Left(w, l)
    BY DEF NoneLeft, Left, Main
  <2>1. Main(w) \in List
    BY DEF ArfInv, TypeOK, Pair, Main
  <2>2. l \in Listed(Deep(Main(w)))
    BY <2>1, DeepFacts
  <2> QED BY <2>2 DEF LoopInv, Swept, Awaits, Main
<1> QED BY <1>1, ArfInvariant, LoopInvariant, PTL
-----------------------------------------------------------------------------
(***************************************************************************)
(* The mutex comes free: a thread that has it takes a bounded number of    *)
(* steps until it gives it back, and nothing others do adds to them.  With *)
(* the fairness of the thread this is why ComplaintsEnd holds.             *)
(***************************************************************************)
\* The steps a thread with the mutex has at most before it.
Work(w) ==
  CASE step[w] = "asking"    -> 3 * Len(Deep(complaint[w][1])) + 5
    [] step[w] = "checking"  -> 3 * Len(todo[w]) + 2 * Len(ret[w]) + 4
    [] step[w] = "removing"  -> 2 * Len(todo[w]) + 3
    [] step[w] = "inserting" -> 2 * Len(todo[w]) + 2
    [] step[w] = "telling"   -> 2
    [] step[w] = "unlocking" -> 1
    [] OTHER                 -> 0

\* Nobody gives the thread more to do, and each step of its own takes from what it has;
\* when nothing is left it is out.
HolderAdvances(w) ==
  step[w] \in Critical =>
    /\ Work(w) \in Nat \ {0}
    /\ Process(w) => Work(w)' < Work(w)
    /\ Work(w)' <= Work(w)
    /\ step'[w] \in Critical => Work(w)' \in Nat \ {0}
    /\ step'[w] \notin Critical => Work(w)' = 0

\* What a thread has to do depends on its own data.
LEMMA WorkStays ==
  ASSUME NEW w \in Worker, step'[w] = step[w], complaint'[w] = complaint[w],
         todo'[w] = todo[w], ret'[w] = ret[w]
  PROVE  Work(w)' = Work(w)
BY DEF Work, Deep

\* In the loops there is work, outside there is none.
LEMMA WorkType ==
  ASSUME TypeOK, NEW w \in Worker
  PROVE  IF step[w] \in Critical THEN Work(w) \in Nat \ {0} ELSE Work(w) = 0
<1>1. step[w] \in Step /\ complaint[w][1] \in List
  BY DEF TypeOK, Pair
<1>2. /\ Len(Deep(complaint[w][1])) \in Nat
      /\ Len(todo[w]) \in Nat /\ Len(ret[w]) \in Nat
  BY <1>1, DeepType DEF TypeOK
<1> DEFINE n == Len(Deep(complaint[w][1]))
           t == Len(todo[w])
           r == Len(ret[w])
<1>3. /\ n \in Nat /\ t \in Nat /\ r \in Nat
      /\ Work(w) = CASE step[w] = "asking"    -> 3 * n + 5
                     [] step[w] = "checking"  -> 3 * t + 2 * r + 4
                     [] step[w] = "removing"  -> 2 * t + 3
                     [] step[w] = "inserting" -> 2 * t + 2
                     [] step[w] = "telling"   -> 2
                     [] step[w] = "unlocking" -> 1
                     [] OTHER                 -> 0
  BY <1>2, Zenon DEF Work
<1> HIDE DEF n, t, r
<1> QED BY <1>1, <1>3 DEF Critical, Step

\* Every call of the thread with the mutex takes from its work.
LEMMA OwnStep ==
  ASSUME TypeOK, NEW w \in Worker, step[w] \in Critical, Process(w)
  PROVE  Work(w)' < Work(w)
<1>1. /\ step \in [Worker -> Step] /\ todo \in [Worker -> Seq(List)]
      /\ ret \in [Worker -> Seq(List)] /\ complaint[w][1] \in List
      /\ todo[w] \in Seq(List) /\ ret[w] \in Seq(List)
  BY DEF TypeOK, Pair
<1>2. CASE Lock(w)
  BY <1>2 DEF Lock, Critical
<1>3. CASE Ask(w)
  <2> DEFINE deep == Deep(complaint[w][1])
  <2>1. deep \in Seq(List)
    BY <1>1, DeepType
  <2>2. step[w] = "asking" /\ complaint'[w] = complaint[w]
    BY <1>3 DEF Ask
  <2>3. step'[w] \in {"unlocking", "checking"}
    BY <1>1, <1>3 DEF Ask, Goto, Known
  <2>4. todo'[w] = deep /\ ret'[w] = <<>>
    BY <1>1, <1>3 DEF Ask
  <2>5. Work(w) = 3 * Len(deep) + 5 /\ Len(deep) \in Nat
    BY <2>1, <2>2 DEF Work
  <2> HIDE DEF deep
  <2>6. Work(w)' = IF step'[w] = "checking" THEN 3 * Len(deep) + 4 ELSE 1
    BY <2>3, <2>4, <2>5 DEF Work
  <2> QED BY <2>5, <2>6
<1>4. CASE Check(w)
  <2>1. /\ step[w] = "checking" /\ step'[w] = "checking" /\ todo[w] # <<>>
        /\ todo'[w] = Tail(todo[w])
        /\ ret'[w] = ret[w] \/ ret'[w] = Append(ret[w], Head(todo[w]))
    BY <1>1, <1>4 DEF Check
  <2>2. Len(todo'[w]) = Len(todo[w]) - 1 /\ Len(todo[w]) \in Nat /\ Len(ret[w]) \in Nat
    BY <1>1, <2>1
  <2>3. Len(ret'[w]) = Len(ret[w]) \/ Len(ret'[w]) = Len(ret[w]) + 1
    BY <1>1, <2>1
  <2>4. /\ Work(w) = 3 * Len(todo[w]) + 2 * Len(ret[w]) + 4
        /\ Work(w)' = 3 * Len(todo'[w]) + 2 * Len(ret'[w]) + 4
    BY <2>1 DEF Work
  <2> DEFINE t == Len(todo[w])
             r == Len(ret[w])
             q == Len(ret'[w])
  <2>5. /\ t \in Nat /\ r \in Nat /\ q \in r..(r + 1)
        /\ Work(w) = 3 * t + 2 * r + 4 /\ Work(w)' = 3 * (t - 1) + 2 * q + 4
    BY <2>2, <2>3, <2>4
  <2> HIDE DEF t, r, q
  <2> QED BY <2>5
<1>5. CASE Checked(w)
  <2>1. /\ step[w] = "checking" /\ todo[w] = <<>> /\ step'[w] \in {"unlocking", "removing"}
        /\ todo'[w] = ret[w]
    BY <1>1, <1>5 DEF Checked, Goto, AfterChecks
  <2>2. Len(todo[w]) = 0 /\ Len(ret[w]) \in Nat
    BY <1>1, <2>1
  <2>3. /\ Work(w) = 3 * Len(todo[w]) + 2 * Len(ret[w]) + 4
        /\ Work(w)' = 1 \/ Work(w)' = 2 * Len(ret[w]) + 3
    BY <2>1 DEF Work
  <2> QED BY <2>2, <2>3
<1>6. CASE Remove(w)
  <2>1. /\ step[w] = "removing" /\ step'[w] = "inserting" /\ todo'[w] = todo[w]
        /\ Len(todo[w]) \in Nat
    BY <1>1, <1>6 DEF Remove, Goto
  <2> QED BY <2>1 DEF Work
<1>7. CASE Insert(w)
  <2>1. /\ step[w] = "inserting" /\ step'[w] \in {"telling", "removing"}
        /\ todo'[w] = Tail(todo[w])
    BY <1>1, <1>7 DEF Insert, Goto
  <2>2. todo[w] # <<>>
    BY <2>1 DEF TypeOK
  <2>3. Len(todo[w]) \in Nat \ {0} /\ Len(todo'[w]) = Len(todo[w]) - 1
    BY <1>1, <2>1, <2>2
  <2>4. /\ Work(w) = 2 * Len(todo[w]) + 2
        /\ Work(w)' = 2 \/ Work(w)' = 2 * Len(todo'[w]) + 3
    BY <2>1 DEF Work
  <2> QED BY <2>3, <2>4
<1>8. CASE Tell(w)
  <2>1. step[w] = "telling" /\ step'[w] = "unlocking"
    BY <1>1, <1>8 DEF Tell, Goto
  <2> QED BY <2>1 DEF Work
<1>9. CASE Unlock(w)
  <2>1. step[w] = "unlocking" /\ step'[w] = "idle"
    BY <1>1, <1>9 DEF Unlock, Goto
  <2> QED BY <2>1 DEF Work
<1> QED BY <1>2, <1>3, <1>4, <1>5, <1>6, <1>7, <1>8, <1>9 DEF Process

\* A step of another thread, or of the environment, is none of the thread's.
LEMMA OtherStep ==
  ASSUME ArfInv, NEW w \in Worker, step[w] \in Critical, Next, ~Process(w)
  PROVE  Work(w)' = Work(w) \/ step'[w] \notin Critical
<1>1. mutex = w /\ w # None /\ \A v \in Worker \ {w} : step[v] \notin Critical
  BY ArfAssumption DEF ArfInv, Exclusive
<1>2. step \in [Worker -> Step] /\ complaint \in [Worker -> Pair]
  BY DEF ArfInv, TypeOK
<1>3. ASSUME NEW v \in Worker, Process(v) PROVE FALSE
  <2>1. v # w
    BY <1>3
  <2>2. step[v] \in {"idle", "locking"}
    BY <1>1, <1>2, <2>1 DEF Critical
  <2>3. Lock(v)
    BY <1>3, <2>2 DEF Process, Ask, Check, Checked, Remove, Insert, Tell, Unlock
  <2> QED BY <1>1, <2>3 DEF Lock, Free
<1>4. ASSUME NEW v \in Worker, NEW p \in Pair, Complain(v, p) PROVE Work(w)' = Work(w)
  <2>1. v # w
    BY <1>4 DEF Complain, Critical
  <2>2. /\ step'[w] = step[w] /\ complaint'[w] = complaint[w]
        /\ todo'[w] = todo[w] /\ ret'[w] = ret[w]
    BY <1>2, <1>4, <2>1 DEF Complain, Goto
  <2> QED BY <2>2, WorkStays
<1>5. ASSUME NEW p \in Pair, Subscribe(p) \/ Unsubscribe(p) \/ Expire(p)
      PROVE  Work(w)' = Work(w)
  <2>1. UNCHANGED thread
    BY <1>5 DEF Subscribe, Unsubscribe, Expire
  <2> QED BY <2>1, WorkStays DEF thread
<1>6. ASSUME Crash PROVE step'[w] \notin Critical
  BY <1>6 DEF Crash, Critical
<1>7. ASSUME Over PROVE Work(w)' = Work(w)
  BY <1>7, WorkStays DEF Over, vars, thread
<1> QED BY <1>3, <1>4, <1>5, <1>6, <1>7 DEF Next

\* A thread with the mutex is at most 3 * (1 + its sub-lists) + 5 of its own steps from
\* giving it back, whatever other threads, subscribers and memcached do (arf::Run).
THEOREM MutexComesFree == Spec => [][\A w \in Worker : HolderAdvances(w)]_vars
<1>1. ArfInv /\ ArfInv' /\ [Next]_vars => [\A w \in Worker : HolderAdvances(w)]_vars
  <2> SUFFICES ASSUME ArfInv, ArfInv', Next, NEW w \in Worker, step[w] \in Critical
               PROVE  /\ Work(w) \in Nat \ {0}
                      /\ Process(w) => Work(w)' < Work(w)
                      /\ Work(w)' <= Work(w)
                      /\ step'[w] \in Critical => Work(w)' \in Nat \ {0}
                      /\ step'[w] \notin Critical => Work(w)' = 0
    BY DEF HolderAdvances
  <2>1. Work(w) \in Nat \ {0}
    BY WorkType DEF ArfInv
  <2>2. IF step'[w] \in Critical THEN Work(w)' \in Nat \ {0} ELSE Work(w)' = 0
    <3>1. (IF step[w] \in Critical THEN Work(w) \in Nat \ {0} ELSE Work(w) = 0)'
      BY WorkType, PTL DEF ArfInv
    <3> QED BY <3>1 DEF Critical, Step
  <2>3. Process(w) => Work(w)' < Work(w)
    BY OwnStep DEF ArfInv
  <2>4. ~Process(w) => Work(w)' = Work(w) \/ step'[w] \notin Critical
    BY OtherStep
  <2> QED BY <2>1, <2>2, <2>3, <2>4
<1> QED BY <1>1, ArfInvariant, PTL DEF Spec
=============================================================================
