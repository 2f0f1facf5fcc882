----------------------------- MODULE SieveProofs -----------------------------
(***************************************************************************)
(* Theorems about Sieve for any scripts, recipients and numbers of RCPT    *)
(* commands and uploads.                                                   *)
(*                                                                         *)
(* The cache of a message is why recipients of one cell run one file: what *)
(* Equal looked up stays there, so that Run finds what was compared,       *)
(* though the list has changed.  A key once looked up keeps its value      *)
(* (Settled); two recipients of a cell both have theirs in the cache, with *)
(* the same value (Shares); and what has run for a recipient is the file   *)
(* its keys in the cache lead to, with what is in it as long as nobody has *)
(* replaced it (Runs).                                                     *)
(*                                                                         *)
(* A script's actions are all done once because a run that has not done    *)
(* them has asked for a later stage (Carried), and because nothing is      *)
(* mailed before the run at the end of the message, the only one there     *)
(* (Mailed).  If the message was emptied there is no such run for          *)
(* recipients that all share a cell (Empty).  What a run does is said with *)
(* Chosen, a recursive function, about which the first lemmas are.         *)
(***************************************************************************)
EXTENDS Sieve, Facts

(***************************************************************************)
(* The elements of a sequence that are in a set.  Chosen is the last value *)
(* of a recursive function; Upto says what its values are.                 *)
(***************************************************************************)
Upto(f, seq, S) ==
  /\ f[0] = <<>>
  /\ \A n \in 1..Len(seq) :
       f[n] = IF seq[n] \in S THEN Append(f[n - 1], seq[n]) ELSE f[n - 1]

\* There is such a function: one for the first n - 1 elements goes on for the n-th.
LEMMA ChosenIs ==
  ASSUME NEW X, NEW seq \in Seq(X), NEW S
  PROVE  \E f : Upto(f, seq, S) /\ Chosen(seq, S) = f[Len(seq)]
<1> DEFINE Defined(f, n) ==
             f = [i \in 0..n |->
                    IF i = 0 THEN <<>>
                    ELSE IF seq[i] \in S THEN Append(f[i - 1], seq[i]) ELSE f[i - 1]]
           T == {n \in 0..Len(seq) : \E f : Defined(f, n)}
<1>1. 0 \in T
  <2>1. Defined([i \in 0..0 |-> <<>>], 0)
    OBVIOUS
  <2> HIDE DEF Defined
  <2> QED BY <2>1
<1>2. ASSUME NEW n \in 1..Len(seq), n - 1 \in T PROVE n \in T
  <2>1. PICK f : Defined(f, n - 1)
    BY <1>2
  <2> DEFINE more == IF seq[n] \in S THEN Append(f[n - 1], seq[n]) ELSE f[n - 1]
             g    == [i \in 0..n |-> IF i = n THEN more ELSE f[i]]
  <2>2. g = [i \in 0..n |-> g[i]] /\ \A i \in 0..(n - 1) : g[i] = f[i]
    OBVIOUS
  <2>3. g[0] = <<>>
    BY <2>1, <2>2
  <2>4. ASSUME NEW i \in 1..(n - 1)
        PROVE  g[i] = IF seq[i] \in S THEN Append(g[i - 1], seq[i]) ELSE g[i - 1]
    <3>1. i \in 0..(n - 1) /\ i # 0
      OBVIOUS
    <3>2. f[i] = IF seq[i] \in S THEN Append(f[i - 1], seq[i]) ELSE f[i - 1]
      BY <2>1, <3>1, Zenon
    <3> QED BY <2>2, <3>2
  <2>5. g[n] = IF seq[n] \in S THEN Append(g[n - 1], seq[n]) ELSE g[n - 1]
    BY <2>2
  <2> HIDE DEF g
  <2>6. \A i \in 0..n :
          g[i] = IF i = 0 THEN <<>>
                 ELSE IF seq[i] \in S THEN Append(g[i - 1], seq[i]) ELSE g[i - 1]
    BY <2>3, <2>4, <2>5
  <2>7. Defined(g, n)
    BY <2>2, <2>6, Zenon
  <2> QED BY <2>7
<1>3. PICK f : Defined(f, Len(seq))
  <2> HIDE DEF T
  <2>1. Len(seq) \in T
    BY <1>1, <1>2, Induction, Len(seq) \in Nat
  <2> QED BY <2>1 DEF T
<1> DEFINE g == CHOOSE h : Defined(h, Len(seq))
<1>4. Defined(g, Len(seq)) /\ Chosen(seq, S) = g[Len(seq)]
  BY <1>3, Zenon DEF Chosen
<1>5. Upto(g, seq, S)
  <2> HIDE DEF g
  <2>1. 0 \in 0..Len(seq) /\ \A n \in 1..Len(seq) : n \in 0..Len(seq) /\ n # 0
    OBVIOUS
  <2> QED BY <1>4, <2>1, Zenon DEF Upto
<1> QED BY <1>4, <1>5

LEMMA UptoType ==
  ASSUME NEW X, NEW seq \in Seq(X), NEW S, NEW f, Upto(f, seq, S)
  PROVE  \A n \in 0..Len(seq) : f[n] \in Seq(X \cap S)
<1> SUFFICES ASSUME NEW n \in 0..Len(seq) PROVE f[n] \in Seq(X \cap S)
  OBVIOUS
<1> DEFINE T == {i \in 0..n : f[i] \in Seq(X \cap S)}
<1>1. 0 \in T
  <2>1. f[0] = <<>>
    BY Zenon DEF Upto
  <2>2. f[0] \in Seq(X \cap S) /\ 0 \in 0..n
    BY <2>1
  <2> QED BY <2>2
<1>2. ASSUME NEW i \in 1..n, i - 1 \in T PROVE i \in T
  <2>1. i \in 1..Len(seq)
    OBVIOUS
  <2>2. f[i] = IF seq[i] \in S THEN Append(f[i - 1], seq[i]) ELSE f[i - 1]
    BY <2>1, Zenon DEF Upto
  <2>3. f[i - 1] \in Seq(X \cap S) /\ seq[i] \in X
    BY <1>2, <2>1
  <2>4. f[i] \in Seq(X \cap S)
    BY <2>2, <2>3
  <2> QED BY <2>4
<1> HIDE DEF T
<1>3. n \in T
  BY <1>1, <1>2, Induction
<1> QED BY <1>3 DEF T

LEMMA ChosenType ==
  ASSUME NEW X, NEW seq \in Seq(X), NEW S
  PROVE  Chosen(seq, S) \in Seq(X \cap S)
<1>1. PICK f : Upto(f, seq, S) /\ Chosen(seq, S) = f[Len(seq)]
  BY ChosenIs
<1>2. Len(seq) \in 0..Len(seq)
  OBVIOUS
<1> QED BY <1>1, <1>2, UptoType

\* Nothing is chosen if no element is in S.
LEMMA ChosenNone ==
  ASSUME NEW S, NEW X, X \cap S = {}, NEW seq \in Seq(X)
  PROVE  Chosen(seq, S) = <<>>
<1>1. Chosen(seq, S) \in Seq({})
  BY ChosenType
<1> QED BY <1>1

\* How Chosen goes through a sequence.
LEMMA ChosenAppend ==
  ASSUME NEW X, NEW seq \in Seq(X), NEW x \in X, NEW S
  PROVE  Chosen(Append(seq, x), S)
           = IF x \in S THEN Append(Chosen(seq, S), x) ELSE Chosen(seq, S)
<1>1. PICK f : Upto(f, seq, S) /\ Chosen(seq, S) = f[Len(seq)]
  BY ChosenIs
<1> DEFINE more == Append(seq, x)
<1>2. more \in Seq(X) /\ Len(more) = Len(seq) + 1 /\ more[Len(more)] = x
      /\ \A n \in 1..Len(seq) : more[n] = seq[n]
  OBVIOUS
<1> HIDE DEF more
<1>3. PICK g : Upto(g, more, S) /\ Chosen(more, S) = g[Len(more)]
  BY <1>2, ChosenIs
<1> DEFINE T == {n \in 0..Len(seq) : f[n] = g[n]}
<1>4. 0 \in T
  BY <1>1, <1>3 DEF Upto
<1>5. ASSUME NEW n \in 1..Len(seq), n - 1 \in T PROVE n \in T
  BY <1>1, <1>2, <1>3, <1>5 DEF Upto
<1>6. f[Len(seq)] = g[Len(seq)]
  <2> HIDE DEF T
  <2>1. Len(seq) \in T
    BY <1>4, <1>5, Induction, Len(seq) \in Nat
  <2> QED BY <2>1 DEF T
<1>7. g[Len(more)] = IF x \in S THEN Append(g[Len(seq)], x) ELSE g[Len(seq)]
  BY <1>2, <1>3 DEF Upto
<1> QED BY <1>1, <1>3, <1>6, <1>7 DEF more

\* All of a sequence is chosen if all its elements are.
LEMMA ChosenAll ==
  ASSUME NEW S, NEW seq \in Seq(S)
  PROVE  Chosen(seq, S) = seq
<1>1. PICK f : Upto(f, seq, S) /\ Chosen(seq, S) = f[Len(seq)]
  BY ChosenIs
<1> DEFINE T == {n \in 0..Len(seq) : f[n] = SubSeq(seq, 1, n)}
<1>2. 0 \in T
  <2>1. f[0] = <<>>
    BY <1>1, Zenon DEF Upto
  <2>2. SubSeq(seq, 1, 0) = <<>> /\ 0 \in 0..Len(seq)
    OBVIOUS
  <2> QED BY <2>1, <2>2
<1>3. ASSUME NEW n \in 1..Len(seq), n - 1 \in T PROVE n \in T
  <2>0. f[n] = IF seq[n] \in S THEN Append(f[n - 1], seq[n]) ELSE f[n - 1]
    BY <1>1, Zenon DEF Upto
  <2>1. f[n] = Append(SubSeq(seq, 1, n - 1), seq[n])
    BY <1>3, <2>0
  <2>2. SubSeq(seq, 1, n) = Append(SubSeq(seq, 1, n - 1), seq[n])
    OBVIOUS
  <2> QED BY <2>1, <2>2
<1>4. f[Len(seq)] = SubSeq(seq, 1, Len(seq))
  <2> HIDE DEF T
  <2>1. Len(seq) \in T
    BY <1>2, <1>3, Induction, Len(seq) \in Nat
  <2> QED BY <2>1 DEF T
<1> QED BY <1>1, <1>4

\* What is chosen of what has been chosen.
LEMMA ChosenTwice ==
  ASSUME NEW X, NEW seq \in Seq(X), NEW R, NEW S
  PROVE  Chosen(Chosen(seq, R), S) = Chosen(seq, R \cap S)
<1>1. PICK f : Upto(f, seq, R) /\ Chosen(seq, R) = f[Len(seq)]
  BY ChosenIs
<1>2. PICK g : Upto(g, seq, R \cap S) /\ Chosen(seq, R \cap S) = g[Len(seq)]
  BY ChosenIs
<1> DEFINE T == {n \in 0..Len(seq) : Chosen(f[n], S) = g[n]}
<1>3. 0 \in T
  <2>1. Chosen(<<>>, S) = <<>>
    BY ChosenNone, <<>> \in Seq({}), {} \cap S = {}
  <2> QED BY <1>1, <1>2, <2>1 DEF Upto
<1>4. ASSUME NEW n \in 1..Len(seq), n - 1 \in T PROVE n \in T
  <2>1. f[n - 1] \in Seq(X) /\ seq[n] \in X
    <3>1. n - 1 \in 0..Len(seq)
      OBVIOUS
    <3>2. f[n - 1] \in Seq(X \cap R)
      BY <1>1, <3>1, UptoType
    <3> QED BY <3>2
  <2>2. CASE seq[n] \notin R
    BY <1>1, <1>2, <1>4, <2>2 DEF Upto
  <2>3. CASE seq[n] \in R
    <3>1. f[n] = Append(f[n - 1], seq[n])
      BY <1>1, <2>3, Zenon DEF Upto
    <3>2. Chosen(Append(f[n - 1], seq[n]), S)
            = IF seq[n] \in S THEN Append(Chosen(f[n - 1], S), seq[n]) ELSE Chosen(f[n - 1], S)
      <4> DEFINE x == f[n - 1]  y == seq[n]
      <4>1. x \in Seq(X) /\ y \in X
        BY <2>1
      <4> HIDE DEF x, y
      <4>2. Chosen(Append(x, y), S)
              = IF y \in S THEN Append(Chosen(x, S), y) ELSE Chosen(x, S)
        BY ONLY <4>1, ChosenAppend, Zenon
      <4> QED BY <4>2 DEF x, y
    <3>3. g[n] = IF seq[n] \in S THEN Append(g[n - 1], seq[n]) ELSE g[n - 1]
      BY <1>2, <2>3 DEF Upto
    <3>4. Chosen(f[n - 1], S) = g[n - 1]
      BY <1>4
    <3>5. Chosen(f[n], S) = g[n]
      BY <3>1, <3>2, <3>3, <3>4, Zenon
    <3> QED BY <3>5
  <2> QED BY <2>2, <2>3
<1>5. Chosen(f[Len(seq)], S) = g[Len(seq)]
  <2> HIDE DEF T
  <2>1. Len(seq) \in T
    BY <1>3, <1>4, Induction, Len(seq) \in Nat
  <2> QED BY <2>1 DEF T
<1> QED BY <1>1, <1>2, <1>5

LEMMA OneMore ==
  ASSUME NEW X, NEW seq \in Seq(X), NEW x \in X, NEW S, NEW more,
         more = IF x \in S THEN Append(seq, x) ELSE seq
  PROVE  /\ Len(more) \in Nat /\ Len(seq) \in Nat
         /\ x \in S => Len(more) = Len(seq) + 1
         /\ x \notin S => Len(more) = Len(seq)
OBVIOUS

\* Less is chosen of a beginning, and by a smaller set.
LEMMA ChosenLess ==
  ASSUME NEW X, NEW seq \in Seq(X), NEW n \in 0..Len(seq), NEW S, NEW R \in SUBSET S
  PROVE  Len(Chosen(SubSeq(seq, 1, n), R)) <= Len(Chosen(seq, S))
<1> DEFINE part == SubSeq(seq, 1, n)
<1>1. part \in Seq(X) /\ Len(part) = n /\ \A i \in 1..n : part[i] = seq[i]
  OBVIOUS
<1> HIDE DEF part
<1>2. PICK f : Upto(f, part, R) /\ Chosen(part, R) = f[n]
  BY <1>1, ChosenIs
<1>3. PICK g : Upto(g, seq, S) /\ Chosen(seq, S) = g[Len(seq)]
  BY ChosenIs
<1>4. ASSUME NEW i \in 0..Len(seq)
      PROVE  (i <= n => f[i] \in Seq(X \cap R)) /\ g[i] \in Seq(X \cap S)
  <2>1. i <= n => i \in 0..Len(part)
    BY <1>1
  <2> QED BY <1>1, <1>2, <1>3, <2>1, UptoType
<1> DEFINE m(i) == IF i <= n THEN f[i] ELSE f[n]
           T    == {i \in 0..Len(seq) : Len(m(i)) <= Len(g[i])}
<1>5. 0 \in T
  <2>1. f[0] = <<>> /\ g[0] = <<>>
    BY <1>2, <1>3, Zenon DEF Upto
  <2> QED BY <2>1
<1>6. ASSUME NEW i \in 1..Len(seq), i - 1 \in T PROVE i \in T
  <2>1. g[i] = IF seq[i] \in S THEN Append(g[i - 1], seq[i]) ELSE g[i - 1]
    BY <1>3, Zenon DEF Upto
  <2>2. i - 1 \in 0..Len(seq) /\ g[i - 1] \in Seq(X)
    BY <1>4
  <2>3. seq[i] \in X
    OBVIOUS
  <2>4. /\ Len(g[i]) \in Nat /\ Len(g[i - 1]) \in Nat
        /\ seq[i] \in S => Len(g[i]) = Len(g[i - 1]) + 1
        /\ seq[i] \notin S => Len(g[i]) = Len(g[i - 1])
    BY <2>1, <2>2, <2>3, OneMore
  <2>5. CASE i <= n
    <3>1. i \in 1..Len(part) /\ part[i] = seq[i]
      BY <1>1, <2>5
    <3>2. f[i] = IF part[i] \in R THEN Append(f[i - 1], part[i]) ELSE f[i - 1]
      BY <1>2, <3>1, Zenon DEF Upto
    <3>3. f[i - 1] \in Seq(X)
      BY <1>4, <2>2, <2>5
    <3>4. /\ Len(f[i]) \in Nat /\ Len(f[i - 1]) \in Nat
          /\ seq[i] \in R => Len(f[i]) = Len(f[i - 1]) + 1
          /\ seq[i] \notin R => Len(f[i]) = Len(f[i - 1])
      BY <2>3, <3>1, <3>2, <3>3, OneMore
    <3>5. Len(f[i - 1]) <= Len(g[i - 1])
      BY <1>6, <2>5
    <3>6. Len(f[i]) <= Len(g[i])
      BY <2>4, <3>4, <3>5
    <3> QED BY <2>5, <3>6
  <2>6. CASE n < i
    <3>1. m(i - 1) = f[n]
      BY <2>6
    <3>2. Len(f[n]) <= Len(g[i - 1]) /\ Len(f[n]) \in Nat
      BY <1>4, <1>6, <3>1
    <3>3. Len(f[n]) <= Len(g[i])
      BY <2>4, <3>2
    <3> QED BY <2>6, <3>3
  <2> QED BY <2>5, <2>6
<1>7. Len(f[n]) <= Len(g[Len(seq)])
  <2>1. Len(seq) \in T
    <3> HIDE DEF T
    <3> QED BY <1>5, <1>6, Induction, Len(seq) \in Nat
  <2> QED BY <2>1
<1> QED BY <1>2, <1>3, <1>7 DEF part

-----------------------------------------------------------------------------
LocalType == [desired_stages : SUBSET Stage, actions : {<<>>},
              personal : Addr \cup {None}, rejects : BOOLEAN]

Sequenced ==
  /\ address \in Seq(Addr) /\ owner \in Seq(Nat) /\ ran \in Seq(SUBSET (Path \X Script))
  /\ last \in Seq(Script \cup {None}) /\ Len(last) = Len(address)
  /\ Len(owner) = Len(address) /\ Len(ran) = Len(address)
  /\ \A k \in DOMAIN owner : owner[k] <= k
  /\ local \in [DOMAIN local -> LocalType]

\* The default list entry is there, and is what the cache says once it was looked up.
Scripts ==
  /\ list["default"] # None
  /\ "default" \in DOMAIN cached => cached["default"] # None

Shares ==
  \A k, j \in DOMAIN owner : owner[k] = owner[j] /\ k # j =>
    /\ address[k] \in DOMAIN cached /\ address[j] \in DOMAIN cached
    /\ cached[address[k]] = cached[address[j]]

\* What has run for the recipient at a is the file its keys lead to, and the script is the
\* one still there unless the file has been replaced.
RunOf(r, a) ==
  /\ Keys(cached, a) \subseteq DOMAIN cached
  /\ r[1] = GetScript(cached, a)
  /\ r[1] \notin replaced => r[2] = file[r[1]]

Runs ==
  \A k \in DOMAIN ran :
    /\ \A r \in ran[k] : RunOf(r, address[k])
    /\ last[k] # None => \E r \in ran[k] : r[2] = last[k]

SieveInv == TypeOK /\ Sequenced /\ Scripts /\ Shares /\ Runs

-----------------------------------------------------------------------------
\* The cache only grows, and with what the list has at that time.
Grows(known, later) ==
  /\ DOMAIN known \subseteq DOMAIN later /\ \A k \in DOMAIN known : later[k] = known[k]

LEMMA Settled ==
  ASSUME NEW keys \in SUBSET Finder, NEW a \in Addr
  PROVE  /\ Grows(cached, Looked(cached, keys)) /\ keys \subseteq DOMAIN Looked(cached, keys)
         /\ DOMAIN Looked(cached, keys) = DOMAIN cached \cup keys
         /\ \A k \in Finder : Found(Looked(cached, keys), k) = Found(cached, k)
         /\ \A k \in DOMAIN Looked(cached, keys) :
              Looked(cached, keys)[k] = Found(cached, k)
         /\ Keys(Looked(cached, keys), a) = Keys(cached, a)
         /\ GetScript(Looked(cached, keys), a) = GetScript(cached, a)
<1>1. /\ DOMAIN Looked(cached, keys) = DOMAIN cached \cup keys
      /\ \A k \in DOMAIN cached \cup keys : Looked(cached, keys)[k] = Found(cached, k)
  BY DEF Looked, Found
<1>2. Grows(cached, Looked(cached, keys))
  BY <1>1 DEF Grows, Found
<1>3. \A k \in Finder : Found(Looked(cached, keys), k) = Found(cached, k)
  BY <1>1 DEF Found
<1>4. a \in Finder /\ "default" \in Finder
  BY DEF Finder
<1> QED BY <1>1, <1>2, <1>3, <1>4 DEF Keys, GetScript

\* The files that have not been replaced say the same.
FilesStay == \A x \in Path : x \notin replaced' => x \notin replaced /\ file'[x] = file[x]

\* Runs go on to be what the keys lead to.
LEMMA RunOfStays ==
  ASSUME Grows(cached, cached'), FilesStay, NEW a \in Addr, NEW r \in Path \X Script,
         RunOf(r, a)
  PROVE  RunOf(r, a)'
<1>1. /\ Keys(cached, a) \subseteq DOMAIN cached /\ r[1] = GetScript(cached, a)
      /\ r[1] \notin replaced => r[2] = file[r[1]]
  BY DEF RunOf
<1>2. (Keys(cached, a) \subseteq DOMAIN cached)'
  BY <1>1 DEF Grows, Keys, Found
<1>3. GetScript(cached, a)' = GetScript(cached, a)
  BY <1>1 DEF Grows, Keys, GetScript, Found
<1>4. (r[1] \notin replaced => r[2] = file[r[1]])'
  BY <1>1 DEF FilesStay
<1> QED BY <1>1, <1>2, <1>3, <1>4 DEF RunOf

\* A step that makes no recipient and runs nothing.
LEMMA QuietStep ==
  ASSUME SieveInv, Grows(cached, cached'), FilesStay, UNCHANGED <<address, owner, ran, last>>
  PROVE  Shares' /\ Runs'
<1>1. Shares'
  <2> SUFFICES ASSUME NEW k \in DOMAIN owner, NEW j \in DOMAIN owner, owner[k] = owner[j],
                      k # j
               PROVE  /\ address[k] \in DOMAIN cached' /\ address[j] \in DOMAIN cached'
                      /\ cached'[address[k]] = cached'[address[j]]
    BY DEF Shares
  <2> QED BY DEF SieveInv, Shares, Grows
<1>2. Runs'
  <2> SUFFICES ASSUME NEW k \in DOMAIN ran
               PROVE  /\ \A r \in ran[k] : RunOf(r, address[k])'
                      /\ last[k] # None => \E r \in ran[k] : r[2] = last[k]
    BY DEF Runs
  <2>1. address[k] \in Addr /\ ran[k] \subseteq Path \X Script
    BY DEF SieveInv, Sequenced
  <2>2. \A r \in ran[k] : RunOf(r, address[k])
    BY DEF SieveInv, Runs
  <2> QED
    <3> DEFINE a == address[k]
    <3>1. a \in Addr /\ (\A r \in ran[k] : r \in Path \X Script /\ RunOf(r, a)) /\ a' = a
      BY <2>1, <2>2
    <3>2. \A r \in ran[k] : RunOf(r, a)'
      BY <3>1, RunOfStays
    <3> QED BY <3>2 DEF SieveInv, Runs
<1> QED BY <1>1, <1>2

\* A user's upload: the default entry is not theirs to change.
LEMMA UploadKeeps == ASSUME SieveInv, Upload PROVE SieveInv'
<1>1. /\ uploads < MaxUploads /\ uploads' = uploads + 1
      /\ UNCHANGED <<sized, sender, cached, address, owner, accepted, local, stage, todo,
                     lost, phase, ran, last>>
  BY DEF Upload, history
<1>2. /\ list' \in [Finder -> Path \cup {None}] /\ list'["default"] = list["default"]
      /\ file' \in [Path -> Script] /\ replaced' \subseteq Path /\ FilesStay
  <2>1. ASSUME NEW f \in Path, NEW s \in Script, file' = [file EXCEPT ![f] = s],
               replaced' = replaced \cup {f}, UNCHANGED list
        PROVE  file' \in [Path -> Script] /\ replaced' \subseteq Path /\ FilesStay
    BY <2>1 DEF SieveInv, TypeOK, FilesStay
  <2>2. ASSUME NEW a \in Addr, NEW f \in Path \cup {None}, list' = [list EXCEPT ![a] = f]
        PROVE  list' \in [Finder -> Path \cup {None}] /\ list'["default"] = list["default"]
    BY <2>2, SieveAssumption DEF SieveInv, TypeOK, Finder
  <2>3. UNCHANGED <<file, replaced>> => FilesStay
    BY DEF FilesStay
  <2> QED BY <2>1, <2>2, <2>3 DEF Upload, SieveInv, TypeOK
<1>3. uploads' \in 0..MaxUploads
  BY <1>1, SieveAssumption DEF SieveInv, TypeOK
<1>4. TypeOK'
  BY <1>1, <1>2, <1>3 DEF SieveInv, TypeOK
<1>5. Sequenced' /\ Scripts'
  BY <1>1, <1>2 DEF SieveInv, Sequenced, Scripts
<1>6. Shares' /\ Runs'
  BY <1>1, <1>2, QuietStep DEF Grows
<1> QED BY <1>4, <1>5, <1>6 DEF SieveInv

\* The cell taken for a recipient belongs to an accepted one, and both keys have been
\* compared.
LEMMA CellTaken ==
  ASSUME SieveInv, NEW a \in Addr, Sharing(cached, a) # {}
  PROVE  \E j \in accepted : /\ j = (CHOOSE i \in Sharing(cached, a) : TRUE)
                             /\ Found(cached, address[j]) = Found(cached, a)
                             /\ {a, address[j]} \subseteq Compared(cached, a)
<1>1. PICK j \in Sharing(cached, a) : j = (CHOOSE i \in Sharing(cached, a) : TRUE)
  OBVIOUS
<1>2. j \in accepted /\ Equal(cached, j, a) /\ \A i \in Sharing(cached, a) : j <= i
  BY DEF Sharing, First
<1>3. a \in Compared(cached, a) /\ address[j] \in Compared(cached, a)
  BY <1>2 DEF Compared
<1> QED BY <1>1, <1>2, <1>3 DEF Equal

LEMMA ArriveKeeps == ASSUME SieveInv, NEW a \in Addr, Arrive(a) PROVE SieveInv'
<1> DEFINE n      == Len(address) + 1
           shared == Sharing(cached, a)
           cell   == IF shared = {} THEN n ELSE owner[CHOOSE j \in shared : TRUE]
<1>1. /\ Len(address) < MaxRcpt /\ cached' = Looked(cached, Compared(cached, a))
      /\ address' = Append(address, a) /\ owner' = Append(owner, cell)
      /\ local' = LocalWith(cell) /\ todo' = {n} /\ ran' = Append(ran, {})
      /\ last' = Append(last, None)
      /\ UNCHANGED <<list, file, uploads, replaced, sized, sender, accepted, stage, lost, phase>>
  BY DEF Arrive, message
<1>2. /\ address \in Seq(Addr) /\ owner \in Seq(Nat) /\ ran \in Seq(SUBSET (Path \X Script))
      /\ Len(owner) = Len(address) /\ Len(ran) = Len(address)
      /\ last \in Seq(Script \cup {None}) /\ Len(last) = Len(address)
      /\ accepted \subseteq DOMAIN address /\ DOMAIN cached \subseteq Finder
      /\ \A k \in DOMAIN cached : cached[k] \in Path \cup {None}
      /\ list \in [Finder -> Path \cup {None}]
  BY DEF SieveInv, Sequenced, TypeOK
<1>3. /\ address' \in Seq(Addr) /\ Len(address') = n /\ address'[n] = a
      /\ \A k \in 1..Len(address) : address'[k] = address[k]
  BY <1>1, <1>2
<1>4. Compared(cached, a) \subseteq Finder
  BY <1>2 DEF Compared, Finder
<1>5. /\ Grows(cached, cached') /\ Compared(cached, a) \subseteq DOMAIN cached'
      /\ \A k \in DOMAIN cached' : cached'[k] = Found(cached, k)
      /\ DOMAIN cached' \subseteq Finder
  <2> DEFINE keys == Compared(cached, a)
  <2>1. keys \in SUBSET Finder /\ cached' = Looked(cached, keys)
    BY <1>1, <1>4
  <2> HIDE DEF keys
  <2>2. /\ Grows(cached, cached') /\ keys \subseteq DOMAIN cached'
        /\ DOMAIN cached' = DOMAIN cached \cup keys
        /\ \A k \in DOMAIN cached' : cached'[k] = Found(cached, k)
    BY <2>1, Settled, Zenon
  <2> QED BY <1>2, <2>1, <2>2 DEF keys
<1>6. cell \in Nat /\ cell <= n
  <2>1. CASE shared = {}
    BY <1>2, <2>1
  <2>2. CASE shared # {}
    <3>1. PICK j \in accepted : j = (CHOOSE i \in shared : TRUE)
      BY <2>2, CellTaken
    <3>2. j \in 1..Len(address) /\ cell = owner[j]
      BY <1>2, <2>2, <3>1
    <3> QED BY <1>2, <3>2 DEF SieveInv, Sequenced
  <2> QED BY <2>1, <2>2
<1>7. /\ owner' \in Seq(Nat) /\ Len(owner') = n /\ owner'[n] = cell
      /\ \A k \in 1..Len(address) : owner'[k] = owner[k]
  BY <1>1, <1>2, <1>6
<1>8. /\ ran' \in Seq(SUBSET (Path \X Script)) /\ Len(ran') = n /\ ran'[n] = {}
      /\ last' \in Seq(Script \cup {None}) /\ Len(last') = n /\ last'[n] = None
      /\ \A k \in 1..Len(address) : ran'[k] = ran[k] /\ last'[k] = last[k]
  BY <1>1, <1>2
<1>9. /\ DOMAIN local' = DOMAIN local \cup {cell} /\ local' \in [DOMAIN local' -> LocalType]
  <2>1. NewLocal \in LocalType
    BY DEF NewLocal, LocalType, Stage
  <2> QED BY <1>1, <2>1 DEF LocalWith, SieveInv, Sequenced
<1>10. Sequenced'
  <2>1. ASSUME NEW k \in DOMAIN owner' PROVE owner'[k] <= k
    <3>1. k \in 1..Len(address) \cup {n} /\ DOMAIN owner = 1..Len(address)
      BY <1>2, <1>7
    <3> QED BY <1>6, <1>7, <3>1 DEF SieveInv, Sequenced
  <2> QED BY <1>3, <1>7, <1>8, <1>9, <2>1 DEF Sequenced
<1>11. Scripts'
  BY <1>1, <1>5 DEF SieveInv, Scripts, Found
<1>12. TypeOK'
  <2>1. \A k \in DOMAIN cached' : cached'[k] \in Path \cup {None}
    BY <1>2, <1>5 DEF Found
  <2>2. \A k \in DOMAIN address' : address'[k] \in Addr /\ owner'[k] \in DOMAIN local'
    <3> SUFFICES ASSUME NEW k \in DOMAIN address'
                 PROVE  address'[k] \in Addr /\ owner'[k] \in DOMAIN local'
      OBVIOUS
    <3>1. k \in 1..Len(address) \cup {n} /\ DOMAIN address = 1..Len(address)
      BY <1>2, <1>3
    <3>2. CASE k = n
      BY <1>3, <1>7, <1>9, <3>2
    <3>3. CASE k \in 1..Len(address)
      BY <1>3, <1>7, <1>9, <3>1, <3>3 DEF SieveInv, TypeOK
    <3> QED BY <3>1, <3>2, <3>3
  <2>3. \A c \in DOMAIN local' :
          /\ local'[c].desired_stages \subseteq Stage
          /\ local'[c].personal \in Addr \cup {None} /\ local'[c].rejects \in BOOLEAN
    BY <1>9 DEF LocalType
  <2>4. Len(address') \in 0..MaxRcpt /\ DOMAIN owner' = DOMAIN address'
    BY <1>1, <1>2, <1>3, <1>7, SieveAssumption
  <2>5. accepted' \subseteq DOMAIN address' /\ todo' \subseteq DOMAIN address'
    BY <1>1, <1>2, <1>3
  <2> QED BY <1>1, <1>5, <2>1, <2>2, <2>3, <2>4, <2>5 DEF SieveInv, TypeOK
<1>13. Shares'
  <2>1. ASSUME NEW k \in 1..Len(address), cell = owner[k]
        PROVE  /\ address[k] \in DOMAIN cached' /\ a \in DOMAIN cached'
               /\ cached'[address[k]] = cached'[a]
    <3>1. shared # {}
      BY <1>2, <2>1 DEF SieveInv, Sequenced
    <3>2. PICK j \in accepted : /\ j = (CHOOSE i \in Sharing(cached, a) : TRUE)
                                /\ Found(cached, address[j]) = Found(cached, a)
                                /\ {a, address[j]} \subseteq Compared(cached, a)
      BY <3>1, CellTaken
    <3>3. /\ a \in DOMAIN cached' /\ address[j] \in DOMAIN cached'
          /\ cached'[address[j]] = cached'[a]
      BY <1>5, <3>2
    <3>4. j \in DOMAIN owner /\ k \in DOMAIN owner /\ owner[j] = owner[k]
      BY <1>2, <2>1, <3>1, <3>2
    <3>5. k # j => address[k] \in DOMAIN cached /\ address[j] \in DOMAIN cached
                   /\ cached[address[k]] = cached[address[j]]
      BY <3>4 DEF SieveInv, Shares
    <3> QED BY <1>5, <3>3, <3>5 DEF Grows
  <2>2. ASSUME NEW k \in 1..Len(address), NEW j \in 1..Len(address), owner[k] = owner[j],
               k # j
        PROVE  /\ address[k] \in DOMAIN cached' /\ address[j] \in DOMAIN cached'
               /\ cached'[address[k]] = cached'[address[j]]
    <3>1. k \in DOMAIN owner /\ j \in DOMAIN owner
      BY <1>2
    <3>2. /\ address[k] \in DOMAIN cached /\ address[j] \in DOMAIN cached
          /\ cached[address[k]] = cached[address[j]]
      BY <2>2, <3>1, Zenon DEF SieveInv, Shares
    <3> QED BY <1>5, <3>2, Zenon DEF Grows
  <2>3. DOMAIN owner' = 1..Len(address) \cup {n}
    BY <1>2, <1>7
  <2> SUFFICES ASSUME NEW k \in DOMAIN owner', NEW j \in DOMAIN owner',
                      owner'[k] = owner'[j], k # j
               PROVE  /\ address'[k] \in DOMAIN cached' /\ address'[j] \in DOMAIN cached'
                      /\ cached'[address'[k]] = cached'[address'[j]]
    BY DEF Shares
  <2>4. CASE k \in 1..Len(address) /\ j \in 1..Len(address)
    BY <1>3, <1>7, <2>2, <2>4
  <2>5. CASE k = n /\ j \in 1..Len(address)
    BY <1>3, <1>7, <2>1, <2>5
  <2>6. CASE j = n /\ k \in 1..Len(address)
    BY <1>3, <1>7, <2>1, <2>6
  <2> QED BY <2>3, <2>4, <2>5, <2>6
<1>14. Runs'
  <2>1. FilesStay
    BY <1>1 DEF FilesStay
  <2> SUFFICES ASSUME NEW k \in DOMAIN ran'
               PROVE  /\ \A r \in ran'[k] : RunOf(r, address[k])'
                      /\ last'[k] # None => \E r \in ran'[k] : r[2] = last'[k]
    BY DEF Runs
  <2>2. CASE k = n
    BY <1>8, <2>2
  <2>3. CASE k # n
    <3> DEFINE b == address[k]
    <3>1. k \in 1..Len(address) /\ k \in DOMAIN ran /\ ran'[k] = ran[k] /\ last'[k] = last[k]
          /\ b' = b /\ b \in Addr /\ ran[k] \subseteq Path \X Script
      BY <1>2, <1>3, <1>8, <2>3
    <3>2. \A r \in ran[k] : RunOf(r, b)
      BY <3>1 DEF SieveInv, Runs
    <3>3. \A r \in ran[k] : RunOf(r, b)'
      BY <1>5, <2>1, <3>1, <3>2, RunOfStays
    <3> QED BY <3>1, <3>3 DEF SieveInv, Runs
  <2> QED BY <2>2, <2>3
<1> QED BY <1>10, <1>11, <1>12, <1>13, <1>14 DEF SieveInv

\* A run changes the cell, and never leaves an action in it.
LEMMA RunLocal ==
  ASSUME NEW p, NEW s \in Stage, NEW l \in LocalType, NEW lapse \in BOOLEAN, NEW a \in Addr
  PROVE  Included(Outcome(p, s, l, lapse), a) \in LocalType
<1> DEFINE o == Outcome(p, s, l, lapse)
<1>1. Asked(p, s) \subseteq Stage
  BY DEF Asked, Lacks, Stage
<1>2. /\ l.desired_stages \subseteq Stage /\ l.personal \in Addr \cup {None}
      /\ l.rejects \in BOOLEAN
  BY DEF LocalType
<1>3. \A S : S \subseteq Stage => Desired(l, S) \subseteq Stage
  BY <1>2 DEF Desired
<1>4. o.local \in LocalType
  <2>1. PICK S \in SUBSET Stage, r \in BOOLEAN :
          o.local = [l EXCEPT !.desired_stages = Desired(l, S), !.actions = <<>>, !.rejects = r]
    BY <1>1, <1>2 DEF Outcome, Leftover, Stage
  <2>2. Desired(l, S) \in SUBSET Stage
    BY <1>3
  <2> QED BY <1>2, <2>1, <2>2 DEF LocalType
<1> QED BY <1>4 DEF Included, LocalType

LEMMA RunKeeps == ASSUME SieveInv, NEW k \in Rcpt, Run(k) PROVE SieveInv'
<1> DEFINE a      == address[k]
           path   == GetScript(cached, a)
           cell   == owner[k]
<1>1. /\ address \in Seq(Addr) /\ owner \in Seq(Nat) /\ ran \in Seq(SUBSET (Path \X Script))
      /\ last \in Seq(Script \cup {None}) /\ Len(last) = Len(address)
      /\ file \in [Path -> Script]
      /\ Len(owner) = Len(address) /\ Len(ran) = Len(address)
      /\ accepted \subseteq DOMAIN address /\ DOMAIN cached \subseteq Finder
      /\ \A x \in DOMAIN cached : cached[x] \in Path \cup {None}
      /\ list \in [Finder -> Path \cup {None}] /\ local \in [DOMAIN local -> LocalType]
      /\ stage \in Stage /\ todo \subseteq DOMAIN address
  BY DEF SieveInv, Sequenced, TypeOK
<1>2. k \in todo /\ k \in DOMAIN address /\ a \in Addr
  BY <1>1 DEF Run, First
<1>3. PICK lapse \in BOOLEAN, p \in Paths(Program[file[path]][a]) :
        LET o == Outcome(p, stage, local[cell], lapse)
        IN  /\ cached' = Looked(cached, Keys(cached, a))
            /\ local' = [local EXCEPT ![cell] = Included(o, a)]
            /\ ran' = [ran EXCEPT ![k] = @ \cup {<<path, file[path]>>}]
            /\ last' = [last EXCEPT ![k] = file[path]]
            /\ todo' \subseteq todo /\ accepted' \subseteq accepted \cup {k}
            /\ phase' \in {"rejected", phase}
  BY DEF Run, Noted
<1>4. UNCHANGED <<list, file, uploads, replaced, sized, sender, address, owner, stage, lost>>
  BY DEF Run, message
<1>5. /\ DOMAIN local' = DOMAIN local /\ local' \in [DOMAIN local' -> LocalType]
  <2>1. cell \in DOMAIN local
    BY <1>2 DEF SieveInv, TypeOK
  <2>2. Included(Outcome(p, stage, local[cell], lapse), a) \in LocalType
    BY <1>1, <1>2, <2>1, RunLocal
  <2> QED BY <1>1, <1>3, <2>1, <2>2
<1>6. Keys(cached, a) \subseteq Finder
  BY <1>2 DEF Keys, Finder
<1>7. /\ Grows(cached, cached') /\ Keys(cached, a) \subseteq DOMAIN cached'
      /\ \A x \in DOMAIN cached' : cached'[x] = Found(cached, x)
      /\ DOMAIN cached' \subseteq Finder
  <2>1. /\ DOMAIN cached' = DOMAIN cached \cup Keys(cached, a)
        /\ \A x \in DOMAIN cached' : cached'[x] = Found(cached, x)
    BY <1>3 DEF Looked, Found
  <2> QED BY <1>1, <1>6, <2>1 DEF Grows, Found
<1>8. path \in Path /\ file[path] \in Script
  <2>1. Found(cached, "default") # None
    BY DEF SieveInv, Scripts, Found
  <2>2. \A x \in Finder : Found(cached, x) \in Path \cup {None}
    BY <1>1 DEF Found
  <2>3. path \in Path
    BY <1>2, <2>1, <2>2 DEF GetScript, Finder
  <2> QED BY <1>1, <2>3
<1> DEFINE run == <<path, file[path]>>
<1>9. /\ ran' \in Seq(SUBSET (Path \X Script)) /\ Len(ran') = Len(ran)
      /\ ran'[k] = ran[k] \cup {run} /\ \A j \in DOMAIN ran \ {k} : ran'[j] = ran[j]
      /\ last' \in Seq(Script \cup {None}) /\ Len(last') = Len(last)
      /\ last'[k] = file[path] /\ \A j \in DOMAIN last \ {k} : last'[j] = last[j]
  <2>1. k \in DOMAIN ran /\ k \in DOMAIN last /\ run \in Path \X Script
    BY <1>1, <1>2, <1>8
  <2>2. ran' = [ran EXCEPT ![k] = @ \cup {run}] /\ last' = [last EXCEPT ![k] = file[path]]
    BY <1>3
  <2> HIDE DEF run, path
  <2> QED BY <1>1, <1>8, <2>1, <2>2
<1>10. Sequenced'
  BY <1>1, <1>4, <1>5, <1>9 DEF SieveInv, Sequenced
<1>11. Scripts'
  BY <1>4, <1>7 DEF SieveInv, Scripts, Found
<1>12. TypeOK'
  <2>1. \A x \in DOMAIN cached' : cached'[x] \in Path \cup {None}
    BY <1>1, <1>7 DEF Found
  <2>2. \A c \in DOMAIN local' :
          /\ local'[c].desired_stages \subseteq Stage
          /\ local'[c].personal \in Addr \cup {None} /\ local'[c].rejects \in BOOLEAN
    BY <1>5 DEF LocalType
  <2>3. accepted' \subseteq DOMAIN address' /\ todo' \subseteq DOMAIN address'
    BY <1>1, <1>2, <1>3, <1>4
  <2> QED BY <1>3, <1>4, <1>5, <1>7, <2>1, <2>2, <2>3 DEF SieveInv, TypeOK
<1>13. Shares'
  <2> SUFFICES ASSUME NEW i \in DOMAIN owner, NEW j \in DOMAIN owner, owner[i] = owner[j],
                      i # j
               PROVE  /\ address[i] \in DOMAIN cached' /\ address[j] \in DOMAIN cached'
                      /\ cached'[address[i]] = cached'[address[j]]
    BY <1>4 DEF Shares
  <2> QED BY <1>7 DEF SieveInv, Shares, Grows
<1>14. Runs'
  <2>1. FilesStay
    BY <1>4 DEF FilesStay
  <2> SUFFICES ASSUME NEW j \in DOMAIN ran'
               PROVE  /\ \A r \in ran'[j] : RunOf(r, address[j])'
                      /\ last'[j] # None => \E r \in ran'[j] : r[2] = last'[j]
    BY DEF Runs
  <2> DEFINE b == address[j]
  <2>2. j \in DOMAIN ran /\ j \in DOMAIN last /\ b' = b /\ b \in Addr
        /\ ran[j] \subseteq Path \X Script
    BY <1>1, <1>4, <1>9
  <2>3. \A r \in ran[j] : RunOf(r, b)
    BY <2>2 DEF SieveInv, Runs
  <2>4. \A r \in ran[j] : RunOf(r, b)'
    BY <1>7, <2>1, <2>2, <2>3, RunOfStays
  <2>5. CASE j # k
    BY <1>9, <2>2, <2>4, <2>5 DEF SieveInv, Runs
  <2>6. CASE j = k
    <3>1. a \in DOMAIN cached' /\ cached'[a] = Found(cached, a)
          /\ (cached'[a] = None =>
                "default" \in DOMAIN cached' /\ path = cached'["default"])
          /\ (cached'[a] # None => path = cached'[a])
      BY <1>7 DEF Keys, GetScript
    <3>2. (Keys(cached, a) \subseteq DOMAIN cached)' /\ GetScript(cached, a)' = path
      <4>1. a' = a
        BY <2>2, <2>6
      <4> HIDE DEF a, path
      <4> QED BY <3>1, <4>1 DEF Keys, GetScript, Found
    <3>3. ASSUME NEW r, r = run PROVE RunOf(r, b)'
      <4>1. r[1] = path /\ r[2] = file[path] /\ b' = a
        BY <2>2, <2>6, <3>3
      <4> HIDE DEF run, path, a, b
      <4>2. (r[1] \notin replaced => r[2] = file[r[1]])'
        BY <1>4, <4>1
      <4>3. (Keys(cached, b) \subseteq DOMAIN cached)' /\ (r[1] = GetScript(cached, b))'
        <5>1. a' = a
          BY <2>2, <2>6 DEF a, b
        <5> QED BY <3>2, <4>1, <5>1 DEF Keys, GetScript, Found
      <4> QED BY <4>2, <4>3 DEF RunOf
    <3>4. \A r \in ran'[j] : r \in ran[j] \/ r = run
      BY <1>9, <2>2, <2>6
    <3>5. \A r \in ran'[j] : RunOf(r, b)'
      BY <2>4, <3>3, <3>4
    <3>6. run \in ran'[j] /\ run[2] = last'[j]
      BY <1>9, <2>2, <2>6
    <3> QED BY <3>5, <3>6
  <2> QED BY <2>5, <2>6
<1> QED BY <1>10, <1>11, <1>12, <1>13, <1>14 DEF SieveInv

\* The rest: a recipient passed over, and the next callback of the MTA.
LEMMA StageKeeps ==
  ASSUME SieveInv, NextStage \/ \E k \in Rcpt : PassOver(k)
  PROVE  SieveInv'
<1>1. /\ UNCHANGED <<list, file, uploads, replaced, sized, sender, cached, address, owner,
                     accepted, local, ran, last>>
      /\ todo' \subseteq todo \cup accepted
      /\ stage' \in Stage /\ lost' \subseteq {"headers", "body"}
      /\ phase' \in {"message", "accepted", "rejected"}
  BY DEF NextStage, PassOver, message, history, Stage, Missing, SieveInv, TypeOK
<1>2. TypeOK' /\ Sequenced' /\ Scripts'
  BY <1>1 DEF SieveInv, TypeOK, Sequenced, Scripts
<1>3. Shares' /\ Runs'
  BY <1>1, QuietStep DEF Grows, FilesStay
<1> QED BY <1>2, <1>3 DEF SieveInv

THEOREM SieveInvariant == Spec => []SieveInv
<1>1. Init => SieveInv
  <2> SUFFICES ASSUME Init PROVE SieveInv
    OBVIOUS
  <2>1. /\ address = <<>> /\ owner = <<>> /\ ran = <<>> /\ last = <<>> /\ DOMAIN local = {}
        /\ DOMAIN cached = {} /\ local = [c \in {} |-> NewLocal]
    BY DEF Init
  <2>2. TypeOK
    BY <2>1, SieveAssumption DEF Init, TypeOK, Stage
  <2>3. Sequenced
    BY <2>1 DEF Sequenced
  <2>4. Scripts /\ Shares /\ Runs
    BY <2>1 DEF Init, Scripts, Shares, Runs
  <2> QED BY <2>2, <2>3, <2>4 DEF SieveInv
<1>2. SieveInv /\ [Next]_vars => SieveInv'
  <2> SUFFICES ASSUME SieveInv, [Next]_vars PROVE SieveInv'
    OBVIOUS
  <2>1. CASE UNCHANGED vars
    BY <2>1, QuietStep DEF vars, message, history, Grows, FilesStay, SieveInv, TypeOK, Sequenced,
                           Scripts
  <2> QED BY <2>1, UploadKeeps, ArriveKeeps, RunKeeps, StageKeeps DEF Next, Over
<1> QED BY <1>1, <1>2, PTL DEF Spec

\* Every variable keeps its type: a recipient has the cell it was given, and the cells
\* their stages (sieve::InitRcpt, prdr_envrcpt).
THEOREM SieveTypes == Spec => []TypeOK
<1>1. SieveInv => TypeOK
  BY DEF SieveInv
<1> QED BY <1>1, SieveInvariant, PTL

\* Recipients that share a cell are given one file, whatever users have in use meanwhile,
\* and one script unless it has been replaced (get_default_script_for_recipient,
\* libcyrus_sieve_run).
THEOREM OneFile == Spec => []OneFilePerCell
<1>1. SieveInv => OneFilePerCell
  <2> SUFFICES ASSUME SieveInv, NEW k \in DOMAIN owner, NEW j \in DOMAIN owner,
                      owner[k] = owner[j], NEW r \in ran[k] \cup ran[j],
                      NEW q \in ran[k] \cup ran[j]
               PROVE  r[1] = q[1] /\ (r[2] # q[2] => r[1] \in replaced)
    BY DEF OneFilePerCell
  <2>1. k \in DOMAIN ran /\ j \in DOMAIN ran
    BY DEF SieveInv, Sequenced
  <2>2. GetScript(cached, address[k]) = GetScript(cached, address[j])
    BY DEF SieveInv, Shares, GetScript, Found
  <2>3. /\ r[1] = GetScript(cached, address[k]) /\ q[1] = GetScript(cached, address[k])
        /\ r[1] \notin replaced => r[2] = file[r[1]]
        /\ q[1] \notin replaced => q[2] = file[q[1]]
    BY <2>1, <2>2 DEF SieveInv, Runs, RunOf
  <2> QED BY <2>3
<1> QED BY <1>1, SieveInvariant, PTL

-----------------------------------------------------------------------------
(***************************************************************************)
(* What is done of the actions of a script.                                *)
(***************************************************************************)
\* The stages that come after one, and the mail a script sends.
After(s) == CASE s = "RCPT" -> {"HEADERS", "BODY"} [] s = "HEADERS" -> {"BODY"} [] OTHER -> {}
Mail     == {"redirect", "vacation"}
Mailing(k, s) == Chosen(ActionsOf(s, k), Mail)

\* The recipients a stage goes through have been accepted before it; parts of the message
\* are missing when it is over, if ever.
Staged ==
  /\ stage = "RCPT" => todo \cap accepted = {}
  /\ stage # "RCPT" => todo \subseteq accepted
  /\ lost # {} => stage = "BODY" /\ ("headers" \in lost \/ sender = "null")
  /\ phase = "accepted" => stage = "BODY" /\ todo = {}
  /\ effects \in Seq(Seq(Action)) /\ Len(effects) = Len(address)
  /\ sent \in Seq(Seq(Action \X Stage \X SUBSET {"headers", "body"}))
  /\ Len(sent) = Len(address)

\* Mail is sent in the run at the end of the message, of which there is one.
Mailed ==
  \A k \in DOMAIN sent : sent[k] # <<>> =>
    /\ stage = "BODY" /\ k \notin todo
    /\ \A i \in DOMAIN sent[k] : sent[k][i][2] = "BODY" /\ sent[k][i][3] = lost
    /\ Len(sent[k]) <= Len(Mailing(k, last[k]))

\* On an empty message nobody runs any more if all accepted recipients share a cell.
Empty ==
  stage = "BODY" /\ "headers" \in lost /\ OneCell =>
    /\ \A k \in accepted : "BODY" \notin local[owner[k]].desired_stages
    /\ \A k \in DOMAIN sent : sent[k] = <<>>

\* A recipient's script has been carried out as far as it was not misled, or is going to
\* be run again.
Done(k) ==
  \/ effects[k] = ActionsOf(last[k], k)
  \/ Misled(k) /\ (sender = "null" \/ ~OneCell)

Carried ==
  phase # "rejected" =>
    \A k \in accepted :
      \/ Done(k)
      \/ local[owner[k]].desired_stages
           \cap (After(stage) \cup (IF k \in todo THEN {stage} ELSE {})) # {}

MailInv == Staged /\ Mailed /\ Empty /\ Carried

LEMMA ActionsType ==
  ASSUME NEW k \in DOMAIN address, address[k] \in Addr, NEW s \in Script
  PROVE  /\ Program[s][address[k]] \in Seq(Test \cup Action)
         /\ ActionsOf(s, k) \in Seq(Action) /\ Mailing(k, s) \in Seq(Mail)
         /\ Mailing(k, s) = Chosen(Program[s][address[k]], Mail)
<1>1. Program[s][address[k]] \in Seq(Test \cup Action)
  BY SieveAssumption
<1>2. /\ (Test \cup Action) \cap Action = Action /\ Action \cap Mail = Mail
  BY DEF Action, Mail
<1>3. ActionsOf(s, k) \in Seq(Action)
  BY <1>1, <1>2, ChosenType DEF ActionsOf
<1>4. Mailing(k, s) \in Seq(Mail)
  BY <1>2, <1>3, ChosenType DEF Mailing
<1>5. Mailing(k, s) = Chosen(Program[s][address[k]], Mail)
  BY <1>1, <1>2, ChosenTwice DEF Mailing, ActionsOf
<1> QED BY <1>1, <1>3, <1>4, <1>5

\* A run in which no callback comes first to lack something has made them all.
LEMMA NothingLacks ==
  ASSUME NEW X, NEW p \in Seq(X), NEW s, Stuck(p, s) = {}
  PROVE  Made(p, s) = p /\ \A i \in DOMAIN p : Lacks(p[i], s) = {}
<1> DEFINE L == {i \in DOMAIN p : Lacks(p[i], s) # {}}
<1>1. L = {}
  <2> SUFFICES ASSUME L # {} PROVE FALSE
    OBVIOUS
  <2>1. L \subseteq 1..Len(p) /\ Len(p) \in Nat
    OBVIOUS
  <2> HIDE DEF L
  <2>2. PICK i \in L : \A j \in L : i <= j
    BY <2>1, LeastExists
  <2> QED BY <2>2 DEF Stuck, First, L
<1>2. Made(p, s) = p
  BY DEF Made
<1> QED BY <1>1, <1>2

\* What the callbacks lack is the headers or the body, and they come later.
LEMMA LacksLater ==
  ASSUME NEW c, NEW s \in Stage
  PROVE  Lacks(c, s) \subseteq After(s)
BY DEF Lacks, After, Stage

\* What is done of the collected actions are actions of them, and all if they are ready.
LEMMA PerformedOf ==
  ASSUME NEW X, NEW seq \in Seq(X), NEW s
  PROVE  /\ Performed(seq, s) \in Seq(X)
         /\ {i \in DOMAIN seq : seq[i] \in Unready(s)} = {} /\ X \subseteq Action
              => Performed(seq, s) = seq
<1> DEFINE L    == {i \in DOMAIN seq : seq[i] \in Unready(s)}
           late == First(L)
           n    == IF late = {} THEN Len(seq) ELSE CHOOSE i \in late : TRUE
           one  == SubSeq(seq, 1, n)
           two  == SubSeq(seq, n + 1, Len(seq))
           Rest == Action \ {"reject", "rejectHeader"}
<1>1. Performed(seq, s) = Chosen(one, Action \ Unready(s)) \o Chosen(two, Rest)
  BY DEF Performed
<1>2. n \in 0..Len(seq)
  <2>1. late \subseteq 1..Len(seq)
    BY DEF First
  <2> HIDE DEF late
  <2>2. n = Len(seq) \/ n \in late
    BY Zenon
  <2>3. 1..Len(seq) \subseteq 0..Len(seq) /\ Len(seq) \in 0..Len(seq)
    OBVIOUS
  <2> HIDE DEF n
  <2> QED BY <2>1, <2>2, <2>3, Zenon
<1>3. one \in Seq(X) /\ two \in Seq(X)
  <2> HIDE DEF n
  <2> QED BY <1>2
<1>4. Performed(seq, s) \in Seq(X)
  <2> HIDE DEF one, two, Rest
  <2>1. Chosen(one, Action \ Unready(s)) \in Seq(X \cap (Action \ Unready(s)))
    BY <1>3, ChosenType
  <2>2. Chosen(two, Rest) \in Seq(X \cap Rest)
    BY <1>3, ChosenType
  <2>3. Chosen(one, Action \ Unready(s)) \in Seq(X) /\ Chosen(two, Rest) \in Seq(X)
    BY <2>1, <2>2
  <2> QED BY <1>1, <2>3
<1>5. ASSUME L = {}, X \subseteq Action PROVE Performed(seq, s) = seq
  <2>1. n = Len(seq)
    BY <1>5 DEF First
  <2>2. one = seq /\ two = <<>>
    <3>1. SubSeq(seq, 1, Len(seq)) = seq
      OBVIOUS
    <3>2. SubSeq(seq, Len(seq) + 1, Len(seq)) = <<>>
      OBVIOUS
    <3> HIDE DEF n
    <3> QED BY <2>1, <3>1, <3>2
  <2>3. seq \in Seq(Action \ Unready(s))
    BY <1>5
  <2>4. Chosen(seq, Action \ Unready(s)) = seq
    BY <2>3, ChosenAll
  <2>5. Chosen(<<>>, Rest) = <<>>
    BY ChosenNone, <<>> \in Seq({}), {} \cap Rest = {}
  <2>6. seq \o <<>> = seq
    OBVIOUS
  <2> HIDE DEF one, two, Rest
  <2> QED BY <1>1, <2>2, <2>4, <2>5, <2>6
<1> QED BY <1>4, <1>5

\* A run that has not done all actions of its script has asked for a later stage; before
\* the end it does not send anything.
LEMMA RunDoes ==
  ASSUME NEW p \in Seq(Test \cup Action), NEW s \in Stage, NEW l \in LocalType,
         NEW lapse \in BOOLEAN, NEW o, o = Outcome(p, s, l, lapse)
  PROVE  /\ o.done \in Seq(Action) /\ (s # "BODY" => o.done \in Seq(Action \ Mail))
         /\ l.desired_stages \subseteq o.local.desired_stages
         /\ s # "RCPT" => o.done = <<>> \/ o.done = Chosen(p, Action)
         /\ o.done = Chosen(p, Action) \/ o.local.desired_stages \cap After(s) # {}
<1> DEFINE made      == Made(p, s)
           failed    == Stuck(p, s) # {}
           collected == l.actions \o Chosen(made, Action)
           late      == {i \in DOMAIN collected : collected[i] \in Unready(s)} # {}
           stages    == Asked(p, s) \cup (IF failed /\ lapse THEN {"BODY"} ELSE {})
                          \cup (IF ~failed /\ late THEN {"HEADERS"} ELSE {})
<1>1. /\ o.done = IF failed THEN <<>> ELSE Performed(collected, s)
      /\ o.local.desired_stages = l.desired_stages \cup stages
  <2>1. /\ o.done = IF failed THEN <<>> ELSE Performed(collected, s)
        /\ \E r : o.local = [l EXCEPT !.desired_stages = Desired(l, stages),
                                      !.actions = Leftover(failed, collected), !.rejects = r]
    BY DEF Outcome
  <2> QED BY <2>1 DEF LocalType, Desired
<1>2. CASE failed
  <2>1. PICK i \in DOMAIN p : i \in Stuck(p, s) /\ Lacks(p[i], s) # {}
    BY <1>2 DEF Stuck, First
  <2>2. Lacks(p[i], s) \subseteq stages /\ Lacks(p[i], s) \subseteq After(s)
    BY <2>1, LacksLater DEF Asked
  <2> QED BY <1>1, <1>2, <2>1, <2>2
<1>3. CASE ~failed
  <2>1. made = p /\ \A i \in DOMAIN p : Lacks(p[i], s) = {}
    BY <1>3, NothingLacks
  <2>2. Chosen(p, Action) \in Seq((Test \cup Action) \cap Action)
    BY ChosenType
  <2>3. collected = Chosen(p, Action) /\ collected \in Seq(Action)
    <3>1. Chosen(p, Action) \in Seq(Action) /\ l.actions = <<>>
      BY <2>2 DEF LocalType
    <3>2. \A c \in Seq(Action) : <<>> \o c = c
      OBVIOUS
    <3> QED BY <2>1, <3>1, <3>2
  <2>4. o.done = Performed(collected, s)
    BY <1>1, <1>3
  <2>5. ASSUME s # "BODY" PROVE collected \in Seq(Action \ Mail)
    <3>1. p \in Seq((Test \cup Action) \ Mail)
      <4>1. \A i \in DOMAIN p : p[i] \notin Mail
        BY <2>1, <2>5 DEF Lacks, Mail
      <4> QED BY <4>1
    <3>2. Chosen(p, Action) \in Seq(((Test \cup Action) \ Mail) \cap Action)
      BY <3>1, ChosenType
    <3>3. Chosen(p, Action) \in Seq(Action \ Mail)
      BY <3>2
    <3> QED BY <2>3, <3>3
  <2> HIDE DEF collected
  <2>6. o.done \in Seq(Action) /\ (s # "BODY" => o.done \in Seq(Action \ Mail))
    BY <2>3, <2>4, <2>5, PerformedOf
  <2>7. ~late => o.done = collected
    BY <2>3, <2>4, PerformedOf
  <2>8. late => s = "RCPT" /\ "HEADERS" \in stages
    BY <1>3 DEF Unready
  <2> HIDE DEF late
  <2> QED BY <1>1, <2>3, <2>6, <2>7, <2>8 DEF After
<1> QED BY <1>2, <1>3

\* The mail of a run carries the stage, and is what the actions say, or less.
MailKinds == IF sender = "null" \/ "headers" \in lost THEN {"redirect"} ELSE Mail

LEMMA MailsSay ==
  ASSUME NEW done \in Seq(Action), NEW s \in Stage, lost \subseteq {"headers", "body"}
  PROVE  /\ Mails(done, s) \in Seq(Action \X Stage \X SUBSET {"headers", "body"})
         /\ \A i \in DOMAIN Mails(done, s) :
              Mails(done, s)[i][2] = s /\ Mails(done, s)[i][3] = lost
         /\ Len(Mails(done, s)) = Len(Chosen(done, MailKinds))
         /\ done \in Seq(Action \ Mail) => Mails(done, s) = <<>>
<1> DEFINE mails == Chosen(done, MailKinds)
<1>1. mails \in Seq(Action)
  <2>1. mails \in Seq(Action \cap MailKinds)
    BY ChosenType
  <2> QED BY <2>1
<1>2. Mails(done, s) = [i \in DOMAIN mails |-> <<mails[i], s, lost>>]
  BY DEF Mails, Mail, MailKinds
<1>3. done \in Seq(Action \ Mail) => mails = <<>>
  <2>1. (Action \ Mail) \cap MailKinds = {}
    BY DEF Mail, MailKinds
  <2> QED BY <2>1, ChosenNone
<1> HIDE DEF mails
<1>4. /\ Mails(done, s) \in Seq(Action \X Stage \X SUBSET {"headers", "body"})
      /\ Len(Mails(done, s)) = Len(mails)
  <2> DEFINE L == SUBSET {"headers", "body"}
  <2>1. lost \in L
    OBVIOUS
  <2> HIDE DEF L
  <2>2. /\ Mails(done, s) \in Seq(Action \X Stage \X L)
        /\ Len(Mails(done, s)) = Len(mails)
    BY <1>1, <1>2, <2>1
  <2> QED BY <2>2 DEF L
<1>5. mails = <<>> => Mails(done, s) = <<>>
  BY <1>2
<1> QED BY <1>1, <1>2, <1>3, <1>4, <1>5 DEF mails

\* A run on one of the script's paths mails at most what the script says.
LEMMA MailsFew ==
  ASSUME NEW k \in DOMAIN address, address[k] \in Addr, NEW script \in Script,
         lost \subseteq {"headers", "body"}, NEW s \in Stage,
         NEW p \in Paths(Program[script][address[k]]), NEW done \in Seq(Action),
         done = <<>> \/ done = Chosen(p, Action)
  PROVE  Len(Mails(done, s)) <= Len(Mailing(k, script))
<1> DEFINE prog == Program[script][address[k]]
           M    == MailKinds
<1>1. prog \in Seq(Test \cup Action) /\ Mailing(k, script) = Chosen(prog, Mail)
      /\ Len(Mailing(k, script)) \in Nat
  BY ActionsType
<1>2. Len(Mails(done, s)) = Len(Chosen(done, M))
  BY MailsSay
<1>3. M \subseteq Mail /\ Action \cap M = M /\ "keep" \notin M /\ "keep" \in Test \cup Action
  BY DEF Mail, MailKinds, Action
<1>4. CASE done = <<>>
  <2>1. Chosen(done, M) = <<>>
    BY <1>4, ChosenNone, <<>> \in Seq({}), {} \cap M = {}
  <2> QED BY <1>1, <1>2, <2>1
<1>5. CASE done = Chosen(p, Action)
  <2>1. CASE p = prog
    <3>1. Chosen(done, M) = Chosen(prog, M)
      BY <1>1, <1>3, <1>5, <2>1, ChosenTwice
    <3>2. SubSeq(prog, 1, Len(prog)) = prog /\ Len(prog) \in 0..Len(prog)
      BY <1>1
    <3> HIDE DEF prog, M
    <3>3. Len(Chosen(SubSeq(prog, 1, Len(prog)), M)) <= Len(Chosen(prog, Mail))
      BY <1>1, <1>3, <3>2, ChosenLess
    <3> QED BY <1>1, <1>2, <3>1, <3>2, <3>3
  <2>2. ASSUME NEW i \in DOMAIN prog, p = SubSeq(prog, 1, i) \o <<"keep">>
        PROVE  Len(Mails(done, s)) <= Len(Mailing(k, script))
    <3> DEFINE part == SubSeq(prog, 1, i)
    <3>1. part \in Seq(Test \cup Action) /\ i \in 0..Len(prog)
      BY <1>1
    <3>2. p = Append(part, "keep")
      <4>1. p = part \o <<"keep">>
        BY <2>2
      <4> HIDE DEF part
      <4> QED BY <3>1, <4>1
    <3>3. p \in Seq(Test \cup Action)
      BY <3>1, <3>2 DEF Action
    <3> HIDE DEF part, M, prog
    <3>4. Chosen(done, M) = Chosen(p, M)
      BY <1>3, <1>5, <3>3, ChosenTwice
    <3>5. Chosen(p, M) = Chosen(part, M)
      <4>1. Chosen(Append(part, "keep"), M)
              = IF "keep" \in M THEN Append(Chosen(part, M), "keep") ELSE Chosen(part, M)
        <5> DEFINE X == Test \cup Action
        <5>1. part \in Seq(X) /\ "keep" \in X
          BY <1>3, <3>1
        <5> HIDE DEF X
        <5> QED BY ONLY <5>1, ChosenAppend, Zenon
      <4> QED BY <1>3, <3>2, <4>1
    <3>6. Len(Chosen(part, M)) <= Len(Chosen(prog, Mail))
      BY <1>1, <1>3, <3>1, ChosenLess DEF part
    <3> QED BY <1>1, <1>2, <3>4, <3>5, <3>6
  <2> QED BY <2>1, <2>2 DEF Paths
<1> QED BY <1>4, <1>5

LEMMA PathType ==
  ASSUME NEW prog \in Seq(Test \cup Action), NEW p \in Paths(prog)
  PROVE  p \in Seq(Test \cup Action)
<1>1. CASE p = prog
  BY <1>1
<1>2. ASSUME NEW i \in DOMAIN prog, p = SubSeq(prog, 1, i) \o <<"keep">>
      PROVE  p \in Seq(Test \cup Action)
  <2>1. SubSeq(prog, 1, i) \in Seq(Test \cup Action) /\ <<"keep">> \in Seq(Test \cup Action)
    BY DEF Action
  <2> QED BY <1>2, <2>1
<1> QED BY <1>1, <1>2 DEF Paths

\* A recipient arrives: it has accepted no message yet, and nothing was sent for it.
LEMMA ArriveMails == ASSUME SieveInv, MailInv, NEW a \in Addr, Arrive(a) PROVE MailInv'
<1> DEFINE n == Len(address) + 1
<1>1. /\ address \in Seq(Addr) /\ owner \in Seq(Nat) /\ last \in Seq(Script \cup {None})
      /\ Len(owner) = Len(address) /\ Len(last) = Len(address)
      /\ accepted \subseteq DOMAIN address /\ \A k \in DOMAIN address : owner[k] \in DOMAIN local
  BY DEF SieveInv, Sequenced, TypeOK
<1>2. /\ effects \in Seq(Seq(Action)) /\ Len(effects) = Len(address)
      /\ sent \in Seq(Seq(Action \X Stage \X SUBSET {"headers", "body"}))
      /\ Len(sent) = Len(address)
  BY DEF MailInv, Staged
<1>3. PICK cell :
        /\ address' = Append(address, a) /\ owner' = Append(owner, cell)
        /\ local' = LocalWith(cell)
  BY DEF Arrive
<1>4. /\ phase = "message" /\ stage = "RCPT" /\ todo = {} /\ todo' = {n}
      /\ last' = Append(last, None) /\ effects' = Append(effects, <<>>)
      /\ sent' = Append(sent, <<>>)
      /\ UNCHANGED <<accepted, stage, lost, phase, sender>>
  BY DEF Arrive, message
<1>5. \A k \in 1..Len(address) :
        /\ address'[k] = address[k] /\ owner'[k] = owner[k] /\ last'[k] = last[k]
        /\ effects'[k] = effects[k] /\ sent'[k] = sent[k]
        /\ (\A s : ActionsOf(s, k)' = ActionsOf(s, k) /\ Mailing(k, s)' = Mailing(k, s))
  <2>1. ASSUME NEW k \in 1..Len(address)
        PROVE  /\ address'[k] = address[k] /\ owner'[k] = owner[k] /\ last'[k] = last[k]
               /\ effects'[k] = effects[k] /\ sent'[k] = sent[k]
    BY <1>1, <1>2, <1>3, <1>4
  <2> QED BY <2>1 DEF ActionsOf, Mailing
<1>6. /\ DOMAIN address = 1..Len(address) /\ DOMAIN sent' = 1..Len(address) \cup {n}
      /\ DOMAIN sent = 1..Len(address) /\ n \notin 1..Len(address)
      /\ sent'[n] = <<>>
  BY <1>1, <1>2, <1>4
<1>7. Staged'
  <2>1. /\ effects' \in Seq(Seq(Action)) /\ Len(effects') = Len(address')
        /\ sent' \in Seq(Seq(Action \X Stage \X SUBSET {"headers", "body"}))
        /\ Len(sent') = Len(address')
    BY <1>1, <1>2, <1>3, <1>4
  <2> QED BY <1>1, <1>4, <1>6, <2>1 DEF MailInv, Staged
<1>8. \A k \in DOMAIN sent : sent[k] = <<>>
  BY <1>4 DEF MailInv, Mailed
<1>9. Mailed'
  <2>1. \A k \in DOMAIN sent' : sent'[k] = <<>>
    BY <1>5, <1>6, <1>8
  <2> QED BY <2>1 DEF Mailed
<1>10. Empty'
  BY <1>4 DEF Empty
<1>11. Carried'
  <2> SUFFICES ASSUME NEW k \in accepted
               PROVE  \/ (effects[k] = ActionsOf(last[k], k))'
                      \/ local'[owner'[k]].desired_stages \cap After(stage) # {}
    <3>1. (\A k \in accepted : \/ effects[k] = ActionsOf(last[k], k)
                               \/ local[owner[k]].desired_stages \cap After(stage) # {})'
          => Carried'
      BY DEF Carried, Done
    <3> QED BY <1>4, <3>1
  <2>0. ~Misled(k)
    BY <1>4 DEF MailInv, Staged, Misled, Misleading
  <2>1. \/ effects[k] = ActionsOf(last[k], k)
        \/ local[owner[k]].desired_stages \cap After(stage) # {}
    BY <1>4, <2>0 DEF MailInv, Staged, Carried, Done
  <2>2. k \in 1..Len(address) /\ owner[k] \in DOMAIN local
    BY <1>1, <1>6
  <2>3. local'[owner[k]] = local[owner[k]]
    BY <1>3, <2>2 DEF LocalWith
  <2>4. address'[k] = address[k] /\ last'[k] = last[k] /\ effects'[k] = effects[k]
        /\ owner'[k] = owner[k]
    BY <1>5, <2>2
  <2>5. ActionsOf(last[k], k)' = ActionsOf(last[k], k)
    BY <2>4 DEF ActionsOf
  <2> QED BY <2>1, <2>3, <2>4, <2>5
<1> QED BY <1>7, <1>9, <1>10, <1>11 DEF MailInv

\* A recipient's run.
LEMMA RunsScript ==
  ASSUME SieveInv, NEW a \in Addr
  PROVE  GetScript(cached, a) \in Path /\ file[GetScript(cached, a)] \in Script
<1>1. Found(cached, "default") # None
  BY DEF SieveInv, Scripts, Found
<1>2. \A x \in Finder : Found(cached, x) \in Path \cup {None}
  BY DEF SieveInv, TypeOK, Found
<1>3. GetScript(cached, a) \in Path
  BY <1>1, <1>2 DEF GetScript, Finder
<1> QED BY <1>3 DEF SieveInv, TypeOK

LEMMA RunMails ==
  ASSUME SieveInv, SieveInv', MailInv, NEW k \in Rcpt, Run(k) PROVE MailInv'
<1> DEFINE a      == address[k]
           path   == GetScript(cached, a)
           script == file[path]
           cell   == owner[k]
<1>1. /\ address \in Seq(Addr) /\ owner \in Seq(Nat) /\ last \in Seq(Script \cup {None})
      /\ Len(owner) = Len(address) /\ Len(last) = Len(address)
      /\ accepted \subseteq DOMAIN address /\ todo \subseteq DOMAIN address
      /\ \A j \in DOMAIN address : owner[j] \in DOMAIN local
      /\ local \in [DOMAIN local -> LocalType] /\ stage \in Stage
      /\ lost \subseteq {"headers", "body"}
  BY DEF SieveInv, Sequenced, TypeOK
<1>2. /\ effects \in Seq(Seq(Action)) /\ Len(effects) = Len(address)
      /\ sent \in Seq(Seq(Action \X Stage \X SUBSET {"headers", "body"}))
      /\ Len(sent) = Len(address)
  BY DEF MailInv, Staged
<1>3. k \in todo /\ k \in DOMAIN address /\ a \in Addr /\ cell \in DOMAIN local
  BY <1>1 DEF Run, First
<1>4. /\ phase = "message" /\ stage \in local[cell].desired_stages
      /\ UNCHANGED <<address, owner, stage, lost, sender, sized>>
  BY DEF Run, message
<1>5. PICK lapse \in BOOLEAN, p \in Paths(Program[script][a]) :
        LET o == Outcome(p, stage, local[cell], lapse)
        IN  /\ local' = [local EXCEPT ![cell] = Included(o, a)]
            /\ Noted(o, k, a, path)
            /\ todo' = IF o.local.rejects THEN {} ELSE todo \ {k}
            /\ accepted' = IF stage = "RCPT" /\ ~o.local.rejects THEN accepted \cup {k}
                           ELSE accepted
            /\ phase' = IF o.local.rejects /\ stage # "RCPT" THEN "rejected" ELSE phase
  BY DEF Run
<1> DEFINE o == Outcome(p, stage, local[cell], lapse)
<1>6. /\ last' = [last EXCEPT ![k] = script]
      /\ effects' = [effects EXCEPT ![k] = o.done]
      /\ sent' = [sent EXCEPT ![k] = @ \o Mails(o.done, stage)]
  BY <1>5 DEF Noted
<1>7. /\ todo' \subseteq todo \ {k} /\ accepted \subseteq accepted'
      /\ accepted' \subseteq accepted \cup {k}
      /\ stage # "RCPT" => accepted' = accepted
      /\ phase' \in {"message", "rejected"}
      /\ todo' = todo \ {k} \/ (todo' = {} /\ (stage = "RCPT" \/ phase' = "rejected"))
  BY <1>4, <1>5, <1>3
<1>8. /\ script \in Script /\ last'[k] = script
      /\ \A j \in DOMAIN last \ {k} : last'[j] = last[j]
  <2>1. script \in Script
    BY <1>3, RunsScript
  <2>2. k \in DOMAIN last
    BY <1>1, <1>3
  <2> HIDE DEF script
  <2> QED BY <1>1, <1>6, <2>1, <2>2
<1>9. Program[script][a] \in Seq(Test \cup Action) /\ p \in Seq(Test \cup Action)
  <2>1. Program[script][a] \in Seq(Test \cup Action)
    BY <1>3, <1>8, SieveAssumption
  <2> HIDE DEF script
  <2> QED BY <1>5, <2>1, PathType
<1>10. local[cell] \in LocalType
  BY <1>1, <1>3
<1>11. /\ o.done \in Seq(Action) /\ (stage # "BODY" => o.done \in Seq(Action \ Mail))
       /\ local[cell].desired_stages \subseteq o.local.desired_stages
       /\ stage # "RCPT" => o.done = <<>> \/ o.done = Chosen(p, Action)
       /\ o.done = Chosen(p, Action) \/ o.local.desired_stages \cap After(stage) # {}
  <2> HIDE DEF cell
  <2> QED BY <1>1, <1>9, <1>10, RunDoes
<1>12. /\ Mails(o.done, stage) \in Seq(Action \X Stage \X SUBSET {"headers", "body"})
       /\ \A i \in DOMAIN Mails(o.done, stage) :
            Mails(o.done, stage)[i][2] = stage /\ Mails(o.done, stage)[i][3] = lost
       /\ stage # "BODY" => Mails(o.done, stage) = <<>>
  BY <1>1, <1>11, MailsSay
<1>13. stage = "BODY" => Len(Mails(o.done, stage)) <= Len(Mailing(k, script))
  BY <1>1, <1>3, <1>5, <1>8, <1>11, MailsFew
<1>14. \A j, s : ActionsOf(s, j)' = ActionsOf(s, j) /\ Mailing(j, s)' = Mailing(j, s)
  <2>1. address' = address
    BY <1>4
  <2> QED BY <2>1 DEF ActionsOf, Mailing
<1>15. /\ DOMAIN local' = DOMAIN local /\ local'[cell].desired_stages = o.local.desired_stages
       /\ \A c \in DOMAIN local : local[c].desired_stages \subseteq local'[c].desired_stages
  <2>1. Included(o, a).desired_stages = o.local.desired_stages
    <3>1. \E d, r : o.local = [local[cell] EXCEPT !.desired_stages = d,
                                                 !.actions = <<>>, !.rejects = r]
      BY DEF Outcome, Leftover
    <3> HIDE DEF o
    <3> QED BY <1>10, <3>1 DEF Included, LocalType
  <2> HIDE DEF o
  <2> QED BY <1>1, <1>3, <1>5, <1>11, <2>1 DEF o
<1> HIDE DEF o
<1>16. /\ effects' \in Seq(Seq(Action)) /\ Len(effects') = Len(effects)
       /\ effects'[k] = o.done /\ \A j \in DOMAIN effects \ {k} : effects'[j] = effects[j]
  BY <1>1, <1>2, <1>3, <1>6, <1>11
<1>17. /\ sent' \in Seq(Seq(Action \X Stage \X SUBSET {"headers", "body"}))
       /\ Len(sent') = Len(sent)
       /\ sent'[k] = Mails(o.done, stage) /\ \A j \in DOMAIN sent \ {k} : sent'[j] = sent[j]
  <2>1. k \in DOMAIN sent /\ sent[k] = <<>>
    BY <1>1, <1>2, <1>3 DEF MailInv, Mailed
  <2> DEFINE mails == Mails(o.done, stage)
  <2>2. <<>> \o mails = mails
    BY <1>12
  <2> HIDE DEF mails
  <2>3. sent' = [sent EXCEPT ![k] = mails]
    BY <1>6, <2>1, <2>2 DEF mails
  <2>4. mails \in Seq(Action \X Stage \X SUBSET {"headers", "body"})
    BY <1>12 DEF mails
  <2>5. /\ sent' \in Seq(Seq(Action \X Stage \X SUBSET {"headers", "body"}))
        /\ Len(sent') = Len(sent)
        /\ sent'[k] = mails /\ \A j \in DOMAIN sent \ {k} : sent'[j] = sent[j]
    <3> DEFINE S == Seq(Action \X Stage \X SUBSET {"headers", "body"})
    <3>1. sent \in Seq(S) /\ mails \in S
      BY <1>2, <2>4
    <3> HIDE DEF S
    <3>2. sent' \in Seq(S) /\ Len(sent') = Len(sent)
          /\ sent'[k] = mails /\ \A j \in DOMAIN sent \ {k} : sent'[j] = sent[j]
      BY ONLY <2>1, <2>3, <3>1
    <3> QED BY <3>2 DEF S
  <2> QED BY <2>5 DEF mails
<1>18. Staged'
  BY <1>2, <1>3, <1>4, <1>7, <1>16, <1>17 DEF MailInv, Staged
<1>19. Mailed'
  <2> SUFFICES ASSUME NEW j \in DOMAIN sent', sent'[j] # <<>>
               PROVE  /\ stage = "BODY" /\ j \notin todo'
                      /\ \A i \in DOMAIN sent'[j] : sent'[j][i][2] = "BODY"
                                                    /\ sent'[j][i][3] = lost
                      /\ Len(sent'[j]) <= Len(Mailing(j, last'[j]))
    <3>1. \A j : Mailing(j, last[j])' = Mailing(j, last'[j])
      BY <1>4 DEF Mailing, ActionsOf
    <3> QED BY <1>4, <3>1 DEF Mailed
  <2>1. CASE j = k
    <3>1. stage = "BODY"
      BY <1>12, <1>17, <2>1
    <3> QED BY <1>7, <1>8, <1>12, <1>13, <1>17, <2>1, <3>1
  <2>2. CASE j # k
    <3>1. j \in DOMAIN sent /\ j \in DOMAIN last /\ sent'[j] = sent[j] /\ last'[j] = last[j]
      BY <1>1, <1>2, <1>8, <1>17, <2>2
    <3> QED BY <1>7, <3>1 DEF MailInv, Mailed
  <2> QED BY <2>1, <2>2
\* On an empty message the recipient's cell has not asked for the body.
<1>20. stage = "BODY" /\ "headers" \in lost /\ OneCell' => FALSE
  <2> SUFFICES ASSUME stage = "BODY", "headers" \in lost, OneCell' PROVE FALSE
    OBVIOUS
  <2>1. OneCell /\ k \in accepted
    BY <1>3, <1>4, <1>7 DEF OneCell, MailInv, Staged
  <2> QED BY <1>4, <2>1 DEF MailInv, Empty
<1>21. Empty'
  BY <1>4, <1>20 DEF Empty
<1>22. Carried'
  <2> SUFFICES ASSUME phase' # "rejected", NEW j \in accepted'
               PROVE  \/ Done(j)'
                      \/ local'[owner[j]].desired_stages
                           \cap (After(stage) \cup (IF j \in todo' THEN {stage} ELSE {})) # {}
    BY <1>4 DEF Carried
  <2>1. CASE j = k
    <3>1. CASE p = Program[script][a]
      <4>1. o.done = ActionsOf(script, k) \/ o.local.desired_stages \cap After(stage) # {}
        BY <1>11, <3>1 DEF ActionsOf, o
      <4>2. ActionsOf(last[k], k)' = ActionsOf(script, k)
        BY <1>4, <1>8 DEF ActionsOf
      <4> QED BY <1>15, <1>16, <2>1, <4>1, <4>2 DEF Done
    <3>2. CASE p # Program[script][a]
      <4>1. PICK i \in DOMAIN Program[script][a] : Program[script][a][i] \in Misleading
        BY <1>5, <3>2 DEF Paths
      <4>2. Misled(k)'
        <5>1. Misleading' = Misleading /\ Program[last'[k]][address'[k]] = Program[script][a]
          BY <1>4, <1>8 DEF Misleading
        <5> QED BY <4>1, <5>1 DEF Misled
      <4>3. lost # {}
        BY <4>1 DEF Misleading
      <4>4. sender = "null" \/ ~OneCell'
        BY <1>20, <4>3 DEF MailInv, Staged
      <4> QED BY <1>4, <2>1, <4>2, <4>4 DEF Done
    <3> QED BY <3>1, <3>2
  <2>2. CASE j # k
    <3>1. j \in accepted /\ (j \in todo => j \in todo')
      <4>1. j \in accepted
        BY <1>7, <2>2
      <4>2. j \in todo => stage # "RCPT"
        BY <4>1 DEF MailInv, Staged
      <4> QED BY <1>7, <2>2, <4>1, <4>2
    <3>2. \/ Done(j)
          \/ local[owner[j]].desired_stages
               \cap (After(stage) \cup (IF j \in todo THEN {stage} ELSE {})) # {}
      BY <1>4, <3>1 DEF MailInv, Carried
    <3>3. j \in DOMAIN address /\ j \in DOMAIN last /\ j \in DOMAIN effects
      BY <1>1, <1>2, <3>1
    <3>4. effects'[j] = effects[j] /\ last'[j] = last[j]
          /\ local[owner[j]].desired_stages \subseteq local'[owner[j]].desired_stages
      BY <1>1, <1>8, <1>15, <1>16, <2>2, <3>3
    <3>5. Done(j) => Done(j)'
      <4>1. Misled(j)' = Misled(j) /\ ActionsOf(last[j], j)' = ActionsOf(last[j], j)
        BY <1>4, <3>4 DEF Misled, Misleading, ActionsOf
      <4>2. Misled(j) => accepted' = accepted
        BY <1>7 DEF Misled, Misleading, MailInv, Staged
      <4>3. accepted' = accepted => OneCell' = OneCell
        BY <1>4 DEF OneCell
      <4> QED BY <1>4, <3>4, <4>1, <4>2, <4>3 DEF Done
    <3> QED BY <3>1, <3>2, <3>4, <3>5
  <2> QED BY <2>1, <2>2
<1> QED BY <1>18, <1>19, <1>21, <1>22 DEF MailInv

\* What has been done stays as it is while nothing runs and nothing is lost.
LEMMA QuietDone ==
  ASSUME UNCHANGED <<address, owner, accepted, last, effects, lost, sender, sized>>
  PROVE  \A j : Mailing(j, last[j])' = Mailing(j, last[j]) /\ Done(j)' = Done(j)
<1> TAKE j
<1>1. ActionsOf(last[j], j)' = ActionsOf(last[j], j)
  BY DEF ActionsOf
<1>2. Misled(j)' = Misled(j) /\ OneCell' = OneCell
  BY DEF Misled, Misleading, OneCell
<1> QED BY <1>1, <1>2 DEF Mailing, Done

\* The stages: a recipient that is passed over at one has asked for none before it; at
\* the end nothing is left to ask for.
LEMMA PassOverMails ==
  ASSUME SieveInv, MailInv, NEW k \in Rcpt, PassOver(k) PROVE MailInv'
<1>1. /\ k \in todo /\ stage \notin local[owner[k]].desired_stages /\ todo' = todo \ {k}
      /\ phase = "message"
      /\ UNCHANGED <<address, owner, accepted, local, stage, lost, phase, last, effects, sent,
                     sender, sized>>
  BY DEF PassOver, First, history, message
<1>2. \A j : Mailing(j, last[j])' = Mailing(j, last[j]) /\ Done(j)' = Done(j)
  BY <1>1, QuietDone
<1>3. Staged'
  BY <1>1 DEF MailInv, Staged
<1>4. Mailed'
  BY <1>1, <1>2 DEF MailInv, Mailed
<1>5. Empty'
  BY <1>1 DEF MailInv, Empty, OneCell
<1>6. Carried'
  <2> SUFFICES ASSUME NEW j \in accepted
               PROVE  \/ Done(j)
                      \/ local[owner[j]].desired_stages
                           \cap (After(stage) \cup (IF j \in todo' THEN {stage} ELSE {})) # {}
    BY <1>1, <1>2 DEF Carried
  <2>1. \/ Done(j)
        \/ local[owner[j]].desired_stages
             \cap (After(stage) \cup (IF j \in todo THEN {stage} ELSE {})) # {}
    BY <1>1 DEF MailInv, Carried
  <2> QED BY <1>1, <2>1
<1> QED BY <1>3, <1>4, <1>5, <1>6 DEF MailInv

LEMMA NextStageMails == ASSUME SieveInv, MailInv, NextStage PROVE MailInv'
<1>1. /\ phase = "message" /\ todo = {} /\ stage \in Stage
      /\ UNCHANGED <<address, owner, accepted, local, last, effects, sent, sender, sized>>
  BY DEF NextStage, history, message, SieveInv, TypeOK
<1>2. CASE stage = "BODY"
  <2>1. UNCHANGED <<stage, todo, lost>> /\ phase' \in {"accepted", "rejected"}
    BY <1>2 DEF NextStage
  <2>2. \A j : Mailing(j, last[j])' = Mailing(j, last[j]) /\ Done(j)' = Done(j)
    BY <1>1, <2>1, QuietDone
  <2>3. Staged'
    BY <1>1, <1>2, <2>1 DEF MailInv, Staged
  <2>4. Mailed' /\ Empty'
    BY <1>1, <2>1, <2>2 DEF MailInv, Mailed, Empty, OneCell
  <2>5. Carried'
    BY <1>1, <2>1, <2>2 DEF MailInv, Carried
  <2> QED BY <2>3, <2>4, <2>5 DEF MailInv
<1>3. CASE stage # "BODY"
  <2>1. /\ stage' = (IF stage = "RCPT" THEN "HEADERS" ELSE "BODY")
        /\ lost' = (IF stage = "RCPT" THEN {} ELSE Missing) /\ todo' = accepted
        /\ phase' = phase
    BY <1>3 DEF NextStage
  <2>2. Staged'
    BY <1>1, <2>1 DEF MailInv, Staged, Missing
  <2>3. \A j \in DOMAIN sent : sent[j] = <<>>
    BY <1>3 DEF MailInv, Mailed
  <2>4. Mailed'
    BY <1>1, <2>3 DEF Mailed
  <2>5. Empty'
    <3> SUFFICES ASSUME stage' = "BODY", "headers" \in lost', OneCell', NEW j \in accepted
                 PROVE  "BODY" \notin local[owner[j]].desired_stages
      BY <1>1, <2>3 DEF Empty
    <3>1. PICK i \in accepted : "BODY" \notin local[owner[i]].desired_stages
      BY <2>1 DEF Missing, BodyNeeded
    <3> QED BY <1>1, <3>1 DEF OneCell
  <2>6. Carried'
    <3> SUFFICES ASSUME NEW j \in accepted
                 PROVE  \/ effects[j] = ActionsOf(last[j], j)
                        \/ local[owner[j]].desired_stages \cap (After(stage') \cup {stage'}) # {}
      <4>1. \A j : ActionsOf(last[j], j)' = ActionsOf(last[j], j)
        BY <1>1 DEF ActionsOf
      <4> QED BY <1>1, <2>1, <4>1 DEF Carried, Done
    <3>0. ~Misled(j)
      BY <1>3 DEF MailInv, Staged, Misled, Misleading
    <3>1. \/ effects[j] = ActionsOf(last[j], j)
          \/ local[owner[j]].desired_stages \cap After(stage) # {}
      BY <1>1, <1>3, <3>0 DEF MailInv, Staged, Carried, Done
    <3>2. After(stage) = After(stage') \cup {stage'}
      BY <1>1, <1>3, <2>1 DEF After, Stage
    <3> QED BY <3>1, <3>2
  <2> QED BY <2>2, <2>4, <2>5, <2>6 DEF MailInv
<1> QED BY <1>2, <1>3

THEOREM MailInvariant == Spec => []MailInv
<1>1. Init => MailInv
  BY DEF Init, MailInv, Staged, Mailed, Empty, Carried, OneCell
<1>2. SieveInv /\ SieveInv' /\ MailInv /\ [Next]_vars => MailInv'
  <2> SUFFICES ASSUME SieveInv, SieveInv', MailInv, [Next]_vars PROVE MailInv'
    OBVIOUS
  <2>1. CASE Upload \/ UNCHANGED vars
    <3>1. UNCHANGED <<address, owner, accepted, local, stage, todo, lost, phase, last,
                      effects, sent, sender, sized>>
      BY <2>1 DEF Upload, vars, history, message
    <3>2. \A j : Mailing(j, last[j])' = Mailing(j, last[j]) /\ Done(j)' = Done(j)
      BY <3>1, QuietDone
    <3>3. Staged' /\ Empty'
      BY <3>1 DEF MailInv, Staged, Empty, OneCell
    <3>4. Mailed' /\ Carried'
      BY <3>1, <3>2 DEF MailInv, Mailed, Carried
    <3> QED BY <3>3, <3>4 DEF MailInv
  <2> QED BY <2>1, ArriveMails, RunMails, PassOverMails, NextStageMails DEF Next, Over
<1> QED BY <1>1, <1>2, SieveInvariant, PTL DEF Spec

\* Nothing is sent before the message is complete, whoever else shares the cell
\* (cyrus_redirect, cyrus_autorespond).
THEOREM NothingSentEarly == Spec => []NothingSentBeforeTheEnd
<1>1. MailInv => NothingSentBeforeTheEnd
  BY DEF MailInv, Mailed, NothingSentBeforeTheEnd
<1> QED BY <1>1, MailInvariant, PTL

\* When the accepted recipients share a cell, what is redirected or answered is the
\* message that was received, but for the body of a bounce (prdr_eoh, sieve::Status,
\* prdr_body).
THEOREM SentAsReceived == Spec => []SentWhole
<1>1. SieveInv /\ MailInv => SentWhole
  <2> SUFFICES ASSUME SieveInv, MailInv, OneCell, NEW k \in DOMAIN sent,
                      NEW i \in DOMAIN sent[k]
               PROVE  sent[k][i][3] \subseteq IF sender = "null" THEN {"body"} ELSE {}
    BY DEF SentWhole
  <2>1. sent[k] # <<>>
    BY DEF MailInv, Staged
  <2>2. stage = "BODY" /\ sent[k][i][3] = lost /\ lost \subseteq {"headers", "body"}
    BY <2>1 DEF MailInv, Mailed, SieveInv, TypeOK
  <2>3. "headers" \notin lost
    BY <2>1, <2>2 DEF MailInv, Empty
  <2> QED BY <2>2, <2>3 DEF MailInv, Staged
<1> QED BY <1>1, SieveInvariant, MailInvariant, PTL

\* In an accepted message every recipient's last run has carried out in full what its
\* file said, unless it was misled by what is missing (sieve::Run, desired_stages).
THEOREM ScriptsCarriedOut == Spec => []ScriptsAreCarriedOut
<1>1. MailInv => ScriptsAreCarriedOut
  <2> SUFFICES ASSUME MailInv, phase = "accepted", NEW k \in accepted PROVE Done(k)
    BY DEF ScriptsAreCarriedOut, Done
  <2>1. stage = "BODY" /\ todo = {}
    BY DEF MailInv, Staged
  <2>2. \/ Done(k)
        \/ local[owner[k]].desired_stages
             \cap (After(stage) \cup (IF k \in todo THEN {stage} ELSE {})) # {}
    BY DEF MailInv, Carried
  <2> QED BY <2>1, <2>2 DEF After
<1> QED BY <1>1, MailInvariant, PTL

\* No mail is sent twice for a recipient, at however many stages its script runs
\* (sieve::Run).
THEOREM OnceMailed == Spec => []MailedOnce
<1>1. MailInv => MailedOnce
  BY DEF MailInv, Mailed, MailedOnce, Mailing, Mail
<1> QED BY <1>1, MailInvariant, PTL
-----------------------------------------------------------------------------
(***************************************************************************)
(* What is done stays done.  A recipient's script that has done something  *)
(* has come to its end; it does so at every later stage, since a callback  *)
(* that lacks nothing will not lack anything later.  If it did so before   *)
(* the end of the message, it has no use for the body.                     *)
(***************************************************************************)
Ready(p, s) == \A i \in DOMAIN p : Lacks(p[i], s) = {}

\* The stage a recipient's next run is not the first at.
Before(k) == IF stage = "BODY" /\ k \in todo THEN "HEADERS" ELSE stage

Lasting ==
  "headers" \notin lost => \A k \in DOMAIN effects : effects[k] # <<>> =>
    /\ last[k] # None
    /\ stage = "RCPT" => k \notin todo
    /\ Ready(Program[last[k]][address[k]], Before(k))

\* A run that does anything is ready; a ready one does everything after RCPT.
LEMMA ReadyRun ==
  ASSUME NEW p \in Seq(Test \cup Action), NEW s \in Stage, NEW l \in LocalType,
         NEW lapse \in BOOLEAN, NEW o, o = Outcome(p, s, l, lapse)
  PROVE  /\ o.done # <<>> => Ready(p, s)
         /\ s # "RCPT" /\ Ready(p, s) => o.done = Chosen(p, Action)
<1> DEFINE collected == l.actions \o Chosen(Made(p, s), Action)
<1>1. o.done = IF Stuck(p, s) # {} THEN <<>> ELSE Performed(collected, s)
  BY DEF Outcome
<1>2. ASSUME Stuck(p, s) = {}
      PROVE  Ready(p, s) /\ collected = Chosen(p, Action) /\ collected \in Seq(Action)
  <2>1. Made(p, s) = p /\ Ready(p, s)
    BY <1>2, NothingLacks DEF Ready
  <2>2. Chosen(p, Action) \in Seq((Test \cup Action) \cap Action)
    BY ChosenType
  <2>3. Chosen(p, Action) \in Seq(Action) /\ l.actions = <<>>
    BY <2>2 DEF LocalType
  <2> QED BY <2>1, <2>3
<1> HIDE DEF collected
<1>3. o.done # <<>> => Ready(p, s)
  BY <1>1, <1>2
<1>4. ASSUME s # "RCPT", Ready(p, s) PROVE o.done = Chosen(p, Action)
  <2>1. Stuck(p, s) = {}
    BY <1>4 DEF Ready, Stuck, First
  <2>2. {i \in DOMAIN collected : collected[i] \in Unready(s)} = {}
    BY <1>4 DEF Unready
  <2>3. Performed(collected, s) = collected
    BY <1>2, <2>1, <2>2, PerformedOf
  <2> QED BY <1>1, <1>2, <2>1, <2>3
<1> QED BY <1>3, <1>4

\* What is there at a stage is there at the next; at the end everything is.
LEMMA StaysReady ==
  ASSUME NEW p, NEW r \in Stage, Ready(p, r), NEW s \in Stage, s = r \/ s \in After(r)
  PROVE  Ready(p, s)
BY DEF Ready, Lacks, After, Stage

LEMMA ReadyAtEnd == \A p : Ready(p, "BODY")
BY DEF Ready, Lacks

\* The script of a run while the headers are there.
LEMMA FileRun ==
  ASSUME SieveInv, SieveInv', MailInv, NEW k \in Rcpt, Run(k), "headers" \notin lost
  PROVE  \E script, o :
           /\ script \in Script /\ script = file[GetScript(cached, address[k])]
           /\ k \in todo /\ k \in DOMAIN effects /\ k \in DOMAIN last
           /\ last' = [last EXCEPT ![k] = script]
           /\ effects' = [effects EXCEPT ![k] = o.done]
           /\ o.done # <<>> => Ready(Program[script][address[k]], stage)
           /\ stage # "RCPT" /\ Ready(Program[script][address[k]], Before(k))
                => o.done = ActionsOf(script, k)
<1> DEFINE a      == address[k]
           path   == GetScript(cached, a)
           script == file[path]
           prog   == Program[script][a]
           l      == local[owner[k]]
<1>1. /\ k \in DOMAIN address /\ a \in Addr /\ l \in LocalType /\ stage \in Stage /\ k \in todo
      /\ k \in DOMAIN effects /\ k \in DOMAIN last
  BY DEF SieveInv, MailInv, Staged, Sequenced, TypeOK, Run, First
<1>2. PICK lapse \in BOOLEAN, p \in Paths(prog) : Noted(Outcome(p, stage, l, lapse), k, a, path)
  BY DEF Run
<1> DEFINE o == Outcome(p, stage, l, lapse)
<1>3. /\ last' = [last EXCEPT ![k] = script]
      /\ effects' = [effects EXCEPT ![k] = o.done]
  BY <1>2 DEF Noted
<1>4. script \in Script /\ prog \in Seq(Test \cup Action)
  <2>1. script \in Script
    BY <1>1, RunsScript
  <2> HIDE DEF script
  <2> QED BY <1>1, <2>1, SieveAssumption
<1>5. p \in Seq(Test \cup Action)
  <2> HIDE DEF prog
  <2> QED BY <1>2, <1>4, PathType
<1>6. p = prog \/ (stage = "BODY" /\ ~Ready(prog, "HEADERS"))
  <2> SUFFICES ASSUME p # prog PROVE stage = "BODY" /\ ~Ready(prog, "HEADERS")
    OBVIOUS
  <2>1. PICK i \in DOMAIN prog : prog[i] \in Misleading
    BY <1>2 DEF Paths
  <2>2. prog[i] = "size" /\ ~sized /\ lost # {}
    BY <2>1 DEF Misleading
  <2>3. Lacks(prog[i], "HEADERS") # {}
    BY <2>2 DEF Lacks
  <2> HIDE DEF prog
  <2> QED BY <2>2, <2>3 DEF Ready, MailInv, Staged
<1>7. /\ o.done # <<>> => Ready(p, stage)
      /\ stage # "RCPT" /\ Ready(p, stage) => o.done = Chosen(p, Action)
  <2>1. o = Outcome(p, stage, l, lapse)
    OBVIOUS
  <2> HIDE DEF l, o, prog
  <2> QED BY <1>1, <1>2, <1>5, <2>1, ReadyRun
<1>8. o.done # <<>> => Ready(prog, stage)
  <2> HIDE DEF prog, o
  <2> QED BY <1>6, <1>7, ReadyAtEnd
<1>9. stage # "RCPT" /\ Ready(prog, Before(k)) => o.done = ActionsOf(script, k)
  <2> SUFFICES ASSUME stage # "RCPT", Ready(prog, Before(k)) PROVE o.done = ActionsOf(script, k)
    OBVIOUS
  <2>1. p = prog
    <3> HIDE DEF prog
    <3> QED BY <1>1, <1>6 DEF Before
  <2>2. Ready(p, stage)
    <3> HIDE DEF prog
    <3> QED BY <1>1, <2>1, ReadyAtEnd DEF Before
  <2>3. o.done = Chosen(prog, Action)
    <3> HIDE DEF prog, o
    <3> QED BY <1>7, <2>1, <2>2
  <2> QED BY <2>3 DEF ActionsOf
<1> HIDE DEF o, script
<1>10. /\ script = file[GetScript(cached, address[k])]
       /\ o.done # <<>> => Ready(Program[script][address[k]], stage)
       /\ stage # "RCPT" /\ Ready(Program[script][address[k]], Before(k))
            => o.done = ActionsOf(script, k)
  BY <1>8, <1>9 DEF script
<1> QED BY <1>1, <1>3, <1>4, <1>10

LEMMA LastingStep ==
  ASSUME SieveInv, SieveInv', MailInv, Lasting, [Next]_vars PROVE Lasting'
<1>1. /\ last \in Seq(Script \cup {None}) /\ Len(last) = Len(address) /\ address \in Seq(Addr)
      /\ effects \in Seq(Seq(Action)) /\ Len(effects) = Len(address) /\ stage \in Stage
      /\ lost # {} => stage = "BODY"
  BY DEF SieveInv, MailInv, Staged, Sequenced, TypeOK
<1>0. \A p, s : Ready(p, s)' = Ready(p, s)
  <2>1. sized' = sized
    BY DEF Next, Upload, NextStage, Over, Arrive, Run, PassOver, vars, message
  <2> QED BY <2>1 DEF Ready, Lacks
<1>2. ASSUME NEW a \in Addr, Arrive(a) PROVE Lasting'
  <2> DEFINE n == Len(address) + 1
  <2>1. /\ stage = "RCPT" /\ todo' = {n} /\ address' = Append(address, a)
        /\ last' = Append(last, None) /\ effects' = Append(effects, <<>>)
        /\ UNCHANGED <<stage, lost>>
    BY <1>2 DEF Arrive
  <2> SUFFICES ASSUME "headers" \notin lost, NEW k \in DOMAIN effects', effects'[k] # <<>>
               PROVE  /\ last'[k] # None /\ k # n
                      /\ Ready(Program[last'[k]][address'[k]], stage)
    BY <1>0, <2>1 DEF Lasting, Before
  <2>2. k # n
    BY <1>1, <2>1
  <2>3. k \in DOMAIN effects /\ effects'[k] = effects[k] /\ last'[k] = last[k]
        /\ address'[k] = address[k]
    BY <1>1, <2>1, <2>2
  <2> QED BY <2>1, <2>2, <2>3 DEF Lasting, Before
<1>3. ASSUME NEW k \in Rcpt, Run(k) PROVE Lasting'
  <2>1. UNCHANGED <<stage, lost, address>> /\ todo' \subseteq todo \ {k}
    BY <1>3 DEF Run
  <2> SUFFICES ASSUME "headers" \notin lost, NEW j \in DOMAIN effects', effects'[j] # <<>>
               PROVE  /\ last'[j] # None /\ (stage = "RCPT" => j \notin todo')
                      /\ Ready(Program[last'[j]][address[j]],
                               IF stage = "BODY" /\ j \in todo' THEN "HEADERS" ELSE stage)
    BY <1>0, <2>1 DEF Lasting, Before
  <2>2. PICK script, o :
           /\ script \in Script
           /\ k \in todo /\ k \in DOMAIN effects /\ k \in DOMAIN last
           /\ last' = [last EXCEPT ![k] = script]
           /\ effects' = [effects EXCEPT ![k] = o.done]
           /\ o.done # <<>> => Ready(Program[script][address[k]], stage)
    BY <1>3, FileRun
  <2>3. CASE j = k
    <3>1. last'[k] = script /\ script # None /\ effects'[k] = o.done /\ k \notin todo'
      BY <2>1, <2>2, SieveAssumption
    <3> QED BY <2>2, <2>3, <3>1
  <2>4. CASE j # k
    <3>1. j \in DOMAIN effects /\ effects'[j] = effects[j] /\ last'[j] = last[j]
      BY <1>1, <2>2, <2>4
    <3>2. last[j] # None /\ (stage = "RCPT" => j \notin todo)
          /\ Ready(Program[last[j]][address[j]], Before(j))
      BY <3>1 DEF Lasting
    <3> QED BY <2>1, <3>1, <3>2, ReadyAtEnd DEF Before
  <2> QED BY <2>3, <2>4
<1>4. ASSUME NextStage PROVE Lasting'
  <2>1. UNCHANGED <<address, last, effects>>
    BY <1>4 DEF NextStage, history
  <2>2. \/ UNCHANGED <<stage, todo, lost>>
        \/ stage' # "RCPT" /\ stage' \in Stage /\ stage' \in After(stage) /\ lost = {}
           /\ (stage' = "BODY" => stage = "HEADERS")
    BY <1>1, <1>4 DEF NextStage, After, Stage
  <2>3. CASE UNCHANGED <<stage, todo, lost>>
    BY <1>0, <2>1, <2>3 DEF Lasting, Before
  <2>4. CASE stage' # "RCPT" /\ stage' \in Stage /\ stage' \in After(stage) /\ lost = {}
             /\ (stage' = "BODY" => stage = "HEADERS")
    <3> SUFFICES ASSUME NEW k \in DOMAIN effects, effects[k] # <<>>
                 PROVE  last[k] # None /\ Ready(Program[last[k]][address[k]], Before(k)')
      BY <1>0, <2>1, <2>4 DEF Lasting
    <3>1. last[k] # None /\ Ready(Program[last[k]][address[k]], stage)
      <4>1. last[k] # None /\ Ready(Program[last[k]][address[k]], Before(k))
        BY <2>4 DEF Lasting
      <4>2. Before(k) \in Stage /\ (stage = Before(k) \/ stage \in After(Before(k)))
        BY <1>1 DEF Before, Stage, After
      <4> QED BY <1>1, <4>1, <4>2, StaysReady
    <3>2. Before(k)' \in Stage /\ (Before(k)' = stage \/ Before(k)' \in After(stage))
      BY <1>1, <2>4 DEF Before, Stage
    <3> QED BY <1>1, <3>1, <3>2, StaysReady
  <2> QED BY <2>2, <2>3, <2>4
<1>5. CASE Upload \/ UNCHANGED vars \/ \E k \in Rcpt : PassOver(k)
  <2>1. UNCHANGED <<address, last, effects, stage, lost>> /\ todo' \subseteq todo
    BY <1>5 DEF Upload, PassOver, vars, history
  <2> SUFFICES ASSUME "headers" \notin lost, NEW k \in DOMAIN effects, effects[k] # <<>>
               PROVE  /\ last[k] # None /\ (stage = "RCPT" => k \notin todo')
                      /\ Ready(Program[last[k]][address[k]],
                               IF stage = "BODY" /\ k \in todo' THEN "HEADERS" ELSE stage)
    BY <1>0, <2>1 DEF Lasting, Before
  <2> QED BY <2>1, ReadyAtEnd DEF Lasting, Before
<1> QED BY <1>2, <1>3, <1>4, <1>5 DEF Next, Over

THEOREM LastingInvariant == Spec => []Lasting
<1>1. Init => Lasting
  BY DEF Init, Lasting
<1> QED BY <1>1, LastingStep, SieveInvariant, MailInvariant, PTL DEF Spec

\* What has been carried out for a recipient is done likewise, or not again, when its
\* script is run at a later stage, unless its file has been replaced
\* (sieve_local::desired_stages, sieve::Run).
THEOREM DoneStays == Spec => DoneStaysDone
<1> DEFINE Step == \A k \in DOMAIN effects :
                     /\ effects[k] # <<>> /\ effects[k] = ActionsOf(last[k], k)
                     /\ GetScript(cached, address[k]) \notin replaced /\ "headers" \notin lost
                     => effects'[k] = effects[k]
<1>1. SieveInv /\ SieveInv' /\ MailInv /\ Lasting /\ [Next]_vars => [Step]_vars
  <2> SUFFICES ASSUME SieveInv, SieveInv', MailInv, Lasting, Next,
                      NEW k \in DOMAIN effects, effects[k] # <<>>,
                      effects[k] = ActionsOf(last[k], k),
                      GetScript(cached, address[k]) \notin replaced, "headers" \notin lost
               PROVE  effects'[k] = effects[k]
    OBVIOUS
  <2>1. /\ effects \in Seq(Seq(Action)) /\ Len(effects) = Len(address)
        /\ Len(ran) = Len(address) /\ ran \in Seq(SUBSET (Path \X Script))
    BY DEF MailInv, Staged, SieveInv, Sequenced
  <2>2. ASSUME NEW a \in Addr, Arrive(a) PROVE effects'[k] = effects[k]
    <3>1. effects' = Append(effects, <<>>)
      BY <2>2 DEF Arrive
    <3> QED BY <2>1, <3>1
  <2>3. ASSUME NEW j \in Rcpt, Run(j) PROVE effects'[k] = effects[k]
    <3>1. PICK script, o :
            /\ script \in Script /\ script = file[GetScript(cached, address[j])]
            /\ j \in todo /\ j \in DOMAIN effects
            /\ effects' = [effects EXCEPT ![j] = o.done]
            /\ stage # "RCPT" /\ Ready(Program[script][address[j]], Before(j))
                 => o.done = ActionsOf(script, j)
      BY <2>3, FileRun
    <3>2. CASE k = j
      <4>1. /\ last[k] # None /\ stage # "RCPT"
            /\ Ready(Program[last[k]][address[k]], Before(k))
        BY <3>1, <3>2 DEF Lasting
      <4>2. PICK r \in ran[k] : r[2] = last[k] /\ RunOf(r, address[k])
        BY <2>1, <4>1 DEF SieveInv, Runs
      <4>3. script = last[k]
        BY <3>1, <3>2, <4>2 DEF RunOf
      <4> QED BY <2>1, <3>1, <3>2, <4>1, <4>3
    <3>3. CASE k # j
      BY <2>1, <3>1, <3>3
    <3> QED BY <3>2, <3>3
  <2>4. CASE Upload \/ NextStage \/ Over \/ \E j \in Rcpt : PassOver(j)
    BY <2>4 DEF Upload, NextStage, Over, PassOver, vars, history
  <2> QED BY <2>2, <2>3, <2>4 DEF Next
<1> QED BY <1>1, SieveInvariant, MailInvariant, LastingInvariant, PTL DEF Spec, DoneStaysDone
-----------------------------------------------------------------------------
(***************************************************************************)
(* Whose personal scripts a recipient's script includes.  They are not     *)
(* always the recipient's own, but never a stranger's.                     *)
(***************************************************************************)
CellMates(k) == {address[j] : j \in {j \in DOMAIN owner : owner[j] = owner[k]}}

Scoped ==
  /\ included \in Seq(SUBSET (Addr \cup {None})) /\ Len(included) = Len(address)
  /\ \A c \in DOMAIN local : local[c].personal # None =>
       \E j \in DOMAIN owner : owner[j] = c /\ local[c].personal = address[j]
  /\ \A k \in DOMAIN included : included[k] \subseteq CellMates(k)

LEMMA ArriveScoped ==
  ASSUME SieveInv, SieveInv', Scoped, NEW a \in Addr, Arrive(a) PROVE Scoped'
<1> DEFINE n == Len(address) + 1
<1>1. /\ address \in Seq(Addr) /\ owner \in Seq(Nat) /\ Len(owner) = Len(address)
      /\ included \in Seq(SUBSET (Addr \cup {None})) /\ Len(included) = Len(address)
  BY DEF SieveInv, Sequenced, Scoped
<1>2. PICK cell :
        /\ address' = Append(address, a) /\ owner' = Append(owner, cell)
        /\ local' = LocalWith(cell)
  BY DEF Arrive
<1>3. included' = Append(included, {}) /\ owner' \in Seq(Nat)
  BY DEF Arrive, SieveInv, Sequenced
<1>4. /\ DOMAIN owner = 1..Len(address) /\ DOMAIN owner' = 1..n
      /\ \A j \in 1..Len(address) : owner'[j] = owner[j] /\ address'[j] = address[j]
                                    /\ included'[j] = included[j]
      /\ included'[n] = {} /\ DOMAIN included' = 1..n /\ Len(included') = Len(address')
      /\ included' \in Seq(SUBSET (Addr \cup {None}))
  BY <1>1, <1>2, <1>3
<1>5. ASSUME NEW c \in DOMAIN local', local'[c].personal # None
      PROVE  \E j \in DOMAIN owner' : owner'[j] = c /\ local'[c].personal = address'[j]
  <2>1. c \in DOMAIN local /\ local'[c] = local[c]
    BY <1>2, <1>5 DEF LocalWith, NewLocal
  <2>2. PICK j \in DOMAIN owner : owner[j] = c /\ local[c].personal = address[j]
    BY <1>5, <2>1 DEF Scoped
  <2> QED BY <1>4, <2>1, <2>2
<1>6. ASSUME NEW k \in 1..n PROVE included'[k] \subseteq CellMates(k)'
  <2>1. CASE k = n
    BY <1>4, <2>1
  <2>2. CASE k # n
    <3>1. k \in 1..Len(address) /\ k \in DOMAIN included
      BY <1>1, <2>2
    <3>2. included[k] \subseteq CellMates(k)
      BY <3>1 DEF Scoped
    <3>3. CellMates(k) \subseteq CellMates(k)'
      BY <1>1, <1>4, <3>1 DEF CellMates
    <3> QED BY <1>4, <3>1, <3>2, <3>3
  <2> QED BY <2>1, <2>2
<1> QED BY <1>4, <1>5, <1>6 DEF Scoped

LEMMA RunScoped ==
  ASSUME SieveInv, SieveInv', Scoped, NEW k \in Rcpt, Run(k) PROVE Scoped'
<1> DEFINE a    == address[k]
           cell == owner[k]
           l    == local[cell]
<1>1. /\ owner \in Seq(Nat) /\ Len(owner) = Len(address) /\ address \in Seq(Addr)
      /\ k \in DOMAIN address /\ cell \in DOMAIN local /\ a \in Addr /\ l \in LocalType
      /\ included \in Seq(SUBSET (Addr \cup {None})) /\ Len(included) = Len(address)
      /\ local \in [DOMAIN local -> LocalType]
  BY DEF SieveInv, Sequenced, TypeOK, Scoped, Run, First
<1>2. PICK lapse \in BOOLEAN, p \in Paths(Program[file[GetScript(cached, a)]][a]) :
        LET o == Outcome(p, stage, l, lapse)
        IN  /\ local' = [local EXCEPT ![cell] = Included(o, a)]
            /\ included' = [included EXCEPT ![k] =
                 IF "include" \in o.tests THEN @ \cup {Included(o, a).personal} ELSE @]
  BY DEF Run, Noted
<1> DEFINE o == Outcome(p, stage, l, lapse)
           x == Included(o, a).personal
<1>3. UNCHANGED <<address, owner>>
  BY DEF Run
\* The scope is the recipient's own if it was empty, and stays otherwise.
<1>4. /\ x = l.personal \/ x = a
      /\ "include" \in o.tests => x # None
  <2>1. \E d, r : o.local = [l EXCEPT !.desired_stages = d, !.actions = <<>>, !.rejects = r]
    BY DEF Outcome, Leftover
  <2>2. o.local.personal = l.personal /\ a # None
    BY <1>1, <2>1, SieveAssumption DEF LocalType
  <2>3. x = IF "include" \in o.tests /\ l.personal = None THEN a ELSE l.personal
    <3>1. [o.local EXCEPT !.personal = a].personal = a
      BY <1>1, <2>1 DEF LocalType
    <3> HIDE DEF o, l
    <3> QED BY <2>2, <3>1 DEF Included
  <2> HIDE DEF o, l, x
  <2> QED BY <2>2, <2>3
<1> HIDE DEF o
<1>5. \A c \in DOMAIN local \ {cell} : local'[c] = local[c]
  BY <1>2
<1>6. local'[cell].personal = x /\ DOMAIN local' = DOMAIN local
  BY <1>1, <1>2 DEF o
<1>7. x # None => x \in CellMates(k) /\ \E j \in DOMAIN owner : owner[j] = cell /\ x = address[j]
  <2>1. x # None => \E j \in DOMAIN owner : owner[j] = cell /\ x = address[j]
    <3>1. CASE x = a
      BY <1>1, <3>1
    <3>2. CASE x = l.personal
      BY <1>1, <3>2 DEF Scoped
    <3> QED BY <1>4, <3>1, <3>2
  <2> HIDE DEF x
  <2> QED BY <2>1 DEF CellMates
<1>8. \A c \in DOMAIN local' : local'[c].personal # None =>
         \E j \in DOMAIN owner' : owner'[j] = c /\ local'[c].personal = address'[j]
  <2> SUFFICES ASSUME NEW c \in DOMAIN local, local'[c].personal # None
               PROVE  \E j \in DOMAIN owner : owner[j] = c /\ local'[c].personal = address[j]
    BY <1>3, <1>6
  <2>1. CASE c = cell
    BY <1>6, <1>7, <2>1
  <2>2. CASE c # cell
    BY <1>5, <2>2 DEF Scoped
  <2> QED BY <2>1, <2>2
<1>9. /\ included' \in Seq(SUBSET (Addr \cup {None})) /\ Len(included') = Len(included)
      /\ included'[k] \subseteq included[k] \cup ({x} \ {None})
      /\ \A j \in DOMAIN included \ {k} : included'[j] = included[j]
  <2>1. included' = [included EXCEPT ![k] = IF "include" \in o.tests THEN @ \cup {x} ELSE @]
    BY <1>2 DEF o
  <2>2. x \in Addr \cup {None}
    BY <1>1, <1>4 DEF LocalType
  <2>3. k \in DOMAIN included
    BY <1>1
  <2> HIDE DEF x
  <2>4. included'[k] = IF "include" \in o.tests THEN included[k] \cup {x} ELSE included[k]
    BY <1>1, <2>1, <2>3
  <2>5. included' \in Seq(SUBSET (Addr \cup {None})) /\ Len(included') = Len(included)
        /\ \A j \in DOMAIN included \ {k} : included'[j] = included[j]
    BY <1>1, <2>1, <2>2, <2>3
  <2> QED BY <1>4, <2>4, <2>5
<1>10. \A j : CellMates(j)' = CellMates(j)
  BY <1>3 DEF CellMates
<1>11. \A j \in DOMAIN included' : included'[j] \subseteq CellMates(j)'
  <2> SUFFICES ASSUME NEW j \in DOMAIN included PROVE included'[j] \subseteq CellMates(j)
    BY <1>1, <1>9, <1>10
  <2>1. included[j] \subseteq CellMates(j)
    BY DEF Scoped
  <2> HIDE DEF x
  <2> QED BY <1>7, <1>9, <2>1
<1> QED BY <1>1, <1>3, <1>8, <1>9, <1>11 DEF Scoped

\* The scope of an included personal script is private to the recipients of a cell: what a
\* recipient includes under that name is a script of its own or of one that shares its
\* cell (sieve_getscript, sieve_local).
THEOREM IncludesAreOfTheCell ==
  Spec => [](\A k \in DOMAIN included : included[k] \subseteq CellMates(k))
<1>1. Init => Scoped
  BY DEF Init, Scoped
<1>2. SieveInv /\ SieveInv' /\ Scoped /\ [Next]_vars => Scoped'
  <2>1. ASSUME UNCHANGED <<address, owner, local, included>>, Scoped PROVE Scoped'
    BY <2>1 DEF Scoped, CellMates
  <2>2. Upload \/ NextStage \/ Over \/ UNCHANGED vars \/ (\E k \in Rcpt : PassOver(k))
          => UNCHANGED <<address, owner, local, included>>
    BY DEF Upload, NextStage, Over, PassOver, vars, history
  <2> QED BY <2>1, <2>2, ArriveScoped, RunScoped DEF Next
<1>3. Scoped => \A k \in DOMAIN included : included[k] \subseteq CellMates(k)
  BY DEF Scoped
<1> QED BY <1>1, <1>2, <1>3, SieveInvariant, PTL DEF Spec
=============================================================================
