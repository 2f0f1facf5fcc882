----------------------------- MODULE ChainProofs -----------------------------
(***************************************************************************)
(* Theorems about Chain, for any configuration, delays, order of the       *)
(* plug-ins, addresses and number of recipients.                           *)
(***************************************************************************)
EXTENDS Chain, SequenceTheorems, Facts

\* The callback in progress determines the stage.
Stages ==
  /\ smtp \in {"start", "connected", "helo"} => stage = "EHLO"
  /\ smtp = "idle" => stage \in {"MAIL", "BODY"}
  /\ smtp = "envfrom" => stage = "MAIL"
  /\ smtp \in {"rcpt", "envrcpt"} => stage = "RCPT"
  /\ smtp \in {"eoh", "data"} => stage = "HEADERS"
  /\ smtp = "eom" => stage = "BODY"

\* Whom a callback has still to run the modules for: a suffix of the recipients.
Loops ==
  /\ flags = {}
  /\ smtp \in {"helo", "envfrom"} => todo = <<0>>
  /\ smtp = "envrcpt" => todo = <<Len(recipients) + 1>> /\ new \in Recipient
  /\ smtp = "envfrom" => kept = Len(recipients)
  /\ smtp \in {"eoh", "data", "eom"} => Len(recipients) > kept
  /\ smtp \in {"eoh", "eom"} =>
       /\ Len(todo) <= Len(recipients)
       /\ \A k \in 1..Len(todo) : todo[k] = Len(recipients) - Len(todo) + k

\* The modules the loop has passed.
Before(m) == \E i \in 1..at : modules[i] = m

\* When there is a time_t.
Timers ==
  /\ TimersAreFreed
  /\ ~Loaded("mod_delay") => timer = None
  /\ smtp \in {"start", "connected"} => timer = None
  /\ Loaded("mod_delay") /\ smtp \in {"helo", "envfrom", "rcpt", "envrcpt", "eoh", "data"}
       => timer # None
  /\ smtp = "idle" => (timer # None <=> Loaded("mod_delay") /\ stage = "MAIL")
  /\ smtp = "eom" /\ timer # None =>
       Len(todo) = Len(recipients) /\ ~Before("mod_delay")
  /\ smtp = "eom" /\ Loaded("mod_delay") /\ timer = None /\ Len(todo) = Len(recipients)
       => Before("mod_delay")
  /\ wait # None => todo # <<>> /\ \E i \in NextDue : modules[i] = "mod_delay"

\* The seconds that count for the client: those it has waited and those SIGALRM has cut
\* off, without the delays of the commands that have been answered.
Balance == credit + spared

\* They cover the age of the time_t, and the delay of the command as soon as mod_delay has
\* been run for it.
Credits ==
  /\ credit \in Int /\ spared \in Int /\ Balance \in Nat
  /\ timer # None => Balance >= timer
  /\ wait # None => Balance + wait >= Delay[stage]
  /\ smtp \in {"helo", "envfrom", "envrcpt"} /\ Before("mod_delay") =>
       Balance >= Delay[stage] + timer
  /\ smtp = "eom" /\ Loaded("mod_delay") /\ timer = None => Balance >= Delay["BODY"]

Welcome(a) ==
  /\ Loaded("mod_block_sender") => sender # Blocked
  /\ Loaded("mod_equal") /\ a = sender => sender = Postmaster

\* The modules the loop has passed did not object to the new recipient.
Admissions ==
  /\ smtp \in {"rcpt", "envrcpt", "eoh"} =>
       \A k \in (kept + 1)..Len(recipients) : Welcome(recipients[k].address)
  /\ smtp = "envrcpt" =>
       /\ Before("mod_block_sender") => sender # Blocked
       /\ Before("mod_equal") /\ new.address = sender => sender = Postmaster

\* Every module is loaded once, after its place in the order of the build.
Modules ==
  /\ \A i, j \in DOMAIN modules : modules[i] = modules[j] => i = j
  /\ smtp = "start" =>
       /\ at \in 0..Len(Order)
       /\ \A i \in DOMAIN modules : \E j \in 1..at : Order[j] = modules[i]

ChainInv ==
  /\ TypeOK /\ Stages /\ Loops /\ Timers /\ Credits /\ Admissions /\ Modules

-----------------------------------------------------------------------------
(***************************************************************************)
(* Facts about the constants and the operators.                            *)
(***************************************************************************)

LEMMA StatusFacts ==
  /\ Module = {"mod_block_sender", "mod_delay", "mod_equal", "mod_relayed", "mod_via",
               "mod_x_scc_headers"}
  /\ Status["mod_block_sender"] = {"RCPT"}
  /\ Status["mod_delay"] = {"EHLO", "MAIL", "RCPT", "BODY"}
  /\ Status["mod_equal"] = {"RCPT", "BODY"}
  /\ Status["mod_relayed"] = {"BODY"}
  /\ \A m \in Module : Status[m] \subseteq Stage
  /\ Stage = {"EHLO", "MAIL", "RCPT", "HEADERS", "BODY"}
<1>1. Module = {"mod_block_sender", "mod_delay", "mod_equal", "mod_relayed", "mod_via",
               "mod_x_scc_headers"}
  BY DEF Module, Status
<1>2. /\ Status["mod_block_sender"] = {"RCPT"}
      /\ Status["mod_delay"] = {"EHLO", "MAIL", "RCPT", "BODY"}
      /\ Status["mod_equal"] = {"RCPT", "BODY"}
      /\ Status["mod_relayed"] = {"BODY"}
      /\ Status["mod_via"] = {"HEADERS"}
      /\ Status["mod_x_scc_headers"] = {"BODY"}
  BY DEF Status
<1>3. \A m \in Module : Status[m] \subseteq Stage
  BY DEF Stage
<1>4. Stage = {"EHLO", "MAIL", "RCPT", "HEADERS", "BODY"}
  BY <1>1, <1>2 DEF Stage
<1>q. QED BY <1>1, <1>2, <1>3, <1>4

LEMMA DelayFacts ==
  /\ DOMAIN Delay = {"EHLO", "MAIL", "RCPT", "BODY"}
  /\ \A s \in DOMAIN Delay : Delay[s] \in Nat
BY ChainAssumption, StatusFacts DEF ChainAssumption

\* There is a longest delay.
LEMMA LongestFacts == Longest \in Nat /\ \A s \in DOMAIN Delay : Delay[s] <= Longest
<1> DEFINE L == {Delay[s] : s \in DOMAIN Delay}
           IsLongest(d) == \A s \in DOMAIN Delay : Delay[s] <= d
<1>1. L = {Delay["EHLO"], Delay["MAIL"], Delay["RCPT"], Delay["BODY"]} /\ L \subseteq Nat
  BY DelayFacts
<1>2. \E d \in L : IsLongest(d)
  <2>1. PICK a \in {Delay["EHLO"], Delay["MAIL"]} : Delay["EHLO"] <= a /\ Delay["MAIL"] <= a
    BY DelayFacts
  <2>2. PICK b \in {Delay["RCPT"], Delay["BODY"]} : Delay["RCPT"] <= b /\ Delay["BODY"] <= b
    BY DelayFacts
  <2>3. PICK c \in {a, b} : a <= c /\ b <= c
    BY <2>1, <2>2, DelayFacts
  <2>4. c \in L /\ IsLongest(c)
    BY <2>1, <2>2, <2>3, <1>1, DelayFacts
  <2>q. QED BY <2>4
<1>3. Longest \in L /\ IsLongest(Longest)
  BY <1>2 DEF Longest
<1>q. QED BY <1>1, <1>3

\* The loop comes to one module at a time.
LEMMA OneDue ==
  ASSUME at \in Nat, modules \in Seq(Module), NEW i \in NextDue, NEW j \in NextDue
  PROVE  i = j
<1>1. i \in Nat /\ j \in Nat /\ i > at /\ j > at /\ Due(i) /\ Due(j)
  BY LenProperties DEF NextDue
<1>2. ~(i < j) /\ ~(j < i)
  BY <1>1 DEF NextDue
<1>q. QED BY <1>1, <1>2

\* No flag is ever left, so that the stage alone decides whether a module is run.
LEMMA StageDecides ==
  ASSUME flags = {}, NEW i
  PROVE  /\ Due(i) <=> stage \in Status[modules[i]]
         /\ \A m, k : Flagged(flags, m, k) = {}
BY DEF Due, Flagged

\* A loop at its end has passed every module of the stage.
LEMMA AllPassed ==
  ASSUME flags = {}, Passed, at \in Nat, modules \in Seq(Module), NEW m, Loaded(m),
         stage \in Status[m]
  PROVE  Before(m)
<1>1. PICK i \in DOMAIN modules : modules[i] = m
  BY DEF Loaded
<1>2. i \in 1..Len(modules)
  BY <1>1, LenProperties
<1>3. ~(i > at)
  BY <1>1, <1>2, StageDecides DEF Passed
<1>q. QED BY <1>1, <1>2, <1>3, LenProperties DEF Before

LEMMA EverybodyFacts ==
  ASSUME recipients \in Seq(Recipient), Len(recipients) <= MaxRcpt
  PROVE  /\ Everybody \in Seq(0..MaxRcpt) /\ Len(Everybody) = Len(recipients)
         /\ \A k \in 1..Len(recipients) : Everybody[k] = k
<1>1. Len(recipients) \in Nat /\ DOMAIN recipients = 1..Len(recipients)
  BY LenProperties
<1>2. Everybody = [k \in 1..Len(recipients) |-> k]
  BY <1>1 DEF Everybody
<1>3. \A k \in 1..Len(recipients) : k \in 0..MaxRcpt
  BY <1>1, ChainAssumption DEF ChainAssumption
<1>q. QED BY <1>1, <1>2, <1>3

-----------------------------------------------------------------------------
(***************************************************************************)
(* What the invariant says of the places a callback can be at.             *)
(***************************************************************************)

LEMMA Typed ==
  ASSUME ChainInv
  PROVE  /\ modules \in Seq(Module) /\ Len(modules) \in Nat
         /\ DOMAIN modules = 1..Len(modules)
         /\ recipients \in Seq(Recipient) /\ Len(recipients) \in Nat /\ kept \in Nat
         /\ todo \in Seq(0..MaxRcpt) /\ Len(todo) \in Nat
         /\ smtp \in Wakes \cup Busy => at \in Nat
         /\ timer \in Int /\ wait \in Int /\ flags = {}
         /\ credit \in Int /\ spared \in Int /\ Balance \in Nat
         /\ stage \in Stage
<1>1. modules \in Seq(Module)
  BY DEF ChainInv, TypeOK
<1>2. recipients \in Seq(Recipient) /\ todo \in Seq(0..MaxRcpt)
  BY DEF ChainInv, TypeOK
<1>3. /\ Len(modules) \in Nat /\ DOMAIN modules = 1..Len(modules)
      /\ Len(recipients) \in Nat /\ Len(todo) \in Nat
  BY <1>1, <1>2, LenProperties
<1>q. QED BY <1>1, <1>2, <1>3, LongestFacts DEF ChainInv, TypeOK, Credits, Balance, Loops, None

\* Between two callbacks there is nobody to visit, and mod_delay is not asleep.
LEMMA Quiet ==
  ASSUME ChainInv, smtp \notin Busy
  PROVE  todo = <<>> /\ wait = None
BY DEF ChainInv, TypeOK, Timers

\* A callback at a module that is due.
LEMMA Going ==
  ASSUME ChainInv, NEW i \in NextDue, todo # <<>>
  PROVE  /\ smtp \in Busy /\ at \in Nat
         /\ i \in (at + 1)..Len(modules) /\ modules[i] \in Module
         /\ stage \in Status[modules[i]]
         /\ wait # None => modules[i] = "mod_delay"
<1>1. smtp \in Busy /\ at \in Nat
  BY Typed DEF ChainInv, TypeOK, Busy
<1>2. i \in (at + 1)..Len(modules) /\ modules[i] \in Module
  BY <1>1, Typed DEF NextDue
<1>3. stage \in Status[modules[i]]
  BY StageDecides, Typed DEF NextDue
<1>4. wait # None => modules[i] = "mod_delay"
  BY <1>1, Typed, OneDue DEF ChainInv, Timers
<1>q. QED BY <1>1, <1>2, <1>3, <1>4

\* After it the loop has passed one more module of the stage.
LEMMA Advance ==
  ASSUME ChainInv, NEW i \in NextDue, todo # <<>>, at' = i, UNCHANGED modules,
         NEW m, stage \in Status[m]
  PROVE  Before(m)' <=> Before(m) \/ m = modules[i]
<1>1. /\ at \in Nat /\ i \in (at + 1)..Len(modules) /\ Len(modules) \in Nat
      /\ \A j \in (at + 1)..(i - 1) : stage \notin Status[modules[j]]
  BY Going, Typed, StageDecides DEF NextDue
<1>2. Before(m)' <=> \E j \in 1..i : modules[j] = m
  BY DEF Before
<1>3. \A j \in 1..i : j \in 1..at \/ j \in (at + 1)..(i - 1) \/ j = i
  BY <1>1
<1>q. QED BY <1>1, <1>2, <1>3 DEF Before

\* What a loop that has come to its end has seen to.
LEMMA Done ==
  ASSUME ChainInv, Passed, NEW m, Loaded(m), stage \in Status[m]
  PROVE  Before(m)
BY AllPassed, Typed DEF ChainInv, TypeOK, Passed

-----------------------------------------------------------------------------
(***************************************************************************)
(* The invariant.                                                          *)
(***************************************************************************)

LEMMA InitEstablishes == Init => ChainInv
<1> SUFFICES ASSUME Init PROVE ChainInv
  OBVIOUS
<1>1. TypeOK
  <2>1. unknown \subseteq config /\ modules \in Seq(config \cap Module)
    BY DEF Init
  <2>2. todo \in Seq(0..MaxRcpt) /\ recipients \in Seq(Recipient) /\ Len(recipients) = 0
    BY DEF Init
  <2>3. timer \in None..Longest /\ wait \in None..Longest /\ wait = None /\ kept \in 0..0
    BY LongestFacts DEF Init, None
  <2>4. Len(recipients) <= MaxRcpt
    BY <2>2, ChainAssumption DEF ChainAssumption
  <2>5. stage \in Stage
    BY StatusFacts DEF Init
  <2>q. QED BY <2>1, <2>2, <2>3, <2>4, <2>5 DEF Init, TypeOK, Wakes, Busy
<1>2. Stages /\ Loops /\ Timers /\ Credits /\ Admissions /\ Modules
  BY ChainAssumption, LenProperties
  DEF Init, Stages, Loops, Timers, TimersAreFreed, Credits, Balance, Admissions, Modules, None,
      Busy, Loaded
<1>q. QED BY <1>1, <1>2 DEF ChainInv

LEMMA LoadKeeps == ASSUME ChainInv, Load PROVE ChainInv'
<1>1. todo = <<>> /\ wait = None /\ smtp = "start"
  BY Quiet DEF Load, Busy
<1>2. TypeOK'
  BY <1>1, ChainAssumption DEF ChainInv, Load, TypeOK, mail, delays, Wakes, Busy, ChainAssumption
<1>3. Stages' /\ Loops' /\ Credits' /\ Admissions'
  BY <1>1 DEF ChainInv, Load, Stages, Loops, Credits, Balance, Admissions, mail, delays
<1>4. Timers'
  BY <1>1 DEF ChainInv, Load, Timers, TimersAreFreed, mail, delays
<1>5. Modules'
  <2> DEFINE p == Order[at + 1]
  <2>1. /\ at \in Nat /\ at + 1 \in DOMAIN Order /\ at' = at + 1
        /\ \A j \in 1..at : j \in DOMAIN Order
        /\ \A i \in DOMAIN modules : modules[i] # p
    <3>1. /\ at \in 0..Len(Order) /\ at < Len(Order) /\ at' = at + 1
          /\ \A i \in DOMAIN modules : \E j \in 1..at : Order[j] = modules[i]
      BY <1>1 DEF ChainInv, Modules, Load
    <3>2. DOMAIN Order = 1..Len(Order) /\ Len(Order) \in Nat
      BY ChainAssumption, LenProperties DEF ChainAssumption
    <3>3. at \in Nat /\ at + 1 \in DOMAIN Order /\ \A j \in 1..at : j \in DOMAIN Order
      BY <3>1, <3>2
    <3>4. \A j \in 1..at : Order[j] # p
      BY <3>3, ChainAssumption DEF ChainAssumption
    <3>q. QED BY <3>1, <3>3, <3>4
  <2>2. CASE p \in config \cap Module
    <3>1. modules' = Append(modules, p)
      BY <2>2 DEF Load
    <3>2. /\ DOMAIN modules' = 1..(Len(modules) + 1)
          /\ \A i \in DOMAIN modules : modules'[i] = modules[i]
          /\ modules'[Len(modules) + 1] = p
      BY <2>2, <3>1, Typed
    <3>3. /\ \A i, j \in DOMAIN modules : modules[i] = modules[j] => i = j
          /\ \A i \in DOMAIN modules : \E j \in 1..at : Order[j] = modules[i]
      BY <1>1 DEF ChainInv, Modules
    <3>4. /\ at' \in 0..Len(Order) /\ at + 1 \in 1..at' /\ 1..at \subseteq 1..at'
          /\ DOMAIN modules = 1..Len(modules) /\ Order[at + 1] = p
      BY <2>1, Typed, LenProperties, ChainAssumption DEF ChainAssumption
    <3> HIDE DEF p
    <3>5. \A i \in DOMAIN modules' : \E j \in 1..at' : Order[j] = modules'[i]
      BY <3>2, <3>3, <3>4
    <3>6. \A i, j \in DOMAIN modules' : modules'[i] = modules'[j] => i = j
      <4>1. \A i \in DOMAIN modules' : i \in DOMAIN modules \/ i = Len(modules) + 1
        BY <3>2, <3>4, Typed
      <4>2. \A i \in DOMAIN modules : modules'[i] = modules[i] /\ modules[i] # p
        BY <2>1, <3>2
      <4>q. QED BY <3>2, <3>3, <4>1, <4>2
    <3>q. QED BY <3>4, <3>5, <3>6 DEF Modules
  <2>3. CASE p \notin config \cap Module
    BY <1>1, <2>1, <2>3 DEF ChainInv, Modules, Load
  <2>q. QED BY <2>2, <2>3
<1>q. QED BY <1>2, <1>3, <1>4, <1>5 DEF ChainInv

LEMMA ConnectKeeps == ASSUME ChainInv, Connect PROVE ChainInv'
<1>1. todo = <<>> /\ wait = None /\ smtp = "start"
  BY Quiet DEF Connect, Busy
<1>2. TypeOK'
  BY <1>1, Typed DEF ChainInv, Connect, TypeOK, plugins, mail, delays, Wakes, Busy
<1>3. Stages' /\ Loops' /\ Credits' /\ Admissions' /\ Modules'
  BY <1>1 DEF ChainInv, Connect, Stages, Loops, Credits, Balance, Admissions, Modules,
     plugins, mail, delays
<1>4. Timers'
  BY <1>1 DEF ChainInv, Connect, Timers, TimersAreFreed, Loaded, plugins, mail, delays
<1>q. QED BY <1>2, <1>3, <1>4 DEF ChainInv

LEMMA HeloKeeps == ASSUME ChainInv, Helo PROVE ChainInv'
<1>1. /\ todo = <<>> /\ wait = None /\ smtp \in {"connected", "idle"}
      /\ smtp' = "helo" /\ todo' = <<0>> /\ at' = 0 /\ stage' = "EHLO" /\ wait' = None
      /\ UNCHANGED <<plugins, mail, flags>>
  BY Quiet DEF Helo, Call, Busy
<1>2. /\ ~Loaded("mod_delay") => timer' = None /\ live' = 0 /\ UNCHANGED <<credit, spared>>
      /\ Loaded("mod_delay") => timer' = 0 /\ live' = 1 /\ credit' = 0 /\ spared' = 0
  BY <1>1 DEF ChainInv, Stages, Timers, TimersAreFreed, Helo, InitModules, Cleared, None
<1>3. TypeOK'
  <2>1. timer' \in None..Longest /\ wait' \in None..Longest
    BY <1>1, <1>2, LongestFacts DEF None
  <2>2. todo' \in Seq(0..MaxRcpt) /\ at' \in 0..Len(modules)
    <3>1. 0 \in 0..MaxRcpt /\ 0 \in 0..Len(modules)
      BY Typed, ChainAssumption DEF ChainAssumption
    <3>q. QED BY <1>1, <3>1
  <2>3. smtp' \in Busy /\ stage' \in Stage /\ wait' = None
    BY <1>1, StatusFacts DEF Busy
  <2>q. QED BY <1>1, <2>1, <2>2, <2>3 DEF ChainInv, TypeOK, plugins, mail
<1>4. Stages' /\ Loops' /\ Admissions' /\ Modules'
  BY <1>1 DEF ChainInv, Stages, Loops, Admissions, Modules, plugins, mail
<1>5. Timers'
  BY <1>1, <1>2 DEF Timers, TimersAreFreed, Loaded, plugins, None
<1>6. Credits'
  BY <1>1, <1>2, Typed DEF Credits, Balance, Before, None
<1>q. QED BY <1>3, <1>4, <1>5, <1>6 DEF ChainInv

LEMMA MailFromKeeps ==
  ASSUME ChainInv, NEW s \in Addr, NEW p \in BOOLEAN, MailFrom(s, p) PROVE ChainInv'
<1>1. /\ todo = <<>> /\ wait = None /\ smtp = "idle"
      /\ smtp' = "envfrom" /\ todo' = <<0>> /\ at' = 0 /\ stage' = "MAIL" /\ wait' = None
      /\ sender' = s /\ prdr' = p /\ UNCHANGED <<plugins, flags>>
  BY Quiet DEF MailFrom, Call, Busy
<1>2. /\ ~Loaded("mod_delay") => timer' = None /\ live' = 0 /\ UNCHANGED <<credit, spared>>
      /\ Loaded("mod_delay") =>
           /\ timer' # None /\ live' = 1
           /\ \/ timer' = 0 /\ credit' = 0 /\ spared' = 0
              \/ UNCHANGED <<timer, credit, spared>>
  BY <1>1 DEF ChainInv, Stages, Timers, TimersAreFreed, MailFrom, NewMessage, InitModules, None
<1>3. /\ kept' = Len(recipients') /\ Len(recipients') <= MaxRcpt
      /\ recipients' \in Seq(Recipient) /\ Len(recipients') \in Nat
  <2>1. \/ recipients' = recipients /\ kept' = Len(recipients)
        \/ recipients' = <<>> /\ kept' = 0
    BY DEF MailFrom, NewMessage
  <2>2. Len(recipients) <= MaxRcpt /\ 0 <= MaxRcpt
    BY ChainAssumption DEF ChainInv, TypeOK, ChainAssumption
  <2>3. <<>> \in Seq(Recipient) /\ Len(<<>>) = 0
    OBVIOUS
  <2>4. CASE recipients' = recipients /\ kept' = Len(recipients)
    BY <2>2, <2>4, Typed
  <2>5. CASE recipients' = <<>> /\ kept' = 0
    BY <2>2, <2>3, <2>5
  <2>q. QED BY <2>1, <2>4, <2>5
<1>4. TypeOK'
  <2>1. timer' \in None..Longest /\ wait' \in None..Longest
    <3>1. timer \in None..Longest
      BY DEF ChainInv, TypeOK
    <3>q. QED BY <1>1, <1>2, <3>1, LongestFacts DEF None
  <2>2. todo' \in Seq(0..MaxRcpt) /\ at' \in 0..Len(modules)
    <3>1. 0 \in 0..MaxRcpt /\ 0 \in 0..Len(modules)
      BY Typed, ChainAssumption DEF ChainAssumption
    <3>q. QED BY <1>1, <3>1
  <2>3. smtp' \in Busy /\ stage' \in Stage /\ wait' = None
    BY <1>1, StatusFacts DEF Busy
  <2>4. kept' \in 0..Len(recipients')
    BY <1>3
  <2>q. QED BY <1>1, <1>3, <2>1, <2>2, <2>3, <2>4 DEF ChainInv, TypeOK, plugins
<1>5. Stages' /\ Loops' /\ Admissions' /\ Modules'
  BY <1>1, <1>3 DEF ChainInv, Stages, Loops, Admissions, Modules, plugins
<1>6. Timers'
  BY <1>1, <1>2 DEF Timers, TimersAreFreed, Loaded, plugins, None
<1>7. Credits'
  BY <1>1, <1>2, Typed DEF ChainInv, Credits, Balance, Before, None
<1>q. QED BY <1>4, <1>5, <1>6, <1>7 DEF ChainInv

LEMMA RcptToKeeps ==
  ASSUME ChainInv, NEW a \in Addr, NEW never \in BOOLEAN, RcptTo(a, never) PROVE ChainInv'
<1>1. /\ todo = <<>> /\ wait = None /\ smtp = "rcpt" /\ smtp' = "envrcpt" /\ at' = 0
      /\ todo' = <<Len(recipients) + 1>> /\ Len(recipients) < MaxRcpt
      /\ new' = [address |-> a, never |-> never] /\ flags' = {}
      /\ UNCHANGED <<plugins, stage, sender, prdr, recipients, kept, delays>>
  BY Quiet, Typed DEF RcptTo, Call, Busy
<1>2. TypeOK'
  BY <1>1, Typed, ChainAssumption
  DEF ChainInv, TypeOK, plugins, delays, Wakes, Busy, ChainAssumption
<1>3. Stages' /\ Loops' /\ Modules'
  BY <1>1 DEF ChainInv, Stages, Loops, Modules, plugins, Recipient
<1>4. Timers'
  BY <1>1 DEF ChainInv, Timers, TimersAreFreed, Loaded, plugins, delays
<1>5. Credits' /\ Admissions'
  BY <1>1 DEF ChainInv, Credits, Balance, Admissions, Welcome, Loaded, Before, plugins, delays
<1>q. QED BY <1>2, <1>3, <1>4, <1>5 DEF ChainInv

LEMMA EohKeeps == ASSUME ChainInv, Eoh PROVE ChainInv'
<1>1. /\ todo = <<>> /\ wait = None /\ smtp = "rcpt" /\ smtp' = "eoh" /\ at' = 0
      /\ todo' = Everybody /\ stage' = "HEADERS" /\ Len(recipients) > kept
      /\ UNCHANGED <<plugins, mail, flags, delays>>
  BY Quiet DEF Eoh, Call, Busy
<1>2. TypeOK'
  <2>1. todo' \in Seq(0..MaxRcpt)
    BY <1>1, EverybodyFacts DEF ChainInv, TypeOK
  <2>q. QED BY <1>1, <2>1, Typed, StatusFacts
        DEF ChainInv, TypeOK, plugins, mail, delays, Wakes, Busy
<1>3. Stages' /\ Admissions' /\ Modules'
  BY <1>1 DEF ChainInv, Stages, Admissions, Welcome, Loaded, Modules, plugins, mail
<1>4. Loops'
  BY <1>1, EverybodyFacts, Typed DEF ChainInv, TypeOK, Loops, mail
<1>5. Timers' /\ Credits'
  BY <1>1 DEF ChainInv, Timers, TimersAreFreed, Credits, Balance, Loaded, plugins, delays
<1>q. QED BY <1>2, <1>3, <1>4, <1>5 DEF ChainInv

LEMMA EomKeeps == ASSUME ChainInv, Eom PROVE ChainInv'
<1>1. /\ todo = <<>> /\ wait = None /\ smtp = "data" /\ smtp' = "eom" /\ at' = 0
      /\ todo' = Everybody /\ stage' = "BODY"
      /\ UNCHANGED <<plugins, mail, flags, delays>>
  BY Quiet DEF Eom, Call, Busy
<1>2. Len(todo') = Len(recipients) /\ Len(recipients) > kept
  BY <1>1, EverybodyFacts, Typed DEF ChainInv, TypeOK, Loops
<1>3. TypeOK'
  <2>1. todo' \in Seq(0..MaxRcpt)
    BY <1>1, EverybodyFacts DEF ChainInv, TypeOK
  <2>q. QED BY <1>1, <2>1, Typed, StatusFacts
        DEF ChainInv, TypeOK, plugins, mail, delays, Wakes, Busy
<1>4. Stages' /\ Admissions' /\ Modules'
  BY <1>1 DEF ChainInv, Stages, Admissions, Modules, plugins
<1>5. Loops'
  BY <1>1, <1>2, EverybodyFacts, Typed DEF ChainInv, TypeOK, Loops, mail
<1>6. Timers' /\ Credits'
  BY <1>1, <1>2 DEF ChainInv, Timers, TimersAreFreed, Credits, Balance, Loaded, Before, plugins,
     mail, delays
<1>q. QED BY <1>3, <1>4, <1>5, <1>6 DEF ChainInv

LEMMA CloseKeeps == ASSUME ChainInv, Close PROVE ChainInv'
<1>1. /\ todo = <<>> /\ wait = None /\ smtp' = "closed" /\ timer' = None /\ live' = 0
      /\ UNCHANGED <<plugins, stage, place, mail, flags, wait, credit, spared>>
  BY Quiet DEF ChainInv, Timers, TimersAreFreed, Close, Cleared, Wakes, Busy, None
<1>2. TypeOK'
  BY <1>1, LongestFacts DEF ChainInv, TypeOK, plugins, place, mail, Wakes, Busy, None
<1>3. Stages' /\ Loops' /\ Admissions' /\ Modules'
  BY <1>1 DEF ChainInv, Stages, Loops, Admissions, Modules, plugins, mail
<1>4. Timers' /\ Credits'
  BY <1>1 DEF ChainInv, Timers, TimersAreFreed, Credits, Balance
<1>q. QED BY <1>2, <1>3, <1>4 DEF ChainInv

\* The outcomes of a run: the daemon dies, the recipient is refused, the loop goes on.
LEMMA RunKeeps ==
  ASSUME ChainInv, NEW i \in DOMAIN modules, Run(i) PROVE ChainInv'
<1> DEFINE m == modules[i]
<1>1. /\ i \in NextDue /\ todo # <<>> /\ smtp \in Busy /\ at \in Nat
      /\ i \in (at + 1)..Len(modules) /\ stage \in Status[m] /\ m # "mod_delay"
      /\ wait = None
  BY Going DEF Run
<1>2. /\ flags' = {} /\ UNCHANGED <<plugins, stage, mail, delays>>
  BY StageDecides, Typed DEF Run
<1>3. \/ smtp' = "dead" /\ todo' = <<>> /\ at' = 0
      \/ smtp' = "rcpt" /\ todo' = <<>> /\ at' = 0 /\ Objects(m, Visited)
      \/ smtp' = smtp /\ todo' = todo /\ at' = i /\ ~Objects(m, Visited)
  BY DEF Run, Needs, Return, Call
<1>4. Objects(m, Visited) => smtp = "envrcpt"
  BY <1>1, StatusFacts DEF Objects, ChainInv, Stages, Busy
<1>5. UNCHANGED <<config, unknown, modules, tables, stage, new, sender, prdr, recipients, kept,
                  timer, wait, live, credit, spared>>
  BY <1>2 DEF plugins, mail, delays
<1>6. stage \in Status["mod_delay"] /\ at' = i => (Before("mod_delay")' <=> Before("mod_delay"))
  BY <1>1, <1>5, Advance
<1>7. TypeOK'
  <2>1. todo' \in Seq(0..MaxRcpt)
    <3>1. CASE todo' = <<>>
      BY <3>1
    <3>2. CASE todo' = todo
      BY <3>2, Typed
    <3>q. QED BY <1>3, <3>1, <3>2
  <2>2. smtp' \notin Busy => todo' = <<>>
    BY <1>1, <1>3
  <2>3. smtp' \in Wakes \cup Busy => at' \in 0..Len(modules)
    BY <1>1, <1>3, Typed DEF Wakes, Busy
  <2>4. smtp' \in {"start", "closed", "dead"} \cup Wakes \cup Busy
    BY <1>1, <1>3 DEF Wakes
  <2>q. QED BY <1>1, <1>5, <2>1, <2>2, <2>3, <2>4 DEF ChainInv, TypeOK
<1>8. Stages' /\ Loops' /\ Modules'
  BY <1>1, <1>2, <1>3, <1>4, <1>5
  DEF ChainInv, Stages, Loops, Modules, Busy
<1>9. stage \in Status["mod_delay"] \/ smtp = "eoh"
  BY <1>1, StatusFacts DEF ChainInv, Stages, Busy
<1>10. Timers'
  <2>1. TimersAreFreed' /\ (~Loaded("mod_delay") => timer = None)
    BY <1>5 DEF ChainInv, Timers, TimersAreFreed
  <2>2. CASE at' = i /\ smtp' = smtp /\ todo' = todo
    BY <1>1, <1>5, <1>6, <1>9, <2>1, <2>2 DEF ChainInv, Timers, Loaded, Busy, Stages
  <2>3. CASE smtp' = "dead"
    BY <1>1, <1>5, <2>1, <2>3 DEF ChainInv, Timers, Loaded
  <2>4. CASE smtp' = "rcpt" /\ smtp = "envrcpt"
    BY <1>1, <1>5, <2>1, <2>4 DEF ChainInv, Timers, Loaded
  <2>q. QED BY <1>3, <1>4, <2>2, <2>3, <2>4
<1>11. Credits'
  <2>1. CASE at' = i /\ smtp' = smtp /\ todo' = todo
    BY <1>1, <1>5, <1>6, <1>9, <2>1 DEF ChainInv, Credits, Balance, Loaded, Busy, Stages
  <2>2. CASE smtp' = "dead" \/ smtp' = "rcpt"
    BY <1>1, <1>5, <2>2 DEF ChainInv, Credits, Balance
  <2>q. QED BY <1>3, <2>1, <2>2
<1>12. Admissions'
  <2>1. CASE smtp' = "dead"
    BY <2>1 DEF Admissions
  <2>2. CASE smtp' = "rcpt" /\ smtp = "envrcpt"
    BY <1>5, <2>2 DEF ChainInv, Admissions, Welcome, Loaded
  <2>3. CASE at' = i /\ smtp' = smtp /\ todo' = todo /\ ~Objects(m, Visited)
    <3>1. \A k \in (kept + 1)..Len(recipients) :
            Welcome(recipients[k].address)' <=> Welcome(recipients[k].address)
      BY <1>5 DEF Welcome, Loaded
    <3>2. ASSUME smtp = "envrcpt"
          PROVE  /\ Before("mod_block_sender")' => sender # Blocked
                 /\ Before("mod_equal")' /\ new.address = sender => sender = Postmaster
      <4>1. stage = "RCPT" /\ Visited = new
        BY <3>2, Typed DEF ChainInv, Stages, Loops, Visited, Subject
      <4>2. \A x \in {"mod_block_sender", "mod_equal"} : Before(x)' <=> Before(x) \/ x = m
        BY <1>1, <1>5, <2>3, <4>1, Advance, StatusFacts
      <4>3. m = "mod_block_sender" => sender # Blocked
        BY <2>3 DEF Objects
      <4>4. m = "mod_equal" /\ new.address = sender => sender = Postmaster
        BY <2>3, <4>1 DEF Objects
      <4>q. QED BY <3>2, <4>2, <4>3, <4>4 DEF ChainInv, Admissions
    <3>q. QED BY <1>5, <2>3, <3>1, <3>2 DEF ChainInv, Admissions
  <2>q. QED BY <1>3, <1>4, <2>1, <2>2, <2>3
<1>q. QED BY <1>7, <1>8, <1>10, <1>11, <1>12 DEF ChainInv

\* mod_delay goes to sleep.
LEMMA SleepKeeps ==
  ASSUME ChainInv, NEW i \in DOMAIN modules, Sleep(i) PROVE ChainInv'
<1>1. /\ i \in NextDue /\ todo # <<>> /\ smtp \in Busy /\ at \in Nat
      /\ modules[i] = "mod_delay" /\ stage \in DOMAIN Delay /\ timer \in Nat
  <2>1. timer \in Nat
    BY LongestFacts DEF Sleep, Forgotten, ChainInv, TypeOK, None
  <2>q. QED BY <2>1, Going, DelayFacts, StatusFacts DEF Sleep
<1>2. /\ wait' \in 0..Longest /\ wait' + timer >= Delay[stage]
  BY <1>1, DelayFacts, LongestFacts DEF Sleep, Remaining
<1>3. UNCHANGED <<config, unknown, modules, tables, smtp, stage, todo, at, new, sender, prdr,
                  recipients, kept, flags, timer, live, credit, spared>>
  BY DEF Sleep, plugins, place, mail
<1>4. TypeOK'
  BY <1>1, <1>2, <1>3, LongestFacts DEF ChainInv, TypeOK, None
<1>5. Stages' /\ Loops' /\ Admissions' /\ Modules'
  BY <1>3 DEF ChainInv, Stages, Loops, Admissions, Welcome, Modules, Loaded,
     Before, Subject
<1>6. NextDue' = NextDue
  BY <1>3 DEF NextDue, Due, Cell, Subject
<1>7. Timers'
  BY <1>1, <1>3, <1>6 DEF ChainInv, Timers, TimersAreFreed, Loaded, Before
<1>8. Credits'
  <2>1. Balance \in Nat /\ Balance >= timer /\ timer # None
    BY <1>1 DEF ChainInv, Credits, Balance, None
  <2>2. Balance + wait' >= Delay[stage]
    BY <1>1, <1>2, <2>1, DelayFacts, LongestFacts
  <2>3. Before("mod_delay")' = Before("mod_delay") /\ Loaded("mod_delay")' = Loaded("mod_delay")
    BY <1>3 DEF Before, Loaded
  <2>q. QED BY <1>3, <2>1, <2>2, <2>3 DEF ChainInv, Credits, Balance
<1>q. QED BY <1>4, <1>5, <1>7, <1>8 DEF ChainInv

\* Without its time_t mod_delay fails, which happens only at the end of a message, for
\* a recipient who is not the first.
LEMMA SkipRestKeeps ==
  ASSUME ChainInv, NEW i \in DOMAIN modules, SkipRest(i) PROVE ChainInv'
<1>1. /\ i \in NextDue /\ todo # <<>> /\ smtp \in Busy /\ at \in Nat
      /\ modules[i] = "mod_delay" /\ stage \in Status["mod_delay"] /\ timer = None
      /\ wait = None /\ Loaded("mod_delay")
  BY Going DEF SkipRest, Forgotten, Loaded, ChainInv, TypeOK
<1>2. smtp = "eom" /\ stage = "BODY"
  BY <1>1, StatusFacts DEF ChainInv, Timers, Stages, Busy
<1>3. /\ Len(todo) \in 1..Len(recipients) /\ Subject = Len(recipients) - Len(todo) + 1
      /\ Subject # 0
  BY <1>1, <1>2, Typed DEF ChainInv, Loops, Subject
<1>4. ~Before("mod_delay")
  BY <1>1, Typed DEF Before, NextDue, ChainInv, Modules
<1>5. Len(todo) # Len(recipients)
  BY <1>1, <1>2, <1>4 DEF ChainInv, Timers
<1>6. /\ at' = Len(modules) /\ flags' = {}
      /\ UNCHANGED <<config, unknown, modules, tables, smtp, stage, todo, new, sender, prdr,
                     recipients, kept, timer, wait, live, credit, spared>>
  BY <1>3, Typed, StageDecides DEF SkipRest, plugins, mail, delays
<1>7. TypeOK' /\ Stages' /\ Loops' /\ Modules'
  BY <1>1, <1>2, <1>6, Typed
  DEF ChainInv, TypeOK, Stages, Loops, Modules
<1>8. Timers' /\ Credits'
  BY <1>1, <1>2, <1>5, <1>6 DEF ChainInv, Timers, TimersAreFreed, Credits, Balance, Loaded
<1>9. Admissions'
  BY <1>2, <1>6 DEF Admissions
<1>q. QED BY <1>7, <1>8, <1>9 DEF ChainInv

\* mod_delay has slept, and deletes the time_t when it is the end of the message.
LEMMA WakeKeeps ==
  ASSUME ChainInv, NEW i \in DOMAIN modules, Wake(i) PROVE ChainInv'
<1>1. /\ i \in NextDue /\ todo # <<>> /\ smtp \in Busy /\ at \in Nat /\ wait = 0
      /\ i \in (at + 1)..Len(modules)
      /\ modules[i] = "mod_delay" /\ stage \in Status["mod_delay"] /\ timer # None
      /\ Loaded("mod_delay")
  <2>1. wait # None /\ todo # <<>>
    BY DEF ChainInv, Timers, Wake, None
  <2>q. QED BY <2>1, Going DEF ChainInv, TypeOK, Wake, Loaded
<1>2. /\ at' = i /\ wait' = None /\ flags' = {}
      /\ UNCHANGED <<config, unknown, modules, tables, smtp, stage, todo, new, sender, prdr,
                     recipients, kept, credit, spared>>
  BY Typed, StageDecides DEF Wake, plugins, mail
<1>3. /\ live = 1
      /\ stage = "BODY" => timer' = None /\ live' = 0
      /\ stage # "BODY" => timer' = 0 /\ live' = 1
  BY <1>1 DEF Wake, AfterSleep, ChainInv, Timers, TimersAreFreed
<1>4. Balance >= Delay[stage]
  BY <1>1, <1>3, Typed DEF ChainInv, Credits, Balance, None
<1>5. TypeOK'
  BY <1>1, <1>2, <1>3, Typed, LongestFacts DEF ChainInv, TypeOK, None
<1>6. Stages' /\ Loops' /\ Modules'
  BY <1>1, <1>2, Typed DEF ChainInv, Stages, Loops, Modules, Busy
<1>7. \A x \in Module : stage \in Status[x] =>
        (Before(x)' <=> Before(x) \/ x = "mod_delay")
  BY <1>1, <1>2, Advance
<1>8. Before("mod_delay")' /\ smtp # "eoh"
  BY <1>1, <1>7, StatusFacts DEF ChainInv, Stages
<1>9. Timers'
  BY <1>1, <1>2, <1>3, <1>8 DEF ChainInv, Timers, TimersAreFreed, Loaded, Stages, Busy, None
<1>10. Credits'
  BY <1>1, <1>2, <1>3, <1>4, DelayFacts, Typed DEF ChainInv, Credits, Balance, Stages, Loaded, None
<1>11. Admissions'
  <2>1. smtp = "envrcpt" => \A x \in {"mod_block_sender", "mod_equal"} : Before(x)' <=> Before(x)
    BY <1>7, StatusFacts DEF ChainInv, Stages
  <2>q. QED BY <1>2, <2>1 DEF ChainInv, Admissions, Welcome, Loaded
<1>q. QED BY <1>5, <1>6, <1>9, <1>10, <1>11 DEF ChainInv

\* A second passes; ages and the balance are cut off at bounds that keep their order.
LEMMA TickKeeps == ASSUME ChainInv, Tick PROVE ChainInv'
<1>1. UNCHANGED <<config, unknown, modules, tables, smtp, stage, todo, at, new, sender, prdr,
                  recipients, kept, flags, live, spared>>
  BY DEF Tick, plugins, place, mail
<1>2. /\ timer = None => timer' = None
      /\ timer # None => timer' = AtMost(timer + 1, Longest)
      /\ wait' = IF wait > 0 THEN wait - 1 ELSE wait
      /\ credit' = UpTo(credit + 1, spared)
  BY DEF Tick
<1>3. /\ timer \in None..Longest /\ wait \in None..Longest /\ Longest \in Nat
      /\ credit \in Int /\ spared \in Int /\ Balance \in Nat
  BY Typed, LongestFacts DEF ChainInv, TypeOK
<1>4. /\ timer' \in None..Longest /\ wait' \in None..Longest
      /\ (timer' = None <=> timer = None) /\ (wait' = None <=> wait = None)
  BY <1>2, <1>3 DEF AtMost, None
<1>b. /\ credit' \in Int /\ spared' \in Int
      /\ Balance' = AtMost(Balance + 1, 2 * Longest) /\ Balance' \in Nat
  BY <1>1, <1>2, <1>3 DEF UpTo, AtMost, Balance
<1>5. TypeOK'
  BY <1>1, <1>4 DEF ChainInv, TypeOK
<1>6. Stages' /\ Loops' /\ Admissions' /\ Modules'
  BY <1>1 DEF ChainInv, Stages, Loops, Admissions, Welcome, Modules, Loaded,
     Before, Subject
<1>7. NextDue' = NextDue
  BY <1>1 DEF NextDue, Due, Cell, Subject
<1>8. Timers'
  BY <1>1, <1>4, <1>7 DEF ChainInv, Timers, TimersAreFreed, Loaded, Before
<1>9. Credits'
  <2>1. \A s \in DOMAIN Delay : Delay[s] \in Nat /\ Delay[s] <= Longest
    BY DelayFacts, LongestFacts
  <2>2. timer' # None => Balance' >= timer'
    BY <1>2, <1>3, <1>b DEF ChainInv, Credits, AtMost, None
  <2>3. wait' # None => Balance' + wait' >= Delay[stage]
    BY <1>2, <1>3, <1>b, <1>4, <2>1 DEF ChainInv, TypeOK, Credits, AtMost, None
  <2>4. smtp \in {"helo", "envfrom", "envrcpt"} => stage \in DOMAIN Delay /\ stage # "BODY"
    BY DelayFacts DEF ChainInv, Stages
  <2>5. smtp \in {"helo", "envfrom", "envrcpt"} /\ Before("mod_delay") =>
          Balance' >= Delay[stage] + timer'
    BY <1>2, <1>3, <1>b, <2>1, <2>4 DEF ChainInv, Credits, AtMost, None
  <2>6. smtp = "eom" /\ Loaded("mod_delay") /\ timer = None => Balance' >= Delay["BODY"]
    BY <1>2, <1>3, <1>b, <2>1, DelayFacts DEF ChainInv, Credits, AtMost
  <2>q. QED BY <1>1, <1>4, <1>b, <2>2, <2>3, <2>5, <2>6 DEF Credits, Loaded, Before
<1>q. QED BY <1>5, <1>6, <1>8, <1>9 DEF ChainInv

LEMMA AlarmKeeps == ASSUME ChainInv, Alarm PROVE ChainInv'
<1>1. UNCHANGED <<config, unknown, modules, tables, smtp, stage, todo, at, new, sender, prdr,
                  recipients, kept, flags, timer, live, credit>>
  BY DEF Alarm, plugins, place, mail
<1>2. /\ wait > 0 /\ wait' = 0 /\ spared' = UpTo(spared + wait, credit)
  BY DEF Alarm, Interrupted
<1>3. /\ timer \in None..Longest /\ wait \in None..Longest /\ Longest \in Nat
      /\ credit \in Int /\ spared \in Int /\ Balance \in Nat
  BY Typed, LongestFacts DEF ChainInv, TypeOK
<1>4. wait' \in None..Longest /\ wait' # None /\ wait # None
  BY <1>2, <1>3 DEF None
<1>b. /\ credit' \in Int /\ spared' \in Int
      /\ Balance' = AtMost(Balance + wait, 2 * Longest) /\ Balance' \in Nat
  BY <1>1, <1>2, <1>3 DEF UpTo, AtMost, Balance
<1>5. TypeOK'
  BY <1>1, <1>4 DEF ChainInv, TypeOK
<1>6. Stages' /\ Loops' /\ Admissions' /\ Modules'
  BY <1>1 DEF ChainInv, Stages, Loops, Admissions, Welcome, Modules, Loaded,
     Before, Subject
<1>7. NextDue' = NextDue
  BY <1>1 DEF NextDue, Due, Cell, Subject
<1>8. Timers'
  BY <1>1, <1>4, <1>7 DEF ChainInv, Timers, TimersAreFreed, Loaded, Before
<1>9. Credits'
  <2>1. \A s \in DOMAIN Delay : Delay[s] \in Nat /\ Delay[s] <= Longest
    BY DelayFacts, LongestFacts
  <2>2. stage \in DOMAIN Delay /\ Balance + wait >= Delay[stage] /\ Balance' >= Delay[stage]
    BY <1>2, <1>3, <1>b, <1>4, <2>1 DEF ChainInv, TypeOK, Credits, AtMost
  <2>3. timer # None => Balance' >= timer
    BY <1>2, <1>3, <1>b DEF ChainInv, Credits, AtMost, None
  <2>4. smtp \in {"helo", "envfrom", "envrcpt"} /\ Before("mod_delay") =>
          Balance' >= Delay[stage] + timer
    BY <1>2, <1>3, <1>b, <2>1, <2>2 DEF ChainInv, Credits, AtMost, None
  <2>5. smtp = "eom" /\ Loaded("mod_delay") /\ timer = None => Balance' >= Delay["BODY"]
    BY <1>2, <1>3, <1>b, <2>1, DelayFacts DEF ChainInv, Credits, AtMost
  <2>q. QED BY <1>1, <1>2, <1>4, <1>b, <2>2, <2>3, <2>4, <2>5 DEF Credits, Loaded, Before
<1>q. QED BY <1>5, <1>6, <1>8, <1>9 DEF ChainInv

-----------------------------------------------------------------------------
\* The ends of the callbacks.  mod_delay has been run, which pays for the answer.

\* What a client has waited beyond an answer it gets is still enough for the timer.
LEMMA PaidOff ==
  ASSUME ChainInv, NEW s \in DOMAIN Delay,
         Loaded("mod_delay") => Balance >= Delay[s] + timer /\ timer # None,
         credit' = credit - Owed(s), UNCHANGED spared
  PROVE  /\ credit' \in Int /\ spared' \in Int /\ Balance' \in Nat
         /\ timer # None => Balance' >= timer
<1>0. credit \in Int /\ spared \in Int /\ Owed(s) \in Int /\ Balance' = Balance - Owed(s)
  <2>1. Owed(s) \in Int
    BY DelayFacts DEF Owed
  <2>q. QED BY <2>1, Typed DEF Balance
<1>1. Balance \in Nat /\ Delay[s] \in Nat /\ (timer # None => timer \in Nat /\ Balance >= timer)
  BY DelayFacts, LongestFacts DEF ChainInv, TypeOK, Credits, None
<1>2. CASE Loaded("mod_delay")
  BY <1>0, <1>1, <1>2 DEF Owed
<1>3. CASE ~Loaded("mod_delay")
  BY <1>0, <1>1, <1>3 DEF Owed
<1>q. QED BY <1>2, <1>3

LEMMA HeloEndKeeps == ASSUME ChainInv, HeloEnd PROVE ChainInv'
<1>1. /\ smtp = "helo" /\ stage = "EHLO" /\ wait = None
      /\ smtp' = "idle" /\ todo' = <<>> /\ at' = 0 /\ stage' = "MAIL"
      /\ credit' = credit - Owed("EHLO")
      /\ UNCHANGED <<config, unknown, modules, tables, new, sender, prdr, recipients, kept, flags,
                     timer, wait, live, spared>>
  BY DEF HeloEnd, Passed, Return, Call, plugins, mail, ChainInv, Stages
<1>2. Loaded("mod_delay") => Balance >= Delay["EHLO"] + timer /\ timer # None
  BY <1>1, Done, StatusFacts DEF ChainInv, Credits, Balance, Timers, HeloEnd
<1>3. /\ credit' \in Int /\ spared' \in Int /\ Balance' \in Nat
      /\ timer # None => Balance' >= timer
  BY <1>1, <1>2, PaidOff, DelayFacts
<1>4. TypeOK'
  BY <1>1, Typed, StatusFacts DEF ChainInv, TypeOK, Wakes, Busy
<1>5. Stages' /\ Loops' /\ Admissions' /\ Modules'
  BY <1>1 DEF ChainInv, Stages, Loops, Admissions, Modules
<1>6. Timers' /\ Credits'
  BY <1>1, <1>2, <1>3 DEF ChainInv, Timers, TimersAreFreed, Credits, Loaded
<1>q. QED BY <1>4, <1>5, <1>6 DEF ChainInv

LEMMA MailEndKeeps == ASSUME ChainInv, MailEnd PROVE ChainInv'
<1>1. /\ smtp = "envfrom" /\ stage = "MAIL" /\ wait = None
      /\ smtp' = "rcpt" /\ todo' = <<>> /\ at' = 0 /\ stage' = "RCPT"
      /\ credit' = credit - Owed("MAIL") /\ kept = Len(recipients)
      /\ UNCHANGED <<config, unknown, modules, tables, new, sender, prdr, recipients, kept, flags,
                     timer, wait, live, spared>>
  BY DEF MailEnd, Passed, Return, Call, plugins, mail, ChainInv, Stages, Loops
<1>2. Loaded("mod_delay") => Balance >= Delay["MAIL"] + timer /\ timer # None
  BY <1>1, Done, StatusFacts DEF ChainInv, Credits, Balance, Timers, MailEnd
<1>3. /\ credit' \in Int /\ spared' \in Int /\ Balance' \in Nat
      /\ timer # None => Balance' >= timer
  BY <1>1, <1>2, PaidOff, DelayFacts
<1>4. TypeOK'
  BY <1>1, Typed, StatusFacts DEF ChainInv, TypeOK, Wakes, Busy
<1>5. Stages' /\ Loops' /\ Modules'
  BY <1>1 DEF ChainInv, Stages, Loops, Modules
<1>6. Admissions'
  BY <1>1, Typed DEF Admissions
<1>7. Timers' /\ Credits'
  BY <1>1, <1>2, <1>3 DEF ChainInv, Timers, TimersAreFreed, Credits, Loaded
<1>q. QED BY <1>4, <1>5, <1>6, <1>7 DEF ChainInv

LEMMA RcptEndKeeps == ASSUME ChainInv, RcptEnd PROVE ChainInv'
<1>1. /\ smtp = "envrcpt" /\ stage = "RCPT" /\ wait = None
      /\ smtp' = "rcpt" /\ todo' = <<>> /\ at' = 0
      /\ UNCHANGED <<config, unknown, modules, tables, stage, new, sender, prdr, kept, flags,
                     timer, wait, live, spared>>
      /\ \/ UNCHANGED <<recipients, credit>>
         \/ recipients' = Append(recipients, new) /\ credit' = credit - Owed("RCPT")
  BY DEF RcptEnd, Passed, Return, Call, plugins, ChainInv, Stages
<1>2. Loaded("mod_delay") => Balance >= Delay["RCPT"] + timer /\ timer # None
  BY <1>1, Done, StatusFacts DEF ChainInv, Credits, Balance, Timers, RcptEnd
<1>3. /\ credit' \in Int /\ spared' \in Int /\ Balance' \in Nat
      /\ timer # None => Balance' >= timer
  <2>1. CASE credit' = credit - Owed("RCPT")
    BY <1>1, <1>2, <2>1, PaidOff, DelayFacts
  <2>2. CASE credit' = credit
    BY <1>1, <2>2 DEF ChainInv, Credits, Balance
  <2>q. QED BY <1>1, <2>1, <2>2
<1>4. /\ new \in Recipient /\ Len(recipients) + 1 <= MaxRcpt
      /\ todo = <<Len(recipients) + 1>>
  <2>1. todo = <<Len(recipients) + 1>> /\ new \in Recipient
    BY <1>1 DEF ChainInv, Loops
  <2>2. todo[1] \in 0..MaxRcpt
    BY <2>1, Typed
  <2>q. QED BY <2>1, <2>2, ChainAssumption DEF ChainAssumption
<1>5. /\ recipients' \in Seq(Recipient) /\ Len(recipients') <= MaxRcpt
      /\ kept \in 0..Len(recipients')
  <2>1. CASE recipients' = recipients
    BY <2>1 DEF ChainInv, TypeOK
  <2>2. CASE recipients' = Append(recipients, new)
    <3>1. recipients' \in Seq(Recipient) /\ Len(recipients') = Len(recipients) + 1
      BY <1>4, <2>2, Typed
    <3>2. kept \in 0..Len(recipients)
      BY DEF ChainInv, TypeOK
    <3>q. QED BY <1>4, <3>1, <3>2, Typed
  <2>q. QED BY <1>1, <2>1, <2>2
<1>6. TypeOK'
  BY <1>1, <1>5, Typed DEF ChainInv, TypeOK, Wakes, Busy
<1>7. Stages' /\ Loops' /\ Modules'
  BY <1>1 DEF ChainInv, Stages, Loops, Modules
<1>8. Admissions'
  <2>1. Welcome(new.address)
    BY <1>1, Done, StatusFacts DEF ChainInv, Admissions, Welcome, RcptEnd
  <2>2. \A k \in (kept + 1)..Len(recipients) : Welcome(recipients[k].address)
    BY <1>1 DEF ChainInv, Admissions
  <2>3. \A k \in (kept + 1)..Len(recipients') : Welcome(recipients'[k].address)
    <3>1. CASE recipients' = recipients
      BY <2>2, <3>1
    <3>2. CASE recipients' = Append(recipients, new)
      <4> SUFFICES ASSUME NEW k \in (kept + 1)..Len(recipients')
                   PROVE  Welcome(recipients'[k].address)
        OBVIOUS
      <4>1. Len(recipients') = Len(recipients) + 1
        BY <1>4, <3>2, Typed
      <4>2. CASE k = Len(recipients) + 1
        <5>1. recipients'[k] = new
          BY <1>4, <3>2, <4>2, Typed
        <5>q. QED BY <2>1, <5>1
      <4>3. CASE k \in (kept + 1)..Len(recipients)
        <5>1. recipients'[k] = recipients[k]
          BY <1>4, <3>2, <4>3, Typed
        <5>q. QED BY <2>2, <4>3, <5>1
      <4>q. QED BY <4>1, <4>2, <4>3, Typed
    <3>q. QED BY <1>1, <3>1, <3>2
  <2>q. QED BY <1>1, <2>3 DEF Admissions, Welcome, Loaded
<1>9. Timers' /\ Credits'
  BY <1>1, <1>2, <1>3 DEF ChainInv, Timers, TimersAreFreed, Credits, Loaded
<1>q. QED BY <1>6, <1>7, <1>8, <1>9 DEF ChainInv

LEMMA VisitEndKeeps == ASSUME ChainInv, VisitEnd PROVE ChainInv'
<1>1. /\ smtp \in {"eoh", "eom"} /\ wait = None /\ todo # <<>>
      /\ todo' = Tail(todo) /\ at' = 0
      /\ UNCHANGED <<config, unknown, modules, tables, smtp, stage, new, sender, prdr, recipients,
                     kept, flags, timer, wait, live, credit, spared>>
  BY DEF VisitEnd, Passed, plugins, mail, delays
<1>2. /\ todo' \in Seq(0..MaxRcpt) /\ Len(todo') = Len(todo) - 1 /\ Len(todo) \in Nat \ {0}
      /\ \A k \in 1..Len(todo') : todo'[k] = todo[k + 1]
  BY <1>1, Typed
<1>3. smtp = "eom" => timer = None
  BY <1>1, Done, StatusFacts DEF ChainInv, Stages, Timers, VisitEnd
<1>4. TypeOK'
  BY <1>1, <1>2, Typed DEF ChainInv, TypeOK, Wakes, Busy
<1>5. Stages' /\ Admissions' /\ Modules'
  BY <1>1 DEF ChainInv, Stages, Admissions, Welcome, Loaded, Modules
<1>6. Loops'
  BY <1>1, <1>2, Typed DEF ChainInv, Loops
<1>7. Timers'
  BY <1>1, <1>2, <1>3, <1>6, Typed DEF ChainInv, Timers, TimersAreFreed, Loaded, Loops
<1>8. Credits'
  BY <1>1, <1>3 DEF ChainInv, Credits, Balance, Loaded
<1>q. QED BY <1>4, <1>5, <1>6, <1>7, <1>8 DEF ChainInv

LEMMA EohEndKeeps == ASSUME ChainInv, EohEnd PROVE ChainInv'
<1>1. /\ smtp = "eoh" /\ todo = <<>> /\ smtp' = "data" /\ todo' = <<>> /\ at' = 0
      /\ sender' \in {sender, None} /\ wait = None
      /\ UNCHANGED <<config, unknown, modules, tables, stage, new, prdr, recipients, kept, flags,
                     timer, wait, live, credit, spared>>
  BY DEF EohEnd, Return, Call, plugins, delays, ChainInv, Timers
<1>2. TypeOK'
  BY <1>1, Typed DEF ChainInv, TypeOK, Wakes, Busy
<1>3. Stages' /\ Loops' /\ Admissions' /\ Modules'
  BY <1>1 DEF ChainInv, Stages, Loops, Admissions, Modules
<1>4. Timers' /\ Credits'
  BY <1>1 DEF ChainInv, Timers, TimersAreFreed, Credits, Balance, Loaded
<1>q. QED BY <1>2, <1>3, <1>4 DEF ChainInv

LEMMA EomEndKeeps == ASSUME ChainInv, EomEnd PROVE ChainInv'
<1>1. /\ smtp = "eom" /\ stage = "BODY" /\ todo = <<>> /\ smtp' = "idle" /\ todo' = <<>>
      /\ at' = 0 /\ timer' = None /\ live' = Cleared /\ wait = None
      /\ credit' = credit - Owed("BODY")
      /\ UNCHANGED <<config, unknown, modules, tables, stage, new, sender, prdr, recipients, kept,
                     flags, wait, spared>>
  BY DEF EomEnd, Return, Call, plugins, mail, ChainInv, Timers, Stages
<1>2. Len(recipients) \in Nat \ {0} /\ Len(todo) = 0
  BY <1>1, Typed DEF ChainInv, Loops
<1>3. timer = None /\ live' = 0
  BY <1>1, <1>2 DEF ChainInv, Timers, TimersAreFreed, Cleared
<1>4. credit' \in Int /\ spared' \in Int /\ Balance' \in Nat
  <2>1. /\ credit \in Int /\ spared \in Int /\ Balance \in Nat /\ Owed("BODY") \in Nat
        /\ Balance >= Owed("BODY")
    BY <1>1, <1>3, Typed, DelayFacts DEF ChainInv, Credits, Owed
  <2>q. QED BY <1>1, <2>1 DEF Balance
<1>5. TypeOK'
  BY <1>1, Typed, LongestFacts DEF ChainInv, TypeOK, Wakes, Busy, None
<1>6. Stages' /\ Loops' /\ Admissions' /\ Modules'
  BY <1>1 DEF ChainInv, Stages, Loops, Admissions, Modules
<1>7. Timers' /\ Credits'
  BY <1>1, <1>3, <1>4 DEF Timers, TimersAreFreed, Credits, Loaded
<1>q. QED BY <1>5, <1>6, <1>7 DEF ChainInv

LEMMA StutterKeeps == ASSUME ChainInv, UNCHANGED vars PROVE ChainInv'
BY DEF ChainInv, vars, plugins, place, mail, delays, TypeOK, Stages, Loops, Timers, TimersAreFreed,
   Credits, Balance, Admissions, Welcome, Modules, Loaded, Before,
   Subject, NextDue, Due, Cell

LEMMA CallbackKeeps == ASSUME ChainInv, Callback PROVE ChainInv'
<1>1. CASE \E i \in DOMAIN modules : Run(i) \/ Sleep(i) \/ SkipRest(i) \/ Wake(i)
  BY <1>1, RunKeeps, SleepKeeps, SkipRestKeeps, WakeKeeps
<1>2. CASE HeloEnd \/ MailEnd \/ RcptEnd
  BY <1>2, HeloEndKeeps, MailEndKeeps, RcptEndKeeps
<1>3. CASE VisitEnd \/ EohEnd \/ EomEnd
  BY <1>3, VisitEndKeeps, EohEndKeeps, EomEndKeeps
<1>q. QED BY <1>1, <1>2, <1>3 DEF Callback

LEMMA NextKeeps == ASSUME ChainInv, [Next]_vars PROVE ChainInv'
<1>1. CASE Load \/ Connect \/ Helo
  BY <1>1, LoadKeeps, ConnectKeeps, HeloKeeps
<1>2. CASE Eoh \/ Eom \/ Close
  BY <1>2, EohKeeps, EomKeeps, CloseKeeps
<1>3. CASE Callback \/ Tick \/ Alarm
  BY <1>3, CallbackKeeps, TickKeeps, AlarmKeeps
<1>4. CASE \E s \in Addr, p \in BOOLEAN : MailFrom(s, p)
  BY <1>4, MailFromKeeps
<1>5. CASE \E a \in Addr, never \in BOOLEAN : RcptTo(a, never)
  BY <1>5, RcptToKeeps
<1>6. CASE Over \/ UNCHANGED vars
  BY <1>6, StutterKeeps DEF Over
<1>q. QED BY <1>1, <1>2, <1>3, <1>4, <1>5, <1>6 DEF Next

\* The invariant holds in every state the daemon can be in.
THEOREM ChainInvariance == Spec => []ChainInv
<1>1. Init => ChainInv
  BY InitEstablishes
<1>2. ChainInv /\ [Next]_vars => ChainInv'
  BY NextKeeps
<1>q. QED BY <1>1, <1>2, PTL DEF Spec

-----------------------------------------------------------------------------
(***************************************************************************)
(* The theorems.                                                           *)
(***************************************************************************)

\* Every variable has its type, whatever the configuration (LoadPlugins, prdr_*).
THEOREM ChainTypes == Spec => []TypeOK
<1>1. ChainInv => TypeOK
  BY DEF ChainInv
<1>q. QED BY <1>1, ChainInvariance, PTL

\* For any delays and any SIGALRM, the client has waited for every answer it has, but for
\* the seconds that SIGALRM has cut off (delay::Run).
THEOREM ClientsWait == Spec => []Paced
<1>1. ChainInv => Paced
  BY DEF ChainInv, Credits, Balance, Paced
<1>q. QED BY <1>1, ChainInvariance, PTL

\* mod_delay's time_t is neither lost nor deleted twice (InitMsg, Run, DestroyMsg).
THEOREM TimersFreed == Spec => []TimersAreFreed
<1>1. ChainInv => TimersAreFreed
  BY DEF ChainInv, Timers
<1>q. QED BY <1>1, ChainInvariance, PTL

\* Whatever modules are loaded in whatever order, those that refuse a recipient are asked
\* about every one that is accepted (prdr_envrcpt, block_sender::Run, mod_equal::Run).
THEOREM OnlyAdmittedAreIn == Spec => []Admitted
<1>1. ChainInv => Admitted
  BY DEF ChainInv, Admissions, Welcome, Admitted
<1>q. QED BY <1>1, ChainInvariance, PTL

-----------------------------------------------------------------------------
(***************************************************************************)
(* Callbacks come to an end: every turn of their loops takes from what is  *)
(* ahead of them, between two turns only time passes, and as long as they  *)
(* are in progress there is a turn to take or a second to wait for.  With  *)
(* the fairness of Callback and Tick this is why CallbacksEnd holds.       *)
(***************************************************************************)
\* The turns of its loops a callback has at most before it; the start and the end of a
\* sleep are one each.
Ahead ==
  Len(todo) * (2 * Len(modules) + 2) + 2 * (Len(modules) - at)
    + (IF wait = None THEN 1 ELSE 0)

\* What a step of the system may do while a callback is in progress.
CallbackAdvances ==
  smtp \in Busy =>
    /\ Ahead \in Nat
    /\ \/ smtp' \notin Busy
       \/ Ahead' < Ahead
       \/ (Tick \/ Alarm) /\ Ahead' = Ahead /\ (wait > 0 => wait' < wait)

\* Somebody sleeps, a module is due, the loop has passed the last, or all are visited.
GoesOn ==
  smtp \in Busy =>
    \/ wait > 0
    \/ todo # <<>> /\ wait <= 0 /\ NextDue # {}
    \/ Passed
    \/ todo = <<>> /\ smtp \in {"eoh", "eom"}

\* The numbers ahead of a callback.
LEMMA AheadType ==
  ASSUME ChainInv, smtp \in Busy
  PROVE  /\ Len(todo) \in Nat /\ Len(modules) \in Nat /\ at \in 0..Len(modules)
         /\ Len(todo) * (2 * Len(modules) + 2) \in Nat /\ Ahead \in Nat
<1>1. Len(todo) \in Nat /\ Len(modules) \in Nat /\ at \in 0..Len(modules)
  BY Typed DEF ChainInv, TypeOK
<1> DEFINE p == Len(todo) * (2 * Len(modules) + 2)
           d == Len(modules) - at
           w == IF wait = None THEN 1 ELSE 0
<1>2. p \in Nat
  BY <1>1
<1>3. d \in Nat /\ w \in Nat
  BY <1>1
<1>4. Ahead = p + 2 * d + w
  BY DEF Ahead
<1> HIDE DEF p, d, w
<1>5. Ahead \in Nat
  BY <1>2, <1>3, <1>4
<1> QED BY <1>1, <1>2, <1>5 DEF p

\* A turn of the loop that moves on, and what it does to mod_delay's sleep.
LEMMA TurnAdvances ==
  ASSUME ChainInv, smtp \in Busy, UNCHANGED <<modules, todo>>,
         \/ at' \in (at + 1)..Len(modules)
         \/ at' = at /\ wait = None /\ wait' # None
  PROVE  Ahead' < Ahead
<1> DEFINE p == Len(todo) * (2 * Len(modules) + 2)
           n == Len(modules)
<1>1. n \in Nat /\ at \in 0..n /\ p \in Nat
  BY AheadType
<1>2. /\ Ahead = p + 2 * (n - at) + (IF wait = None THEN 1 ELSE 0)
      /\ Ahead' = p + 2 * (n - at') + (IF wait' = None THEN 1 ELSE 0)
  BY DEF Ahead
<1>3. at' \in (at + 1)..n \/ (at' = at /\ wait = None /\ wait' # None)
  OBVIOUS
<1> HIDE DEF p, n
<1> QED BY <1>1, <1>2, <1>3

\* The next recipient: a whole row of modules is left behind.
LEMMA VisitAdvances ==
  ASSUME ChainInv, VisitEnd
  PROVE  Ahead' < Ahead
<1> DEFINE n == Len(modules)
           t == Len(todo)
<1>1. smtp \in Busy /\ wait = None /\ wait' = None /\ at' = 0 /\ modules' = modules
      /\ todo # <<>> /\ todo' = Tail(todo)
  BY DEF VisitEnd, Passed, Busy, plugins, delays
<1>2. n \in Nat /\ t \in Nat /\ at \in 0..n
  BY <1>1, AheadType
<1>3. Len(todo') = t - 1
  BY <1>1, Typed
<1>4. /\ Ahead = t * (2 * n + 2) + 2 * (n - at) + 1
      /\ Ahead' = (t - 1) * (2 * n + 2) + 2 * n + 1
  BY <1>1, <1>3 DEF Ahead
<1> HIDE DEF n, t
<1> DEFINE c == 2 * n + 2
<1>5. t * c = (t - 1) * c + c
  <2>1. c \in Nat
    BY <1>2
  <2> HIDE DEF c
  <2> QED BY <1>2, <2>1
<1>6. (t - 1) * c \in Int
  <2>1. c \in Int /\ t - 1 \in Int
    BY <1>2
  <2> HIDE DEF c
  <2> QED BY <2>1
<1> DEFINE q == (t - 1) * c
<1>7. Ahead = q + c + 2 * (n - at) + 1 /\ Ahead' = q + 2 * n + 1 /\ c = 2 * n + 2
      /\ q \in Int
  BY <1>4, <1>5, <1>6
<1> HIDE DEF q, c
<1> QED BY <1>2, <1>7

\* Every step of a callback, also the one in which mod_delay falls asleep.
LEMMA CallbackStep ==
  ASSUME ChainInv, smtp \in Busy, Callback
  PROVE  smtp' \notin Busy \/ Ahead' < Ahead
<1>1. ASSUME NEW i \in DOMAIN modules, Run(i) PROVE smtp' \notin Busy \/ Ahead' < Ahead
  <2>1. i \in (at + 1)..Len(modules) /\ modules' = modules
    BY <1>1, Going DEF Run, plugins
  <2>2. smtp' \notin Busy \/ (todo' = todo /\ at' = i)
    BY <1>1 DEF Run, Return, Call, Busy
  <2> QED BY <2>1, <2>2, TurnAdvances
<1>2. ASSUME NEW i \in DOMAIN modules, Sleep(i) PROVE Ahead' < Ahead
  <2>1. /\ UNCHANGED <<modules, todo, at>> /\ wait = None
        /\ wait' = Remaining /\ stage \in Status[modules[i]] /\ modules[i] = "mod_delay"
        /\ timer # None
    BY <1>2, Going DEF Sleep, plugins, place, Forgotten
  <2>2. wait' # None
    <3>1. Delay[stage] \in Nat /\ timer \in Int /\ timer >= 0
      <4>1. stage \in DOMAIN Delay
        BY <2>1, DelayFacts, StatusFacts
      <4>2. timer \in None..Longest /\ Longest \in Nat
        BY LongestFacts DEF ChainInv, TypeOK
      <4> QED BY <2>1, <4>1, <4>2, DelayFacts DEF None
    <3> QED BY <2>1, <3>1 DEF Remaining, None
  <2> QED BY <2>1, <2>2, TurnAdvances
<1>3. ASSUME NEW i \in DOMAIN modules, SkipRest(i) PROVE Ahead' < Ahead
  <2>1. i \in (at + 1)..Len(modules) /\ UNCHANGED <<modules, todo>>
        /\ at' \in {i, Len(modules)}
    BY <1>3, Going DEF SkipRest, plugins
  <2>2. at' \in (at + 1)..Len(modules)
    BY <2>1, AheadType
  <2> QED BY <2>1, <2>2, TurnAdvances
<1>4. ASSUME NEW i \in DOMAIN modules, Wake(i) PROVE Ahead' < Ahead
  <2>1. todo # <<>>
    BY <1>4 DEF Wake, ChainInv, Timers, None
  <2>2. i \in (at + 1)..Len(modules) /\ UNCHANGED <<modules, todo>> /\ at' = i
    BY <1>4, <2>1, Going DEF Wake, plugins
  <2> QED BY <2>2, TurnAdvances
<1>5. CASE HeloEnd \/ MailEnd \/ RcptEnd \/ EohEnd \/ EomEnd
  BY <1>5 DEF HeloEnd, MailEnd, RcptEnd, EohEnd, EomEnd, Return, Call, Busy
<1> QED BY <1>1, <1>2, <1>3, <1>4, <1>5, VisitAdvances DEF Callback

\* Time brings mod_delay nearer to its end and moves nothing else.
LEMMA TimeStep ==
  ASSUME ChainInv, smtp \in Busy, Tick \/ Alarm
  PROVE  Ahead' = Ahead /\ (wait > 0 => wait' < wait)
<1>1. /\ UNCHANGED <<modules, todo, at>> /\ wait \in Int
      /\ wait' = (IF wait > 0 THEN wait - 1 ELSE wait) \/ (wait > 0 /\ wait' = 0)
  BY Typed DEF Tick, Alarm, Interrupted, plugins, place
<1>2. wait' = None <=> wait = None
  BY <1>1 DEF None
<1> QED BY <1>1, <1>2 DEF Ahead

\* A callback takes at most Ahead turns until it returns, over any number of recipients
\* and modules, and its sleeps only become shorter, also by SIGALRM (Privdata::operator(),
\* RunModules, delay::Run).
THEOREM CallbacksAdvance == Spec => [][CallbackAdvances]_vars
<1>1. ChainInv /\ [Next]_vars => [CallbackAdvances]_vars
  <2> SUFFICES ASSUME ChainInv, Next, smtp \in Busy
               PROVE  /\ Ahead \in Nat
                      /\ \/ smtp' \notin Busy \/ Ahead' < Ahead
                         \/ (Tick \/ Alarm) /\ Ahead' = Ahead /\ (wait > 0 => wait' < wait)
    BY DEF CallbackAdvances
  <2>1. Callback \/ Tick \/ Alarm
    BY DEF Next, Load, Connect, Helo, Eoh, Eom, Close, Over, MailFrom, RcptTo, Busy, Wakes
  <2> QED BY <2>1, AheadType, CallbackStep, TimeStep
<1> QED BY <1>1, ChainInvariance, PTL DEF Spec

\* A callback in progress is never stuck: there is a module to run, an end to reach or
\* a second of mod_delay's sleep to pass.
THEOREM CallbacksGoOn == Spec => []GoesOn
<1>1. ChainInv => GoesOn
  <2> SUFFICES ASSUME ChainInv, smtp \in Busy, ~(wait > 0),
                      todo # <<>> \/ smtp \notin {"eoh", "eom"}
               PROVE  Passed \/ (todo # <<>> /\ wait <= 0 /\ NextDue # {})
    BY DEF GoesOn
  <2>1. todo # <<>>
    BY DEF ChainInv, Loops, Busy
  <2>2. wait \in Int /\ wait >= None /\ at \in Nat /\ Len(modules) \in Nat
    BY Typed, AheadType, LongestFacts DEF ChainInv, TypeOK, None
  <2>3. CASE wait # None
    BY <2>1, <2>2, <2>3 DEF ChainInv, Timers
  <2>4. CASE wait = None /\ \E i \in (at + 1)..Len(modules) : Due(i)
    <3> DEFINE S == {i \in 1..Len(modules) : i > at /\ Due(i)}
    <3>1. S # {} /\ S \subseteq 1..Len(modules)
      BY <2>2, <2>4
    <3> HIDE DEF S
    <3>2. PICK i \in S : \A j \in S : i <= j
      BY <2>2, <3>1, LeastExists
    <3>3. i \in NextDue
      <4>1. i \in (at + 1)..Len(modules) /\ Due(i)
        BY <2>2, <3>2 DEF S
      <4>2. \A j \in (at + 1)..(i - 1) : ~Due(j)
        BY <2>2, <3>2, <4>1 DEF S
      <4> QED BY <4>1, <4>2 DEF NextDue
    <3> QED BY <2>1, <2>4, <3>3 DEF None
  <2>5. CASE wait = None /\ ~\E i \in (at + 1)..Len(modules) : Due(i)
    BY <2>1, <2>5 DEF Passed
  <2> QED BY <2>3, <2>4, <2>5
<1> QED BY <1>1, ChainInvariance, PTL
=============================================================================
