------------------------- MODULE ApplicationProofs --------------------------
(* Theorems about the Phase 3 application: about its health and the changes     *)
(* that arm it, for every failure threshold (AppHealth), and about the flows     *)
(* that it watches, for every delay, window and set of flows (FlowMonitor).     *)
EXTENDS AppHealth, FlowMonitor, Induction, SequenceTheorems, FiniteSetsExt, TLAPS

(* What a tick may still have to do: no call writes the status helper itself.  *)
Calls == {"MODE", "CONTROL", "OFF"} \cup Statuses

Books == [failures : [Helpers -> 0..Threshold], degraded : BOOLEAN, shown : Statuses]

(* Some helper that is not the status has failed as often as it may.          *)
Over(b) == \E h \in Helpers \ {"STATUS"} : b.failures[h] = Threshold

(* The books of the helpers.                                                *)
Honest(b) ==
  /\ b \in Books
  /\ Over(b) => b.degraded
  /\ b.shown = "HEALTHY" /\ Over(b) => b.failures["STATUS"] > 0

(* The callbacks of the app.                                                *)
Turns ==
  /\ house \in [Switches -> BOOLEAN]
  /\ {event, armed, unseen} \subseteq BOOLEAN
  /\ running = IF doing \in Ticks THEN {doing} ELSE {}
  /\ doing = "nothing" => calls = <<>>
  /\ calls \in Seq(Calls)
  /\ core \in Statuses

(* The inductive invariant: that the app is not told to be healthy holds step by*)
(* step only with the degraded flag, which every count at the threshold sets.*)
Inv == Turns /\ Honest(book) /\ ChangeIsArmed

-----------------------------------------------------------------------------
(* A call that succeeds forgets the failures of its helper.                 *)
LEMMA SucceedIsHonest ==
  ASSUME NEW b \in Books, NEW h \in Helpers, NEW told \in Statuses,
         Over(b) => b.degraded,
         told = "HEALTHY" /\ Over(b) /\ Overdue([b.failures EXCEPT ![h] = 0]) =>
            h # "STATUS" /\ b.failures["STATUS"] > 0
  PROVE  /\ Honest(Succeed(b, h, told))
         /\ ~Succeed(b, h, told).degraded => ~Over(Succeed(b, h, told))
         /\ Over(Succeed(b, h, told)) => Over(b)
         /\ Succeed(b, h, told).shown = told
<1>. USE HealthAssumption
<1>. DEFINE f == [b.failures EXCEPT ![h] = 0]
            s == Succeed(b, h, told)
<1>1. /\ f \in [Helpers -> 0..Threshold]
      /\ \A g \in Helpers : f[g] = IF g = h THEN 0 ELSE b.failures[g]
  BY DEF Books
<1>2. s = [failures |-> f, degraded |-> Overdue(f), shown |-> told]
  BY DEF Succeed
<1>. HIDE DEF f, s
<1>3. Overdue(f) \in BOOLEAN /\ s \in Books
  BY <1>1, <1>2 DEF Overdue, Books
<1>4. (Over(s) => Over(b)) /\ (Over(s) => Overdue(f))
  BY <1>1, <1>2 DEF Over, Overdue, Books
<1>5. s.shown = "HEALTHY" /\ Over(s) => s.failures["STATUS"] > 0
  BY <1>1, <1>2, <1>4 DEF Helpers, f
<1>. QED  BY <1>2, <1>3, <1>4, <1>5 DEF Honest, s

(* A call that fails adds one, up to the threshold.                         *)
LEMMA FailIsABook ==
  ASSUME NEW b \in Books, NEW h \in Helpers, NEW told \in Statuses,
         NEW s, s = Fail(b, h, told)
  PROVE  /\ s \in Books /\ s.shown = told
         /\ s.failures[h] \in 1..Threshold
         /\ \A g \in Helpers \ {h} : s.failures[g] = b.failures[g]
         /\ s.degraded <=> b.degraded \/ (h # "STATUS" /\ s.failures[h] = Threshold)
<1>. USE HealthAssumption
<1>. DEFINE n == IF b.failures[h] < Threshold THEN b.failures[h] + 1 ELSE Threshold
            f == [b.failures EXCEPT ![h] = n]
<1>1. n \in 1..Threshold
  BY DEF Books
<1>2. s = [failures |-> f, degraded |-> b.degraded \/ (h # "STATUS" /\ n = Threshold),
           shown |-> told]
  BY DEF Fail
<1>. HIDE DEF n
<1>3. /\ f \in [Helpers -> 0..Threshold] /\ f[h] = n
      /\ \A g \in Helpers \ {h} : f[g] = b.failures[g]
  BY <1>1 DEF Books
<1>. HIDE DEF f
<1>4. /\ s.failures = f /\ s.shown = told
      /\ s.degraded = (b.degraded \/ (h # "STATUS" /\ n = Threshold))
  BY <1>2
<1>5. s \in Books
  BY <1>2, <1>3 DEF Books
<1>. QED  BY <1>1, <1>3, <1>4, <1>5 DEF Books

(* It may degrade the app, which TellStatus then has to tell.               *)
LEMMA FailIsHonest ==
  ASSUME NEW b \in Books, NEW h \in Helpers, NEW told \in Statuses,
         NEW s, s = Fail(b, h, told),
         Over(b) => b.degraded,
         \/ h = "STATUS"
         \/ /\ told = "HEALTHY" /\ Over(b) => b.failures["STATUS"] > 0
            /\ s.failures[h] # Threshold
  PROVE  Honest(s)
<1>1. /\ s \in Books /\ s.shown = told
      /\ s.failures[h] \in 1..Threshold
      /\ \A g \in Helpers \ {h} : s.failures[g] = b.failures[g]
      /\ s.degraded <=> b.degraded \/ (h # "STATUS" /\ s.failures[h] = Threshold)
  BY FailIsABook
<1>2. Over(s) => s.degraded
  BY <1>1 DEF Over
<1>3. CASE h = "STATUS"
  BY <1>1, <1>2, <1>3 DEF Honest
<1>4. CASE h # "STATUS"
  <2>1. Over(s) => Over(b)
    BY <1>1, <1>4 DEF Over
  <2>. QED  BY <1>1, <1>2, <1>4, <2>1 DEF Honest, Helpers
<1>. QED  BY <1>3, <1>4

(* Telling the status, or failing to, leaves honest books, if a degraded app   *)
(* is not told to be healthy.                                               *)
LEMMA TellingIsHonest ==
  ASSUME NEW b \in Books, NEW status \in Statuses, NEW s \in TellStatus(b, status),
         Over(b) => b.degraded, Over(b) => status # "HEALTHY"
  PROVE  Honest(s)
<1>1. Honest(Succeed(b, "STATUS", status))
  BY SucceedIsHonest DEF Helpers
<1>2. \A told \in Statuses : Honest(Fail(b, "STATUS", told))
  BY FailIsHonest DEF Helpers
<1>3. b.shown \in Statuses
  BY DEF Books
<1>. QED  BY <1>1, <1>2, <1>3 DEF TellStatus, Failing

(* _set_helper with what follows it, whether the calls succeed or fail.     *)
LEMMA SettingIsHonest ==
  ASSUME Honest(book), core \in Statuses, NEW h \in Helpers \ {"STATUS"},
         NEW c \in SetHelper(book, h)
  PROVE  Honest(c)
<1>. book \in Books /\ book.shown \in Statuses
  BY DEF Honest, Books
<1>1. CASE c \in AfterSuccess(book, Succeed(book, h, book.shown))
  <2>. DEFINE s == Succeed(book, h, book.shown)
  <2>1. Honest(s) /\ (~s.degraded => ~Over(s))
    BY SucceedIsHonest DEF Honest
  <2>2. CASE book.degraded /\ ~s.degraded
    BY <1>1, <2>1, <2>2, TellingIsHonest DEF AfterSuccess, Honest
  <2>3. CASE ~(book.degraded /\ ~s.degraded)
    BY <1>1, <2>1, <2>3 DEF AfterSuccess
  <2>. QED  BY <2>2, <2>3
<1>2. ASSUME NEW f \in Failing(book, h, book.shown), c \in AfterFailure(f, h)
      PROVE  Honest(c)
  <2>1. f = Fail(book, h, book.shown)
    BY <1>2 DEF Failing
  <2>2. CASE f.failures[h] # Threshold
    BY <1>2, <2>1, <2>2, FailIsHonest DEF AfterFailure, Honest
  <2>3. CASE f.failures[h] = Threshold
    <3>1. f \in Books /\ f.degraded
        BY <2>1, <2>3, FailIsABook
    <3>2. "DEGRADED" \in Statuses
      BY DEF Statuses
    <3>. QED  BY <1>2, <2>3, <3>1, <3>2, TellingIsHonest DEF AfterFailure
  <2>. QED  BY <2>2, <2>3
<1>. QED  BY <1>1, <1>2 DEF SetHelper

-----------------------------------------------------------------------------
(* The calls of a tick.                                                     *)
LEMMA CallsAreKnown ==
  ASSUME NEW tick \in Ticks
  PROVE  CallsOf(tick) \in Seq(Calls) /\ Rescue(tick) \in Seq(Calls)
<1>1. /\ <<>> \in Seq(Calls) /\ <<"MODE">> \in Seq(Calls) /\ <<"CONTROL">> \in Seq(Calls)
      /\ <<"CONFIG_ERROR", "OFF">> \in Seq(Calls) /\ <<"CONFIG_ERROR">> \in Seq(Calls)
      /\ <<"HEALTHY">> \in Seq(Calls) /\ <<"DEGRADED">> \in Seq(Calls)
  BY DEF Calls, Statuses
<1>2. \A s, t \in Seq(Calls) : s \o t \in Seq(Calls)
  BY ConcatProperties
<1>3. ShadowCalls \in Seq(Calls)
  BY <1>1, <1>2 DEF ShadowCalls
<1>. QED  BY <1>1, <1>3 DEF CallsOf, Rescue, Ticks

LEMMA Initial == Init => Inv
<1>. SUFFICES ASSUME Init PROVE Inv
  OBVIOUS
<1>1. <<"STARTING", "MODE">> \in Seq(Calls)
  BY DEF Calls, Statuses
<1>2. Turns /\ ChangeIsArmed
  BY <1>1 DEF Init, Turns, Statuses, Ticks, ChangeIsArmed
<1>3. Honest(book)
  BY HealthAssumption DEF Init, Honest, Books, Over, Helpers, Statuses
<1>. QED  BY <1>2, <1>3 DEF Inv

(* A tick that begins takes its calls and answers the change.               *)
LEMMA BeginStep ==
  ASSUME Inv, NEW tick \in Ticks, Begin(tick),
         UNCHANGED armed \/ (tick = "shadow" /\ armed' = FALSE)
  PROVE  Inv'
<1>1. tick \notin running
  BY DEF Begin, Inv, Turns, Ticks
<1>2. calls' \in Seq(Calls)
  BY <1>1, CallsAreKnown DEF Begin
<1>3. Turns'
  BY <1>1, <1>2 DEF Begin, Inv, Turns, Ticks
<1>4. ChangeIsArmed'
  BY <1>1 DEF Begin, Inv, Turns, ChangeIsArmed
<1>. QED  BY <1>1, <1>3, <1>4 DEF Begin, Inv

LEMMA TickStep == Inv /\ [Next]_vars => Inv'
<1>. SUFFICES ASSUME Inv, [Next]_vars PROVE Inv'
  OBVIOUS
<1>. USE DEF Inv
<1>1. CASE UNCHANGED vars
  BY <1>1 DEF vars, Turns, ChangeIsArmed
<1>2. ASSUME NEW s \in Switches, Change(s) PROVE Inv'
  BY <1>2 DEF Change, Turns, ChangeIsArmed
<1>3. CASE Schedule
  BY <1>3 DEF Schedule, Turns, ChangeIsArmed
<1>4. CASE Debounced
  BY <1>4, BeginStep DEF Debounced, Ticks
<1>5. ASSUME NEW tick \in Ticks, Timer(tick) PROVE Inv'
  BY <1>5, BeginStep DEF Timer
<1>6. ASSUME calls # <<>>
      PROVE  Head(calls) \in Calls /\ Tail(calls) \in Seq(Calls)
  BY <1>6, HeadTailProperties DEF Turns
<1>7. CASE SetStatus
  <2>1. Published(book, Head(calls)) \in Statuses
    BY <1>7 DEF SetStatus, Published, Statuses
  <2>2. Over(book) => Published(book, Head(calls)) # "HEALTHY"
    BY DEF Published, Honest
  <2>3. Honest(book')
    BY <1>7, <2>1, <2>2, TellingIsHonest DEF SetStatus, Honest
  <2>4. Turns'
    BY <1>6, <1>7 DEF SetStatus, Turns
  <2>. QED  BY <1>7, <2>3, <2>4 DEF SetStatus, ChangeIsArmed
<1>8. CASE Write
  <2>1. Head(calls) \in Helpers \ {"STATUS"}
    BY <1>6, <1>8 DEF Write, Calls, Statuses
  <2>2. Honest(book')
    BY <1>8, <2>1, SettingIsHonest DEF Write, Turns
  <2>3. Turns'
    BY <1>6, <1>8 DEF Write, Turns
  <2>. QED  BY <1>8, <2>2, <2>3 DEF Write, ChangeIsArmed
<1>9. CASE TurnOff
  <2>1. calls' \in Seq(Calls)
    BY <1>6, <1>9, CallsAreKnown DEF TurnOff, Ticks
  <2>2. doing # "nothing"
    BY <1>9 DEF TurnOff, Turns
  <2>3. Turns'
    BY <1>9, <2>1, <2>2 DEF TurnOff, Turns, Switches, Watched
  <2>4. ChangeIsArmed'
    <3>1. event \in BOOLEAN /\ unseen \in BOOLEAN /\ house.enabled \in BOOLEAN
      BY DEF Turns, Switches, Watched
    <3>. QED  BY <1>9, <3>1 DEF TurnOff, ChangeIsArmed
  <2>. QED  BY <1>9, <2>3, <2>4 DEF TurnOff
<1>10. CASE End
  <2>1. running' = {} /\ doing' = "nothing" /\ calls' = <<>>
    BY <1>10 DEF End, Turns
  <2>2. Turns'
    BY <1>10, <2>1 DEF End, Turns, Ticks
  <2>. QED  BY <1>10, <2>2 DEF End, ChangeIsArmed
<1>11. CASE Restart
  <2>1. <<"STARTING", "MODE">> \in Seq(Calls)
    BY DEF Calls, Statuses
  <2>2. Turns' /\ ChangeIsArmed'
    BY <1>11, <2>1 DEF Restart, Turns, Ticks, Statuses, ChangeIsArmed
  <2>3. book' = [failures |-> [h \in Helpers |-> 0], degraded |-> FALSE,
                 shown |-> book.shown]
    BY <1>11 DEF Restart, Honest, Books
  <2>4. book' \in Books /\ ~Over(book')
    BY <2>3, HealthAssumption DEF Honest, Books, Over
  <2>5. Honest(book')
    BY <2>4 DEF Honest
  <2>. QED  BY <2>2, <2>5
<1>. QED
  BY <1>1, <1>2, <1>3, <1>4, <1>5, <1>7, <1>8, <1>9, <1>10, <1>11 DEF Next, Step

LEMMA InvCorrect == Spec => []Inv
BY Initial, TickStep, PTL DEF Spec

(* The app is not shown to be healthy while another helper has failed as often in a*)
(* row as it may, unless the call that would tell so failed itself          *)
(* (app.py:695-715).                                                        *)
THEOREM HealthCorrect == Spec => []HealthIsHonest
<1>1. Turns /\ Honest(book) => TypeOK
  BY DEF Turns, Honest, Books, TypeOK, Ticks
<1>2. Honest(book) /\ TypeOK => HealthIsHonest
  <2>. SUFFICES ASSUME Honest(book), TypeOK, book.shown = "HEALTHY",
                       book.failures["STATUS"] <= 0
                PROVE  \A h \in Helpers \ {"STATUS"} : book.failures[h] < Threshold
    BY HealthAssumption DEF HealthIsHonest, TypeOK, Helpers
  <2>. QED  BY HealthAssumption DEF Honest, Books, Over, Helpers
<1>. QED  BY <1>1, <1>2, InvCorrect, PTL DEF Inv

(* Every change of a watched entity that no shadow tick has begun since has its*)
(* debounce armed, or will have (app.py:223-235).                           *)
THEOREM ChangeCorrect == Spec => []ChangeIsArmed
BY InvCorrect, PTL DEF Inv

-----------------------------------------------------------------------------
LastOf(l) == l[Len(l)]

(* Found by every sample of l from the i-th on.                              *)
FoundFrom(c, l, i) == \A k \in i..Len(l) : Found(c, l[k].flow)

(* All samples, in the order in which they came.                             *)
Ordered ==
  /\ now \in Nat
  /\ log \in Seq([at : Nat, export : {Export(r) : r \in Flows}, flow : Flows])
  /\ \A i \in 1..Len(log) : log[i].at \in 0..now
  /\ \A i, j \in 1..Len(log) : i <= j => log[i].at <= log[j].at

(* The clock of a condition shows when the samples that have found it without a  *)
(* break began to.                                                          *)
Clocked ==
  /\ since = [c \in Conditions |-> since[c]]
  /\ \A c \in Conditions :
       \/ since[c] = Never /\ (Len(log) = 0 \/ ~Found(c, LastOf(log).flow))
       \/ \E j \in 1..Len(log) :
            /\ since[c] = log[j].at /\ FoundFrom(c, log, j)
            /\ j > 1 => ~Found(c, log[j - 1].flow)

(* What is confirmed and shown is what the samples have found for long enough.*)
Told ==
  /\ confirmed = Held(log)
  /\ \A c \in Conditions : count[c] \in Nat
  /\ "valid" \in DOMAIN shown
  /\ shown.valid => shown.warnings \cup shown.violations = Held(log)

(* The inductive invariant: that violations are told needs that the clocks are*)
(* right, also of conditions that are not confirmed yet.                    *)
FlowInv == Ordered /\ Clocked /\ Told

(* What the history keeps of a sample.                                      *)
Entry(r) == [at |-> now, export |-> Export(r), flow |-> r]

-----------------------------------------------------------------------------
(* No condition is confirmed at once.                                       *)
LEMMA Patience == \A c \in Conditions : Persistence(c) \in Nat \ {0}
BY MonitorAssumption DEF Persistence

(* The samples, with one more.                                              *)
LEMMA Appended ==
  ASSUME Ordered, NEW r \in Flows, log' = Append(log, Entry(r)), NEW n, n = Len(log) + 1
  PROVE  /\ Len(log) \in Nat /\ Len(log') = n /\ DOMAIN log' = 1..n /\ n \in 1..n
         /\ \A i \in 1..Len(log) : log'[i] = log[i] /\ log[i].at \in Nat
         /\ \A i \in 1..n : i = n \/ i \in 1..Len(log)
         /\ log'[n].at = now /\ log'[n].flow = r /\ now \in Nat
<1>1. /\ Len(log) \in Nat /\ Len(log') = n /\ DOMAIN log' = 1..n
      /\ \A i \in 1..Len(log) : log'[i] = log[i]
      /\ log'[n] = Entry(r)
  BY DEF Ordered
<1>2. log'[n].at = now /\ log'[n].flow = r
  BY <1>1 DEF Entry
<1>3. now \in Nat /\ \A i \in 1..Len(log) : log[i].at \in Nat
  BY DEF Ordered
<1>. QED  BY <1>1, <1>2, <1>3

LEMMA OrderedStep ==
  ASSUME Ordered, NEW r \in Flows, log' = Append(log, Entry(r)), now' = now
  PROVE  Ordered'
<1>. DEFINE S == [at : Nat, export : {Export(x) : x \in Flows}, flow : Flows]
<1>1. Entry(r) \in S /\ Entry(r).at = now
  BY DEF Entry, Ordered
<1>2. log' \in Seq(S)
  <2>1. log \in Seq(S)
    BY DEF Ordered
  <2>. HIDE DEF S
  <2>. QED  BY <1>1, <2>1
<1>. QED  BY <1>1, <1>2, Appended DEF Ordered

(* What has lasted by the clocks is what the samples have found for as long.    *)
LEMMA LastingIsHeld ==
  ASSUME Ordered, Clocked, NEW r \in Flows, log' = Append(log, Entry(r)), now' = now
  PROVE  Lasting(r) = Held(log')
<1>. DEFINE n == Len(log) + 1
<1>0. /\ Len(log) \in Nat /\ Len(log') = n /\ DOMAIN log' = 1..n /\ n \in 1..n
      /\ \A i \in 1..Len(log) : log'[i] = log[i] /\ log[i].at \in Nat
      /\ \A i \in 1..n : i = n \/ i \in 1..Len(log)
      /\ log'[n].at = now /\ log'[n].flow = r /\ now \in Nat
  BY Appended
<1>. HIDE DEF n
<1>1. ASSUME NEW c \in Conditions
      PROVE  c \in Lasting(r) <=> c \in Held(log')
  <2>1. /\ c \in Lasting(r) <=> Since(c, r) # Never /\ now - Since(c, r) >= Persistence(c)
        /\ c \in Held(log') <=> \E j \in 1..n : /\ now - log'[j].at >= Persistence(c)
                                               /\ FoundFrom(c, log', j)
    BY <1>0, <1>1 DEF Lasting, Held, FoundFrom
  <2>2. CASE ~Found(c, r)
    BY <1>0, <2>1, <2>2 DEF Since, FoundFrom
  <2>3. CASE Found(c, r) /\ since[c] = Never
    <3>1. Since(c, r) = now
      BY <2>3 DEF Since
    <3>2. c \notin Lasting(r)
      BY <1>0, <2>1, <3>1, Patience
    <3>3. ASSUME NEW j \in 1..n, now - log'[j].at >= Persistence(c), FoundFrom(c, log', j)
          PROVE  FALSE
      <4>1. j \in 1..Len(log)
        BY <1>0, <3>3, Patience
      <4>2. Len(log) \in j..Len(log') /\ log'[Len(log)] = LastOf(log) /\ Len(log) # 0
        BY <1>0, <4>1 DEF LastOf, n
      <4>3. Found(c, LastOf(log).flow)
        BY <3>3, <4>2 DEF FoundFrom
      <4>4. PICK i \in 1..Len(log) : since[c] = log[i].at
        BY <4>2, <4>3 DEF Clocked
      <4>. QED  BY <1>0, <2>3, <4>4 DEF Never
    <3>. QED  BY <2>1, <3>2, <3>3
  <2>4. CASE Found(c, r) /\ since[c] # Never
    <3>1. Since(c, r) = since[c]
      BY <2>4 DEF Since
    <3>2. PICK i \in 1..Len(log) :
            /\ since[c] = log[i].at /\ FoundFrom(c, log, i)
            /\ i > 1 => ~Found(c, log[i - 1].flow)
      BY <2>4 DEF Clocked
    <3>3. FoundFrom(c, log', i)
      BY <1>0, <2>4, <3>2 DEF FoundFrom
    <3>4. i \in 1..n /\ log'[i].at = since[c]
      BY <1>0, <3>2
    <3>5. ASSUME NEW j \in 1..n, now - log'[j].at >= Persistence(c), FoundFrom(c, log', j)
          PROVE  now - since[c] >= Persistence(c)
      <4>1. j \in 1..Len(log) /\ log'[j] = log[j]
        BY <1>0, <3>5, Patience
      <4>2. j >= i
        <5>1. SUFFICES ASSUME j < i PROVE FALSE
          BY <1>0, <3>4
        <5>2. i - 1 \in j..Len(log') /\ i - 1 \in 1..Len(log) /\ i > 1
          BY <1>0, <3>2, <4>1, <5>1 DEF n
        <5>3. Found(c, log[i - 1].flow)
          BY <1>0, <3>5, <5>2 DEF FoundFrom
        <5>. QED  BY <3>2, <5>2, <5>3
      <4>3. log[i].at <= log[j].at
        BY <3>2, <4>1, <4>2 DEF Ordered
      <4>4. log[i].at \in Nat /\ log[j].at \in Nat /\ Persistence(c) \in Nat
        BY <1>0, <3>2, <4>1, Patience
      <4>. QED  BY <1>0, <3>2, <3>5, <4>1, <4>3, <4>4
    <3>. QED  BY <2>1, <2>4, <3>1, <3>3, <3>4, <3>5
  <2>. QED  BY <2>2, <2>3, <2>4
<1>. QED  BY <1>1 DEF Lasting, Held

(* A sample starts the clocks of what it finds and stops the others.        *)
LEMMA ClockedStep ==
  ASSUME Ordered, Clocked, NEW r \in Flows, log' = Append(log, Entry(r)), now' = now,
         since' = [c \in Conditions |-> Since(c, r)]
  PROVE  Clocked'
<1>. DEFINE n == Len(log) + 1
<1>0. /\ Len(log) \in Nat /\ Len(log') = n /\ n \in 1..n
      /\ \A i \in 1..Len(log) : log'[i] = log[i] /\ log[i].at \in Nat
      /\ \A i \in 1..n : i = n \/ i \in 1..Len(log)
      /\ log'[n].at = now /\ log'[n].flow = r /\ now \in Nat
  BY Appended
<1>. HIDE DEF n
<1>1. ASSUME NEW c \in Conditions
      PROVE  \/ since'[c] = Never /\ ~Found(c, LastOf(log').flow)
             \/ \E j \in 1..n :
                  /\ since'[c] = log'[j].at /\ FoundFrom(c, log', j)
                  /\ j > 1 => ~Found(c, log'[j - 1].flow)
  <2>1. CASE ~Found(c, r)
    BY <1>0, <2>1 DEF Since, LastOf
  <2>2. CASE Found(c, r) /\ since[c] = Never
    <3>1. since'[c] = log'[n].at /\ FoundFrom(c, log', n)
      BY <1>0, <2>2 DEF Since, FoundFrom
    <3>2. ASSUME n > 1 PROVE ~Found(c, log'[n - 1].flow)
      <4>1. Len(log) \in 1..Len(log) /\ n - 1 = Len(log)
        BY <1>0, <3>2 DEF n
      <4>2. \A i \in 1..Len(log) : log[i].at # Never
        BY <1>0 DEF Never
      <4>3. ~Found(c, LastOf(log).flow)
        BY <2>2, <4>1, <4>2 DEF Clocked
      <4>. QED  BY <1>0, <4>1, <4>3 DEF LastOf
    <3>. QED  BY <1>0, <3>1, <3>2
  <2>3. CASE Found(c, r) /\ since[c] # Never
    <3>1. PICK i \in 1..Len(log) :
            /\ since[c] = log[i].at /\ FoundFrom(c, log, i)
            /\ i > 1 => ~Found(c, log[i - 1].flow)
      BY <2>3 DEF Clocked
    <3>2. FoundFrom(c, log', i)
      BY <1>0, <2>3, <3>1 DEF FoundFrom
    <3>3. i \in 1..n /\ log'[i] = log[i] /\ (i > 1 => log'[i - 1] = log[i - 1])
      BY <1>0, <3>1
    <3>4. since'[c] = since[c]
      BY <2>3 DEF Since
    <3>. QED  BY <3>1, <3>2, <3>3, <3>4
  <2>. QED  BY <2>1, <2>2, <2>3
<1>. QED  BY <1>0, <1>1 DEF Clocked

-----------------------------------------------------------------------------
(* A sample tells what has lasted, and counts what has begun to.            *)
LEMMA SampleStep ==
  ASSUME FlowInv, NEW r \in Flows, Sample(r)
  PROVE  /\ FlowInv'
         /\ shown'.warnings \cup shown'.violations = Held(log')
         /\ \A c \in Conditions :
              count'[c] = count[c] + IF c \in Held(log') \ Held(log) THEN 1 ELSE 0
<1>1. /\ log' = Append(log, Entry(r)) /\ now' = now
      /\ since' = [c \in Conditions |-> Since(c, r)]
      /\ confirmed' = Lasting(r)
      /\ count' = [c \in Conditions |->
                     count[c] + IF c \in Lasting(r) \ confirmed THEN 1 ELSE 0]
  BY DEF Sample, Debounce, Confirmed, Entry
<1>2. /\ shown'.violations = Lasting(r) \ {"IMPORT_WARNING"}
      /\ shown'.warnings = Lasting(r) \cap {"IMPORT_WARNING"}
      /\ "valid" \in DOMAIN shown'
  BY DEF Sample
<1>4. Lasting(r) = Held(log')
  BY <1>1, LastingIsHeld DEF FlowInv
<1>5. Ordered' /\ Clocked'
  BY <1>1, OrderedStep, ClockedStep DEF FlowInv
<1>6. shown'.warnings \cup shown'.violations = Held(log')
  BY <1>2, <1>4
<1>7. \A c \in Conditions :
        count'[c] = count[c] + IF c \in Held(log') \ Held(log) THEN 1 ELSE 0
  BY <1>1, <1>4 DEF FlowInv, Told
<1>8. Told'
  BY <1>1, <1>2, <1>4, <1>6, <1>7 DEF FlowInv, Told
<1>. QED  BY <1>5, <1>6, <1>7, <1>8 DEF FlowInv

LEMMA FlowInitial == FlowInit => FlowInv
<1>. SUFFICES ASSUME FlowInit PROVE FlowInv
  OBVIOUS
<1>1. log = <<>> /\ Len(log) = 0 /\ DOMAIN log = {}
  BY DEF FlowInit
<1>2. Ordered
  BY <1>1 DEF FlowInit, Ordered
<1>3. Clocked
  BY <1>1 DEF FlowInit, Clocked
<1>4. Held(log) = {}
  BY <1>1 DEF Held
<1>5. Told
  BY <1>4 DEF FlowInit, Told
<1>. QED  BY <1>2, <1>3, <1>5 DEF FlowInv

(* A step that samples nothing.                                             *)
LEMMA Quiet ==
  ASSUME FlowInv, UNCHANGED <<since, confirmed, count, log>>, now' \in Nat, now <= now',
         \/ shown' = shown
         \/ "valid" \in DOMAIN shown' /\ ~shown'.valid
  PROVE  FlowInv'
<1>1. Held(log)' = Held(log)
  BY DEF Held
<1>2. Ordered' /\ Clocked'
  BY DEF FlowInv, Ordered, Clocked
<1>3. Told'
  BY <1>1 DEF FlowInv, Told
<1>. QED  BY <1>2, <1>3 DEF FlowInv

LEMMA FlowStep ==
  ASSUME FlowInv, [FlowNext]_flowVars
  PROVE  /\ FlowInv'
         /\ shown'.valid => shown'.warnings \cup shown'.violations = Held(log')
         /\ \A c \in Conditions :
              count'[c] = count[c] + IF c \in Held(log') \ Held(log) THEN 1 ELSE 0
<1>1. CASE \E r \in Flows : Sample(r)
  BY <1>1, SampleStep
<1>2. CASE Invalid \/ Tick \/ UNCHANGED flowVars
  <2>1. now \in Nat /\ "valid" \in DOMAIN shown
    BY DEF FlowInv, Ordered, Told
  <2>2. ASSUME Invalid PROVE FlowInv'
    <3>1. "valid" \in DOMAIN shown' /\ ~shown'.valid
      BY <2>1, <2>2 DEF Invalid
    <3>2. now' \in Nat /\ now <= now' /\ UNCHANGED <<since, confirmed, count, log>>
      BY <2>1, <2>2 DEF Invalid
    <3>. QED  BY <3>1, <3>2, Quiet
  <2>3. FlowInv'
    BY <1>2, <2>1, <2>2, Quiet DEF Tick, flowVars
  <2>4. log' = log /\ count' = count
    BY <1>2 DEF Invalid, Tick, flowVars
  <2>5. \A c \in Conditions : count[c] \in Nat
    BY DEF FlowInv, Told
  <2>6. \A c \in Conditions :
          count'[c] = count[c] + IF c \in Held(log') \ Held(log) THEN 1 ELSE 0
    BY <2>4, <2>5
  <2>7. shown' = shown \/ ~shown'.valid
    BY <1>2, <2>1 DEF Invalid, Tick, flowVars
  <2>8. shown'.valid => shown'.warnings \cup shown'.violations = Held(log')
    BY <2>4, <2>7 DEF FlowInv, Told
  <2>. QED  BY <2>3, <2>6, <2>8
<1>3. (\E r \in Flows : Sample(r)) \/ (Invalid \/ Tick \/ UNCHANGED flowVars)
  BY DEF FlowNext
<1>4. FlowInv'
  BY <1>1, <1>2, <1>3
<1>5. shown'.valid => shown'.warnings \cup shown'.violations = Held(log')
  BY <1>1, <1>2, <1>3
<1>6. \A c \in Conditions :
        count'[c] = count[c] + IF c \in Held(log') \ Held(log) THEN 1 ELSE 0
  BY <1>1, <1>2, <1>3
<1>. QED  BY <1>4, <1>5, <1>6

LEMMA FlowInvCorrect == FlowSpec => []FlowInv
<1>1. FlowInv /\ [FlowNext]_flowVars => FlowInv'
  BY FlowStep
<1>. QED  BY <1>1, FlowInitial, PTL DEF FlowSpec

(* A violation is reported when, and as long as, every sample of its persistence*)
(* has found its condition, and counted once each time, however often and by*)
(* whichever ticks the flow is sampled (flow.py:165-240).                   *)
THEOREM ViolationsCorrect == FlowSpec => ViolationsAreTold
<1>1. FlowInv /\ [FlowNext]_flowVars =>
        [ /\ shown'.valid => shown'.warnings \cup shown'.violations = Held(log')
          /\ \A c \in Conditions :
               count'[c] = count[c] + IF c \in Held(log') \ Held(log) THEN 1 ELSE 0
        ]_flowVars
  BY FlowStep
<1>. QED  BY <1>1, FlowInvCorrect, PTL DEF FlowSpec, ViolationsAreTold
-----------------------------------------------------------------------------
(* What the history keeps of every sample, in the order in which they came.    *)
Entries == [at : Nat, export : Nat, flow : Flows]

InOrder(l, t) ==
  /\ t \in Nat /\ l \in Seq(Entries)
  /\ \A i \in 1..Len(l) : l[i].at <= t
  /\ \A i, j \in 1..Len(l) : i <= j => l[i].at <= l[j].at

(* ExportAt, of any log.                                                    *)
ExportIn(l, t) ==
  LET before == {i \in DOMAIN l : l[i].at <= t}
  IN IF before = {} THEN 0 ELSE l[Max(before)].export

Curve(l) == [t \in Int |-> ExportIn(l, t)]

(* The tracker keeps the last samples, all or those since one that is as old as    *)
(* the window.                                                              *)
Ends(s, l, t) ==
  /\ Len(s) \in 0..Len(l) /\ s \in Seq([at : Nat, export : Nat])
  /\ Len(l) > 0 => Len(s) > 0
  /\ \A i \in 1..Len(s) : /\ s[i].at = l[Len(l) - Len(s) + i].at
                          /\ s[i].export = l[Len(l) - Len(s) + i].export
  /\ Len(s) < Len(l) => s[1].at <= t - Window

(* The quarter holds what has been exported in it before the last sample.        *)
Quartered(q, l) ==
  /\ Len(l) = 0 => q.at = Never
  /\ Len(l) > 0 => /\ q.at = l[Len(l)].at /\ q.export = l[Len(l)].export
                   /\ q.start = QuarterStart(q.at)
  /\ q.start \in Int
  /\ q.used = IF Len(l) = 0 THEN 0
              ELSE SumOver(Curve(l), q.start..(q.at - 1))

(* The inductive invariant of the figures.                                   *)
FigureInv ==
  /\ now \in 0..MaxTime /\ Len(log) <= MaxSamples
  /\ InOrder(log, now) /\ Ends(samples, log, now) /\ Quartered(fixed, log)
  /\ {"valid", "violations", "budget"} \subseteq DOMAIN shown
  /\ shown.violations \subseteq Conditions /\ shown.budget \in 0..Target
  /\ shown.valid => Len(log) > 0
  /\ \A c \in Conditions : count[c] \in 0..Len(log)
  /\ AverageIsExact /\ QuarterIsExact

-----------------------------------------------------------------------------
(* The curve of the export: it steps at every sample.                        *)
LEMMA InLog ==
  ASSUME NEW t \in Nat, NEW l, InOrder(l, t)
  PROVE  /\ Len(l) \in Nat /\ DOMAIN l = 1..Len(l)
         /\ \A i \in 1..Len(l) : l[i].at \in Nat /\ l[i].export \in Nat /\ l[i].at <= t
<1>1. /\ Len(l) \in Nat /\ DOMAIN l = 1..Len(l)
      /\ \A i \in 1..Len(l) : l[i] \in Entries /\ l[i].at <= t
  BY DEF InOrder
<1>. QED  BY <1>1 DEF Entries

LEMMA CurveIs ==
  ASSUME NEW t \in Nat, NEW l, InOrder(l, t), NEW k \in 1..Len(l), NEW x \in Int,
         l[k].at <= x, k = Len(l) \/ x < l[k + 1].at
  PROVE  ExportIn(l, x) = l[k].export
<1>. DEFINE B == {i \in DOMAIN l : l[i].at <= x}
<1>0. /\ Len(l) \in Nat /\ DOMAIN l = 1..Len(l)
      /\ \A i \in 1..Len(l) : l[i].at \in Nat
  BY InLog
<1>1. k \in B
  BY <1>0
<1>3. B \subseteq 1..Len(l)
  BY <1>0
<1>2. ASSUME NEW j \in 1..Len(l), l[j].at <= x, j > k PROVE FALSE
  <2>1. k + 1 \in 1..Len(l) /\ k + 1 <= j /\ x < l[k + 1].at
    <3>0. Len(l) \in Nat
      BY <1>0
    <3>1. k \in Nat /\ j \in Nat /\ j <= Len(l) /\ k > 0
      BY <3>0
    <3>2. k + 1 \in 1..Len(l) /\ k + 1 <= j /\ k # Len(l)
      BY <1>2, <3>0, <3>1
    <3>. QED  BY <3>2
  <2>2. l[k + 1].at <= l[j].at
    BY <2>1 DEF InOrder
  <2>3. l[k + 1].at \in Nat /\ l[j].at \in Nat
    BY <1>0, <2>1
  <2>. HIDE DEF B
  <2>. QED  BY <1>2, <2>1, <2>2, <2>3
<1>4. \A y \in B : y \in Int /\ k >= y
  BY <1>0, <1>2
<1>. HIDE DEF B
<1>6. Max(B) = k
  <2>1. Max(B) \in B /\ \A y \in B : Max(B) >= y
    BY <1>1, <1>4 DEF Max
  <2>2. Max(B) \in Int /\ k \in Int /\ Max(B) >= k /\ k >= Max(B)
    BY <1>0, <1>1, <1>4, <2>1
  <2>. QED  BY <2>2
<1>5. ExportIn(l, x) = IF B = {} THEN 0 ELSE l[Max(B)].export
  BY DEF ExportIn, B
<1>. QED  BY <1>1, <1>5, <1>6

LEMMA CurveBefore ==
  ASSUME NEW t \in Nat, NEW l, InOrder(l, t), NEW x \in Int,
         Len(l) = 0 \/ x < l[1].at
  PROVE  ExportIn(l, x) = 0
<1>0. /\ Len(l) \in Nat /\ DOMAIN l = 1..Len(l)
      /\ \A i \in 1..Len(l) : l[i].at \in Nat
  BY InLog
<1>1. ASSUME NEW i \in 1..Len(l) PROVE x < l[i].at
  <2>1. 1 \in 1..Len(l) /\ 1 <= i
    BY <1>0
  <2>2. l[1].at <= l[i].at
    BY <2>1 DEF InOrder
  <2>. QED  BY <1>0, <2>1, <2>2
<1>2. {i \in DOMAIN l : l[i].at <= x} = {}
  BY <1>0, <1>1
<1>. QED  BY <1>2 DEF ExportIn

LEMMA CurveIsANumber ==
  ASSUME NEW t \in Nat, NEW l, InOrder(l, t), NEW x \in Int
  PROVE  ExportIn(l, x) \in Nat
<1>. DEFINE B == {i \in DOMAIN l : l[i].at <= x}
<1>0. /\ Len(l) \in Nat /\ DOMAIN l = 1..Len(l)
      /\ \A i \in 1..Len(l) : l[i].export \in Nat
  BY InLog
<1>1. CASE B = {}
  BY <1>1 DEF ExportIn
<1>2. CASE B # {}
  <2>1. B \subseteq 1..Len(l) /\ 1 \in Int /\ Len(l) \in Int
    BY <1>0
  <2>. HIDE DEF B
  <2>2. \E m \in B : \A y \in B : m >= y
    BY <1>2, <2>1, Greatest
  <2>3. Max(B) \in B
    BY <2>2 DEF Max
  <2>4. l[Max(B)].export \in Nat
    BY <1>0, <2>1, <2>3
  <2>. QED  BY <1>2, <2>4 DEF ExportIn, B
<1>. QED  BY <1>1, <1>2

(* A further sample does not change what was exported before it.               *)
LEMMA CurveStays ==
  ASSUME NEW t \in Nat, NEW l, InOrder(l, t), NEW e \in Entries, e.at = t,
         NEW x \in Int, x < t
  PROVE  ExportIn(Append(l, e), x) = ExportIn(l, x)
<1>. DEFINE m == Append(l, e)
            B(k) == {i \in DOMAIN k : k[i].at <= x}
<1>0. /\ Len(l) \in Nat /\ DOMAIN l = 1..Len(l)
      /\ \A i \in 1..Len(l) : l[i].at \in Nat
  BY InLog
<1>1. /\ DOMAIN m = 1..(Len(l) + 1) /\ m[Len(l) + 1] = e
      /\ \A i \in 1..Len(l) : m[i] = l[i]
  BY <1>0 DEF InOrder
<1>. HIDE DEF m
<1>2. B(m) = B(l)
  BY <1>0, <1>1
<1>3. B(l) # {} => Max(B(l)) \in B(l)
  <2>1. B(l) \subseteq 1..Len(l) /\ 1 \in Int /\ Len(l) \in Int
    BY <1>0
  <2>. DEFINE b == B(l)
  <2>2. b \subseteq 1..Len(l)
    BY <2>1
  <2>. HIDE DEF b
  <2>3. b # {} => \E k \in b : \A y \in b : k >= y
    BY <2>1, <2>2, Greatest
  <2>4. b # {} => Max(b) \in b
    BY <2>3 DEF Max
  <2>. QED  BY <2>4 DEF b
<1>4. B(l) # {} => m[Max(B(l))] = l[Max(B(l))]
  <2>1. B(l) \subseteq 1..Len(l)
    BY <1>0
  <2>. QED  BY <1>1, <1>3, <2>1
<1>5. /\ ExportIn(m, x) = IF B(m) = {} THEN 0 ELSE m[Max(B(m))].export
      /\ ExportIn(l, x) = IF B(l) = {} THEN 0 ELSE l[Max(B(l))].export
  BY DEF ExportIn
<1>. HIDE DEF B
<1>6. ExportIn(m, x) = ExportIn(l, x)
  BY <1>2, <1>4, <1>5
<1>. QED  BY <1>6 DEF m

(* What has been exported since is the sum of the curve.                      *)
LEMMA EnergyIs ==
  ASSUME NEW a \in Int, now \in Int
  PROVE  EnergySince(a) = SumOver(Curve(log), a..(now - 1))
<1>. DEFINE D == a..(now - 1)
            f == Curve(log)
            T(g) == [c \in SUBSET D |->
                       IF c = {} THEN 0
                       ELSE ExportAt(CHOOSE x \in c : TRUE)
                              + g[c \ {CHOOSE x \in c : TRUE}]]
<1>1. EnergySince(a) = (CHOOSE g : g = T(g))[D]
  BY DEF EnergySince, MapThenSumSet, MapThenFoldSet
<1>2. ASSUME NEW g PROVE T(g) = Table(f, D, g)
  <2>1. \A c \in SUBSET D : c # {} => (CHOOSE x \in c : TRUE) \in c
    OBVIOUS
  <2>2. \A c \in SUBSET D : c # {} => (CHOOSE x \in c : TRUE) \in Int
    <3>1. D \subseteq Int
      OBVIOUS
    <3>. HIDE DEF D
    <3>. QED  BY <2>1, <3>1
  <2>3. \A x \in Int : f[x] = ExportAt(x)
    BY DEF Curve, ExportAt, ExportIn
  <2>. HIDE DEF f
  <2>4. \A c \in SUBSET D : c # {} =>
          f[CHOOSE x \in c : TRUE] = ExportAt(CHOOSE x \in c : TRUE)
    BY <2>2, <2>3
  <2>. QED  BY <2>4 DEF Table
<1>. HIDE DEF T
<1>3. \A g : g = T(g) <=> g = Table(f, D, g)
  BY <1>2
<1>4. (CHOOSE g : g = T(g)) = (CHOOSE g : g = Table(f, D, g))
  BY <1>3
<1>. QED  BY <1>1, <1>4 DEF SumOver

-----------------------------------------------------------------------------
(* The average: where the window begins, the end and the energy of a sample.     *)
StartOf(s) == Larger(s[1].at, now - Window)
EndOf(s, i) == IF i < Len(s) THEN s[i + 1].at ELSE now
EnergyOf(s, i) == s[i].export * Positive(EndOf(s, i) - Larger(s[i].at, StartOf(s)))

LEMMA AverageIsSum ==
  ASSUME NEW s, NEW f, f = [i \in DOMAIN s |-> EnergyOf(s, i)]
  PROVE  Average(s) = [energy |-> SumOver(f, DOMAIN s), covered |-> now - StartOf(s)]
<1>. DEFINE D == DOMAIN s
            T(g) == [c \in SUBSET D |->
                       IF c = {} THEN 0
                       ELSE EnergyOf(s, CHOOSE x \in c : TRUE)
                              + g[c \ {CHOOSE x \in c : TRUE}]]
<1>1. Average(s) = [energy |-> (CHOOSE g : g = T(g))[D], covered |-> now - StartOf(s)]
  BY DEF Average, MapThenSumSet, MapThenFoldSet, EnergyOf, EndOf, StartOf
<1>2. ASSUME NEW g PROVE T(g) = Table(f, D, g)
  <2>1. \A c \in SUBSET D : c # {} => (CHOOSE x \in c : TRUE) \in c
    OBVIOUS
  <2>2. \A c \in SUBSET D : c # {} =>
          f[CHOOSE x \in c : TRUE] = EnergyOf(s, CHOOSE x \in c : TRUE)
    BY <2>1
  <2>. QED  BY <2>2 DEF Table
<1>. HIDE DEF T
<1>3. \A g : g = T(g) <=> g = Table(f, D, g)
  BY <1>2
<1>4. (CHOOSE g : g = T(g)) = (CHOOSE g : g = Table(f, D, g))
  BY <1>3
<1>. QED  BY <1>1, <1>4 DEF SumOver

(* What the samples that are kept say of the curve.                          *)
LEMMA EndsKnow ==
  ASSUME now \in Nat, NEW l, InOrder(l, now), NEW s, Ends(s, l, now), Len(l) > 0
  PROVE  /\ Len(s) \in Nat \ {0} /\ DOMAIN s = 1..Len(s)
         /\ \A i \in 1..Len(s) : /\ s[i].at \in 0..now /\ s[i].export \in Nat
                                 /\ EndOf(s, i) \in s[i].at..now
         /\ \A i \in 1..Len(s), x \in Int :
              s[i].at <= x /\ x < EndOf(s, i) => ExportIn(l, x) = s[i].export
         /\ StartOf(s) \in Int /\ s[1].at <= StartOf(s) /\ StartOf(s) <= now
         /\ StartOf(s) = Larger(l[1].at, now - Window)
         /\ s[Len(s)].at = l[Len(l)].at /\ s[Len(s)].export = l[Len(l)].export
<1>. DEFINE n == Len(s)
            d == Len(l) - Len(s)
<1>0. /\ Len(l) \in Nat /\ Window \in Nat
      /\ \A i \in 1..Len(l) : l[i].at \in Nat /\ l[i].export \in Nat /\ l[i].at <= now
  BY InLog, MonitorAssumption
<1>1. n \in Nat /\ n > 0 /\ d \in Nat /\ DOMAIN s = 1..n /\ n + d = Len(l)
  BY <1>0 DEF Ends
<1>2. \A i \in 1..n : s[i].at = l[i + d].at /\ s[i].export = l[i + d].export
  <2>1. \A i \in 1..n : d + i = i + d
    BY <1>1
  <2>. QED  BY <2>1 DEF Ends
<1>. HIDE DEF n, d
<1>3. \A i \in 1..n : i + d \in 1..Len(l)
  BY <1>0, <1>1
<1>4. \A i \in 1..n : s[i].at \in 0..now /\ s[i].export \in Nat
  BY <1>0, <1>2, <1>3
<1>5. ASSUME NEW i \in 1..n
      PROVE  /\ i < n => EndOf(s, i) = l[(i + d) + 1].at
             /\ i = n => EndOf(s, i) = now /\ i + d = Len(l)
             /\ EndOf(s, i) \in s[i].at..now
  <2>1. CASE i < n
    <3>1. /\ i + 1 \in 1..n /\ (i + 1) + d = (i + d) + 1
          /\ (i + d) + 1 \in 1..Len(l) /\ i + d <= (i + d) + 1
      BY <1>0, <1>1, <2>1
    <3>2. EndOf(s, i) = l[(i + d) + 1].at
      BY <1>2, <2>1, <3>1 DEF EndOf, n
    <3>3. l[i + d].at <= l[(i + d) + 1].at
      BY <1>3, <3>1 DEF InOrder
    <3>4. l[(i + d) + 1].at \in Nat /\ l[(i + d) + 1].at <= now /\ s[i].at \in Nat
      BY <1>0, <1>4, <3>1
    <3>. QED  BY <1>2, <2>1, <3>2, <3>3, <3>4
  <2>2. CASE i = n
    <3>1. EndOf(s, i) = now
      BY <1>1, <2>2 DEF EndOf, n
    <3>. QED  BY <1>1, <1>4, <2>2, <3>1
  <2>. QED  BY <1>1, <2>1, <2>2
<1>6. ASSUME NEW i \in 1..n, NEW x \in Int, s[i].at <= x, x < EndOf(s, i)
      PROVE  ExportIn(l, x) = s[i].export
  <2>1. /\ i + d \in 1..Len(l) /\ l[i + d].at <= x
        /\ i + d = Len(l) \/ x < l[(i + d) + 1].at
    BY <1>1, <1>2, <1>3, <1>5, <1>6
  <2>2. ExportIn(l, x) = l[i + d].export
    BY <2>1, CurveIs
  <2>. QED  BY <1>2, <2>2
<1>7. 1 \in 1..n /\ n \in 1..n /\ s[1].at \in 0..now
  BY <1>1, <1>4
<1>8. StartOf(s) \in Int /\ s[1].at <= StartOf(s) /\ StartOf(s) <= now
  BY <1>0, <1>7 DEF StartOf, Larger
<1>9. StartOf(s) = Larger(l[1].at, now - Window)
  <2>1. CASE d = 0
    BY <1>2, <1>7, <2>1 DEF StartOf
  <2>2. CASE d # 0
    <3>1. s[1].at <= now - Window
      BY <1>1, <2>2 DEF Ends, n
    <3>2. 1 + d \in 1..Len(l) /\ 1 \in 1..Len(l) /\ 1 <= 1 + d
      BY <1>0, <1>1, <1>3, <1>7
    <3>3. l[1].at <= l[1 + d].at
      BY <3>2 DEF InOrder
    <3>4. l[1].at \in Nat /\ s[1].at = l[1 + d].at
      BY <1>0, <1>2, <1>7, <3>2
    <3>5. \A x, y, z \in Int : x <= y /\ y <= z => Larger(y, z) = Larger(x, z)
      BY DEF Larger
    <3>6. now - Window \in Int /\ s[1].at \in Int
      BY <1>0, <1>7
    <3>. QED  BY <3>1, <3>3, <3>4, <3>5, <3>6 DEF StartOf
  <2>. QED  BY <2>1, <2>2
<1>10. s[n].at = l[Len(l)].at /\ s[n].export = l[Len(l)].export
  BY <1>1, <1>2, <1>7
<1>11. \A i \in 1..n : EndOf(s, i) \in s[i].at..now
  BY <1>5
<1>12. \A i \in 1..n, x \in Int :
         s[i].at <= x /\ x < EndOf(s, i) => ExportIn(l, x) = s[i].export
  BY <1>6
<1>. QED  BY <1>1, <1>4, <1>8, <1>9, <1>10, <1>11, <1>12 DEF n

(* Piece by piece, the energy of the samples is that of the curve.              *)
LEMMA PiecesAddUp ==
  ASSUME now \in Nat, NEW l, InOrder(l, now), NEW s, Ends(s, l, now), Len(l) > 0
  PROVE  Average(s) = [energy |-> SumOver(Curve(l), StartOf(s)..(now - 1)),
                       covered |-> now - StartOf(s)]
<1>. DEFINE n == Len(s)
            S == StartOf(s)
            f == [i \in DOMAIN s |-> EnergyOf(s, i)]
            h == Curve(l)
            X(k) == IF k = 0 THEN S ELSE Larger(EndOf(s, k), S)
            G == {k \in 0..n : SumOver(f, 1..k) = SumOver(h, S..(X(k) - 1))}
<1>0. /\ n \in Nat \ {0} /\ DOMAIN s = 1..n /\ S \in Int /\ s[1].at <= S /\ S <= now
      /\ \A i \in 1..n : /\ s[i].at \in Nat /\ s[i].export \in Nat
                         /\ EndOf(s, i) \in Int
                         /\ s[i].at <= EndOf(s, i) /\ EndOf(s, i) <= now
  BY EndsKnow
<1>1. \A i \in 1..n, x \in Int :
        s[i].at <= x /\ x < EndOf(s, i) => h[x] = s[i].export
  BY EndsKnow DEF Curve
<1>2. \A i \in 1..n : f[i] = EnergyOf(s, i)
  BY <1>0
<1>3. \A D \in SUBSET Int : Numbers(h, D)
  <2>1. \A x \in Int : ExportIn(l, x) \in Nat
    BY CurveIsANumber
  <2>. QED  BY <2>1 DEF Numbers, Curve
<1>. HIDE DEF f, h, n, S
<1>4. ASSUME NEW i \in 1..n PROVE EnergyOf(s, i) \in Int
  <2>1. \A x \in Int : Positive(x) \in Int
    BY DEF Positive
  <2>2. \A x, y, z \in Int : x - Larger(y, z) \in Int
    BY DEF Larger
  <2>3. s[i].export \in Int /\ EndOf(s, i) \in Int /\ s[i].at \in Int /\ S \in Int
    BY <1>0
  <2>4. Positive(EndOf(s, i) - Larger(s[i].at, S)) \in Int
    BY <2>1, <2>2, <2>3
  <2>5. \A x, y \in Int : x * y \in Int
    OBVIOUS
  <2>. QED  BY <2>3, <2>4, <2>5 DEF EnergyOf, S
<1>5. \A k \in 0..n : Numbers(f, 1..k)
  BY <1>0, <1>2, <1>4 DEF Numbers
<1>6. 0 \in G
  <2>1. SumOver(f, 1..0) = 0 /\ SumOver(h, S..(S - 1)) = 0
    BY <1>0, SumNothing
  <2>. QED  BY <1>0, <2>1
<1>7. ASSUME NEW k \in 0..(n - 1), k \in G
      PROVE  k + 1 \in G
  <2>. DEFINE j == k + 1
              Y == Larger(s[j].at, S)
              e == EndOf(s, j)
  <2>0. /\ j \in 1..n /\ j \in Int /\ 1 <= j /\ j - 1 = k /\ k \in Nat
        /\ Y \in Int /\ S <= Y /\ e \in Int /\ s[j].at \in Nat /\ s[j].at <= Y
        /\ s[j].at <= e /\ s[j].export \in Int
    <3>1. j \in 1..n /\ j \in Int /\ 1 <= j /\ j - 1 = k /\ k \in Nat
      BY <1>0
    <3>2. /\ e \in Int /\ s[j].at \in Nat /\ s[j].at <= e /\ s[j].export \in Int
      BY <1>0, <3>1
    <3>3. \A x, y \in Int : Larger(x, y) \in Int /\ x <= Larger(x, y) /\ y <= Larger(x, y)
      BY DEF Larger
    <3>. HIDE DEF j, e
    <3>4. Y \in Int /\ S <= Y /\ s[j].at <= Y
      <4>1. S \in Int /\ s[j].at \in Int
        BY <1>0, <3>2
      <4>. QED  BY <3>3, <4>1, Zenon
    <3>. QED  BY <3>1, <3>2, <3>4
  <2>1. X(k) = Y
    <3>1. CASE k = 0
      BY <1>0, <2>0, <3>1 DEF Larger
    <3>2. CASE k # 0
      <4>1. EndOf(s, k) = s[j].at
        BY <1>0, <2>0, <3>2 DEF EndOf, n
      <4>. QED  BY <3>2, <4>1
    <3>. QED  BY <3>1, <3>2
  <2>2. f[j] = s[j].export * Positive(e - Y)
    BY <1>2, <2>0 DEF EnergyOf, S
  <2>3. SumOver(f, 1..j) = SumOver(f, 1..k) + f[j]
    BY <1>5, <2>0, SumUp
  <2>4. SumOver(f, 1..k) = SumOver(h, S..(Y - 1))
    BY <1>7, <2>1
  <2>5. X(j) = Larger(e, S)
    BY <2>0
  <2>. HIDE DEF X, G, j, Y, e
  <2>6. CASE e > Y
    <3>1. X(j) = e
      BY <1>0, <2>0, <2>5, <2>6 DEF Larger
    <3>2. \A x \in Y..(e - 1) : h[x] = s[j].export
      BY <1>1, <2>0 DEF e
    <3>3. SumOver(h, Y..(e - 1)) = s[j].export * ((e - 1) + 1 - Y)
      <4>1. e - 1 \in Int /\ Y <= (e - 1) + 1
        BY <2>0, <2>6
      <4>. QED  BY <2>0, <3>2, <4>1, SumConstant
    <3>4. (e - 1) + 1 - Y = Positive(e - Y)
      BY <2>0, <2>6 DEF Positive
    <3>5. SumOver(h, S..(e - 1)) = SumOver(h, S..(Y - 1)) + SumOver(h, Y..(e - 1))
      <4>1. /\ Y - 1 \in Int /\ e - 1 \in Int /\ S <= (Y - 1) + 1 /\ Y - 1 <= e - 1
            /\ (Y - 1) + 1 = Y /\ S..(e - 1) \in SUBSET Int
        BY <1>0, <2>0, <2>6
      <4>2. Numbers(h, S..(e - 1))
        BY <1>3, <4>1
      <4>3. SumOver(h, S..(e - 1)) =
              SumOver(h, S..(Y - 1)) + SumOver(h, ((Y - 1) + 1)..(e - 1))
        BY <1>0, <4>1, <4>2, SumSplit
      <4>. QED  BY <4>1, <4>3
    <3>6. SumOver(f, 1..j) = SumOver(h, S..(X(j) - 1))
      BY <2>2, <2>3, <2>4, <3>1, <3>3, <3>4, <3>5
    <3>. QED  BY <1>0, <2>0, <3>6 DEF G, j
  <2>7. CASE e <= Y
    <3>1. X(j) = Y
      BY <1>0, <2>0, <2>5, <2>7 DEF Larger, Y
    <3>2. f[j] = 0
      <4>1. Positive(e - Y) = 0
        BY <2>0, <2>7 DEF Positive
      <4>2. \A x \in Int : x * 0 = 0
        OBVIOUS
      <4>. QED  BY <2>0, <2>2, <4>1, <4>2
    <3>3. SumOver(h, S..(Y - 1)) \in Int
      <4>1. Y - 1 \in Int /\ S..(Y - 1) \in SUBSET Int
        BY <1>0, <2>0
      <4>. QED  BY <1>0, <1>3, <4>1, SumOfInterval
    <3>4. SumOver(f, 1..j) = SumOver(h, S..(X(j) - 1))
      BY <2>3, <2>4, <3>1, <3>2, <3>3
    <3>. QED  BY <1>0, <2>0, <3>4 DEF G, j
  <2>. QED  BY <2>0, <2>6, <2>7
<1>8. X(n) = now
  <2>1. EndOf(s, n) = now
    BY <1>0 DEF EndOf, n
  <2>. QED  BY <1>0, <2>1 DEF Larger
<1>. HIDE DEF X, G
<1>9. n \in G
  <2>1. 0 \in Int /\ n \in Int /\ n \in 0..n
    BY <1>0
  <2>. QED  BY <1>6, <1>7, <2>1, Upwards
<1>10. SumOver(f, 1..n) = SumOver(h, S..(now - 1))
  BY <1>8, <1>9 DEF G
<1>11. Average(s) = [energy |-> SumOver(f, DOMAIN s), covered |-> now - S]
  BY AverageIsSum DEF f, S
<1>. QED  BY <1>0, <1>10, <1>11 DEF h, S

-----------------------------------------------------------------------------
(* A sample.                                                                *)
LEMMA ExportIsANumber ==
  ASSUME NEW r \in Flows, now \in Nat
  PROVE  Export(r) \in Nat /\ Entry(r) \in Entries
<1>1. r.grid \in Int
  BY MonitorAssumption
<1>2. Export(r) \in Nat
  BY <1>1 DEF Export, Positive
<1>. QED  BY <1>2 DEF Entry, Entries

LEMMA LogGrows ==
  ASSUME InOrder(log, now), NEW r \in Flows
  PROVE  InOrder(Append(log, Entry(r)), now)
<1>. DEFINE m == Append(log, Entry(r))
            n == Len(log)
<1>0. /\ now \in Nat /\ n \in Nat /\ log \in Seq(Entries)
      /\ \A i \in 1..n : log[i].at \in Nat /\ log[i].at <= now
  BY InLog DEF InOrder
<1>1. Entry(r) \in Entries /\ Entry(r).at = now
  BY <1>0, ExportIsANumber DEF Entry
<1>2. /\ m \in Seq(Entries) /\ Len(m) = n + 1 /\ m[n + 1] = Entry(r)
      /\ \A i \in 1..n : m[i] = log[i]
  BY <1>0, <1>1
<1>. HIDE DEF m
<1>3. ASSUME NEW i \in 1..(n + 1) PROVE m[i].at \in Nat /\ m[i].at <= now
  <2>1. CASE i = n + 1
    BY <1>0, <1>1, <1>2, <2>1
  <2>2. CASE i # n + 1
    <3>1. i \in 1..n
      BY <1>0, <2>2
    <3>. QED  BY <1>0, <1>2, <3>1
  <2>. QED  BY <2>1, <2>2
<1>4. ASSUME NEW i \in 1..(n + 1), NEW j \in 1..(n + 1), i <= j
      PROVE  m[i].at <= m[j].at
  <2>1. CASE j = n + 1
    BY <1>1, <1>2, <1>3, <2>1
  <2>2. CASE j # n + 1
    <3>1. i \in 1..n /\ j \in 1..n
      BY <1>0, <1>4, <2>2
    <3>2. log[i].at <= log[j].at
      BY <1>4, <3>1 DEF InOrder
    <3>. QED  BY <1>2, <3>1, <3>2
  <2>. QED  BY <2>1, <2>2
<1>5. \A i \in 1..Len(m) : m[i].at <= now
  BY <1>2, <1>3
<1>6. \A i, j \in 1..Len(m) : i <= j => m[i].at <= m[j].at
  BY <1>2, <1>4
<1>. QED  BY <1>0, <1>2, <1>5, <1>6 DEF InOrder, m

(* What the tracker drops is older than one that is as old as the window.        *)
LEMMA KeptEnds ==
  ASSUME InOrder(log, now), Ends(samples, log, now), NEW r \in Flows,
         NEW s, s = Kept(Append(samples, [at |-> now, export |-> Export(r)]))
  PROVE  Ends(s, Append(log, Entry(r)), now)
<1>. DEFINE R == [at : Nat, export : Nat]
            e == [at |-> now, export |-> Export(r)]
            a == Append(samples, e)
            m == Append(log, Entry(r))
            n == Len(samples)
            L == Len(log)
            old == {i \in DOMAIN a : a[i].at <= now - Window}
<1>0. /\ now \in Nat /\ L \in Nat /\ n \in 0..L /\ samples \in Seq(R)
      /\ Window \in Nat \ {0} /\ (L > 0 => n > 0)
      /\ \A i \in 1..n : /\ samples[i].at = log[L - n + i].at
                         /\ samples[i].export = log[L - n + i].export
      /\ n < L => samples[1].at <= now - Window
  BY InLog, MonitorAssumption DEF InOrder, Ends
<1>1. /\ e \in R /\ e.at = now /\ e.export = Export(r)
      /\ Entry(r).at = now /\ Entry(r).export = Export(r) /\ Entry(r) \in Entries
      /\ log \in Seq(Entries)
  BY <1>0, ExportIsANumber DEF Entry, InOrder
<1>. HIDE DEF R, e
<1>2. /\ a \in Seq(R) /\ Len(a) = n + 1 /\ DOMAIN a = 1..(n + 1)
      /\ a[n + 1] = e /\ \A i \in 1..n : a[i] = samples[i]
  BY <1>0, <1>1
<1>3. /\ Len(m) = L + 1 /\ m[L + 1] = Entry(r)
      /\ \A i \in 1..L : m[i] = log[i]
  BY <1>0, <1>1
<1>. HIDE DEF a, m
<1>4. ASSUME NEW i \in 1..(n + 1)
      PROVE  a[i].at = m[L - n + i].at /\ a[i].export = m[L - n + i].export
  <2>1. CASE i = n + 1
    <3>1. L - n + i = L + 1
      BY <1>0, <2>1
    <3>. QED  BY <1>1, <1>2, <1>3, <2>1, <3>1
  <2>2. CASE i # n + 1
    <3>1. i \in 1..n /\ L - n + i \in 1..L
      BY <1>0, <2>2
    <3>. QED  BY <1>0, <1>2, <1>3, <3>1
  <2>. QED  BY <2>1, <2>2
<1>5. s = IF old = {} THEN a ELSE SubSeq(a, Max(old), Len(a))
  BY DEF Kept, a, e
<1>6. CASE old = {}
  <2>1. s = a
    BY <1>5, <1>6
  <2>2. L = n
    <3>1. SUFFICES ASSUME n < L PROVE FALSE
      BY <1>0
    <3>2. 1 \in 1..n /\ 1 \in 1..(n + 1) /\ a[1].at <= now - Window
      BY <1>0, <1>2, <3>1
    <3>3. 1 \in old
      BY <1>2, <3>2
    <3>. QED  BY <1>6, <3>3
  <2>a. Len(s) = L + 1 /\ Len(m) = L + 1 /\ s \in Seq(R) /\ L \in Nat /\ n = L
    BY <1>0, <1>2, <1>3, <2>1, <2>2
  <2>. HIDE DEF L, n
  <2>3. /\ Len(s) \in 0..Len(m) /\ Len(s) > 0 /\ ~(Len(s) < Len(m)) /\ s \in Seq(R)
        /\ \A i \in 1..Len(s) : Len(m) - Len(s) + i = L - n + i
    BY <2>a
  <2>4. \A i \in 1..Len(s) : /\ s[i].at = m[Len(m) - Len(s) + i].at
                             /\ s[i].export = m[Len(m) - Len(s) + i].export
    BY <1>2, <1>4, <2>1, <2>3
  <2>5. Ends(s, m, now)
    BY <2>3, <2>4 DEF Ends, R
  <2>. QED  BY <2>5 DEF m
<1>7. CASE old # {}
  <2>. DEFINE x == Max(old)
  <2>1. old \subseteq 1..(n + 1)
    BY <1>2
  <2>2. \E y \in old : \A z \in old : y >= z
    <3>. HIDE DEF old
    <3>1. 1 \in Int /\ n + 1 \in Int
      BY <1>0
    <3>. QED  BY <1>7, <2>1, <3>1, Greatest
  <2>3. x \in old
    BY <2>2 DEF Max
  <2>4. a[x].at <= now - Window /\ x \in 1..(n + 1)
    BY <2>1, <2>3
  <2>5. s = SubSeq(a, x, n + 1)
    BY <1>2, <1>5, <1>7
  <2>. HIDE DEF x, old
  <2>6. /\ s \in Seq(R) /\ Len(s) = n + 2 - x
        /\ \A i \in 1..(n + 2 - x) : s[i] = a[x + i - 1]
    <3>1. x \in Int /\ n + 1 \in Int /\ x <= n + 1 /\ (n + 1) - x + 1 = n + 2 - x
      BY <1>0, <2>4
    <3>2. \A i \in x..(n + 1) : a[i] \in R
      <4>1. \A i \in x..(n + 1) : i \in 1..Len(a)
        BY <1>0, <1>2, <2>4
      <4>. QED  BY <1>2, <4>1, ElementOfSeq
    <3>3. /\ s \in Seq(R) /\ Len(s) = (n + 1) - x + 1
          /\ \A i \in 1..((n + 1) - x + 1) : s[i] = a[x + i - 1]
      <4>1. \A i \in 1..((n + 1) - x + 1) : SubSeq(a, x, n + 1)[i] = a[x + i - 1]
        BY <3>1, <3>2, SubSeqProperties
      <4>2. SubSeq(a, x, n + 1) \in Seq(R) /\ Len(SubSeq(a, x, n + 1)) = (n + 1) - x + 1
        BY <3>1, <3>2, SubSeqProperties
      <4>. QED  BY <2>5, <4>1, <4>2
    <3>. QED  BY <3>1, <3>3
  <2>7. /\ Len(s) \in 0..Len(m) /\ Len(s) > 0 /\ 1 \in 1..(n + 2 - x)
        /\ x + 1 - 1 = x
    BY <1>0, <1>3, <2>4, <2>6
  <2>8. ASSUME NEW i \in 1..Len(s)
        PROVE  /\ s[i].at = m[Len(m) - Len(s) + i].at
               /\ s[i].export = m[Len(m) - Len(s) + i].export
    <3>1. /\ i \in 1..(n + 2 - x) /\ x + i - 1 \in 1..(n + 1)
          /\ L - n + (x + i - 1) = Len(m) - Len(s) + i
      <4>1. Len(s) = n + 2 - x /\ Len(m) = L + 1 /\ L \in Nat /\ n \in 0..L
        BY <1>0, <1>3, <2>6
      <4>. HIDE DEF L, n
      <4>2. x \in 1..(n + 1) /\ i \in 1..(n + 2 - x)
        BY <2>4, <4>1 DEF n
      <4>. QED  BY <4>1, <4>2
    <3>. QED  BY <1>4, <2>6, <3>1
  <2>9. s[1].at <= now - Window
    BY <2>4, <2>6, <2>7
  <2>10. Ends(s, m, now)
    BY <2>6, <2>7, <2>8, <2>9 DEF Ends, R
  <2>. QED  BY <2>10 DEF m
<1>. QED  BY <1>6, <1>7

-----------------------------------------------------------------------------
(* Quarters.                                                                *)
LEMMA QuarterIs ==
  ASSUME NEW t \in Nat
  PROVE  /\ QuarterStart(t) \in 0..t /\ t < QuarterStart(t) + Quarter
         /\ \A x \in Nat : QuarterStart(t) <= x /\ x <= t =>
              QuarterStart(x) = QuarterStart(t)
<1>0. Quarter \in Nat \ {0}
  BY MonitorAssumption
<1>1. \A D \in Nat \ {0}, y \in Nat :
        y % D \in 0..(D - 1) /\ y \div D \in Nat /\ y = D * (y \div D) + (y % D)
  OBVIOUS
<1>a. \A x, y \in Nat : x * y \in Nat
  OBVIOUS
<1>2. \A D \in Nat \ {0} : \A q \in Int, r \in 0..(D - 1) : (D * q + r) % D = r
  OBVIOUS
<1>3. /\ t % Quarter \in 0..(Quarter - 1) /\ t % Quarter <= t
      /\ QuarterStart(t) = t - (t % Quarter)
      /\ t - (t % Quarter) = Quarter * (t \div Quarter) /\ t \div Quarter \in Nat
  <2>. DEFINE m == t % Quarter
              p == Quarter * (t \div Quarter)
  <2>1. m \in 0..(Quarter - 1) /\ t \div Quarter \in Nat /\ t = p + m /\ p \in Nat
    BY <1>0, <1>1, <1>a
  <2>2. QuarterStart(t) = t - m
    BY DEF QuarterStart
  <2>. HIDE DEF m, p
  <2>3. m <= t /\ t - m = p
    BY <1>0, <2>1
  <2>. QED  BY <2>1, <2>2, <2>3 DEF m, p
<1>4. QuarterStart(t) \in 0..t /\ t < QuarterStart(t) + Quarter
  BY <1>0, <1>3
<1>5. ASSUME NEW x \in Nat, QuarterStart(t) <= x, x <= t
      PROVE  QuarterStart(x) = QuarterStart(t)
  <2>. DEFINE q == t \div Quarter
              p == Quarter * q
  <2>1. QuarterStart(t) = p /\ p \in Nat /\ q \in Int
    BY <1>0, <1>3, <1>4
  <2>2. x - p \in 0..(Quarter - 1)
    BY <1>0, <1>4, <1>5, <2>1
  <2>3. (p + (x - p)) % Quarter = x - p
    BY <1>0, <1>2, <2>1, <2>2
  <2>. HIDE DEF p
  <2>4. p + (x - p) = x
    BY <2>1
  <2>5. QuarterStart(x) = x - (x - p)
    BY <2>3, <2>4 DEF QuarterStart
  <2>. QED  BY <2>1, <2>5
<1>. QED  BY <1>4, <1>5

(* What was exported before a sample is the same with the sample.               *)
LEMMA SumStays ==
  ASSUME InOrder(log, now), NEW r \in Flows, NEW a \in Int
  PROVE  SumOver(Curve(Append(log, Entry(r))), a..(now - 1))
           = SumOver(Curve(log), a..(now - 1))
<1>. DEFINE f == Curve(Append(log, Entry(r)))
            h == Curve(log)
<1>0. now \in Nat /\ Entry(r) \in Entries /\ Entry(r).at = now
  BY ExportIsANumber DEF InOrder, Entry
<1>1. ASSUME NEW x \in a..(now - 1) PROVE f[x] = h[x]
  <2>1. x \in Int /\ x < now
    BY <1>0
  <2>2. ExportIn(Append(log, Entry(r)), x) = ExportIn(log, x)
    BY <1>0, <2>1, CurveStays
  <2>. QED  BY <2>1, <2>2 DEF Curve
<1>. HIDE DEF f, h
<1>2. SumOver(f, a..(now - 1)) = SumOver(h, a..(now - 1))
  BY <1>1, SumSame
<1>. QED  BY <1>2 DEF f, h

(* A stretch in which the last sample stands.                                 *)
LEMMA LastStretch ==
  ASSUME InOrder(log, now), Len(log) > 0, NEW a \in Int, NEW b, b = log[Len(log)].at,
         b <= a, a <= now
  PROVE  SumOver(Curve(log), a..(now - 1)) = log[Len(log)].export * (now - a)
<1>. DEFINE h == Curve(log)
            c == log[Len(log)].export
<1>0. /\ now \in Nat /\ Len(log) \in 1..Len(log) /\ c \in Int
  BY InLog DEF InOrder
<1>1. ASSUME NEW x \in a..(now - 1) PROVE h[x] = c
  <2>1. x \in Int /\ log[Len(log)].at <= x
    <3>1. log[Len(log)].at \in Int
      BY <1>0, InLog
    <3>. QED  BY <1>0, <3>1
  <2>2. ExportIn(log, x) = c
    BY <1>0, <2>1, CurveIs
  <2>. QED  BY <2>1, <2>2 DEF Curve
<1>. HIDE DEF h, c
<1>2. now - 1 \in Int /\ a <= (now - 1) + 1 /\ (now - 1) + 1 = now
  BY <1>0
<1>3. SumOver(h, a..(now - 1)) = c * ((now - 1) + 1 - a)
  BY <1>0, <1>1, <1>2, SumConstant
<1>4. (now - 1) + 1 - a = now - a
  BY <1>2
<1>. QED  BY <1>3, <1>4 DEF h, c

LEMMA QuarterStep ==
  ASSUME InOrder(log, now), Quartered(fixed, log), NEW r \in Flows,
         NEW q, q = [start |-> QuarterStart(now), used |-> Used, at |-> now,
                     export |-> Export(r)]
  PROVE  Quartered(q, Append(log, Entry(r)))
<1>. DEFINE m == Append(log, Entry(r))
            h == Curve(log)
            S == QuarterStart(now)
            L == Len(log)
<1>0. now \in Nat /\ L \in Nat
  BY InLog DEF InOrder
<1>1. S \in Int /\ S \in Nat /\ S <= now
  BY <1>0, QuarterIs
<1>2. SumOver(Curve(m), S..(now - 1)) = SumOver(h, S..(now - 1))
  BY <1>1, SumStays
<1>3. Len(m) = L + 1 /\ m[L + 1].at = now /\ m[L + 1].export = Export(r)
  BY <1>0 DEF Entry, InOrder
<1>4. \A x \in Int : h[x] = ExportIn(log, x) /\ h[x] \in Nat
  BY <1>0, CurveIsANumber DEF Curve
<1>. HIDE DEF m, h, S
<1>5. Used = SumOver(h, S..(now - 1))
  <2>1. CASE L = 0
    <3>1. \A x \in S..(now - 1) : h[x] = 0
      BY <1>0, <1>1, <1>4, <2>1, CurveBefore
    <3>2. now - 1 \in Int /\ S <= (now - 1) + 1 /\ (now - 1) + 1 - S \in Int
      BY <1>0, <1>1
    <3>3. \A z \in Int : z = 0 => SumOver(h, S..(now - 1)) = z * ((now - 1) + 1 - S)
      BY <1>1, <3>1, <3>2, SumConstant
    <3>4. \A z, x \in Int : z = 0 => z * x = 0
      OBVIOUS
    <3>5. Used = 0
      BY <2>1 DEF Used, Quartered
    <3>. QED  BY <3>2, <3>3, <3>4, <3>5
  <2>2. CASE L # 0
    <3>. DEFINE b == log[L].at
                c == log[L].export
    <3>1. L > 0 /\ L \in 1..L /\ b \in Nat /\ b <= now /\ c \in Nat
      BY <1>0, <2>2, InLog
    <3>2. /\ fixed.at = b /\ fixed.export = c /\ fixed.start = QuarterStart(b)
          /\ fixed.used = SumOver(h, fixed.start..(b - 1))
      BY <2>2, <3>1 DEF Quartered, h
    <3>3. fixed.at # Never
      BY <3>1, <3>2 DEF Never
    <3>. HIDE DEF b, c
    <3>4. CASE fixed.start = S
      <4>1. Used = fixed.used + c * (now - b)
        BY <3>2, <3>3, <3>4 DEF Used, S
      <4>2. SumOver(h, b..(now - 1)) = c * (now - b)
        BY <3>1, LastStretch DEF h, b, c
      <4>3. S <= b
        <5>1. QuarterStart(b) \in 0..b
          BY <3>1, QuarterIs
        <5>. QED  BY <3>1, <3>2, <3>4, <5>1
      <4>4. SumOver(h, S..(now - 1)) = SumOver(h, S..(b - 1)) + SumOver(h, b..(now - 1))
        <5>1. /\ b - 1 \in Int /\ now - 1 \in Int /\ S <= (b - 1) + 1 /\ b - 1 <= now - 1
              /\ (b - 1) + 1 = b
          BY <1>0, <1>1, <3>1, <4>3
        <5>2. Numbers(h, S..(now - 1))
          BY <1>0, <1>1, <1>4 DEF Numbers
        <5>3. SumOver(h, S..(now - 1)) =
                SumOver(h, S..(b - 1)) + SumOver(h, ((b - 1) + 1)..(now - 1))
          BY <1>1, <5>1, <5>2, SumSplit
        <5>. QED  BY <5>1, <5>3
      <4>. QED  BY <3>2, <3>4, <4>1, <4>2, <4>4
    <3>5. CASE fixed.start # S
      <4>1. Used = c * (now - S)
        BY <3>2, <3>3, <3>5 DEF Used, S
      <4>2. b < S
        <5>1. SUFFICES ASSUME S <= b PROVE FALSE
          BY <1>1, <3>1
        <5>2. QuarterStart(b) = S
          BY <1>0, <3>1, <5>1, QuarterIs DEF S
        <5>. QED  BY <3>2, <3>5, <5>2
      <4>3. SumOver(h, S..(now - 1)) = c * (now - S)
        <5>1. b <= S
          BY <1>1, <3>1, <4>2
        <5>. QED  BY <1>1, <3>1, <5>1, LastStretch DEF h, b, c
      <4>. QED  BY <4>1, <4>3
    <3>. QED  BY <3>4, <3>5
  <2>. QED  BY <2>1, <2>2
<1>6. /\ q.at = now /\ q.export = Export(r) /\ q.start = S /\ q.used = Used
      /\ Len(m) > 0 /\ Len(m) # 0
  BY <1>0, <1>3 DEF S
<1>7. Quartered(q, m)
  BY <1>1, <1>2, <1>3, <1>5, <1>6 DEF Quartered, S
<1>. QED  BY <1>7 DEF m

(* The budget is a power up to the target; exported for the rest of the quarter, it *)
(* fills the quarter and no more.                                           *)
LEMMA BudgetIs ==
  ASSUME now \in Nat, NEW q, q.used \in Int, q.start \in Int
  PROVE  /\ Budget(q) \in 0..Target
         /\ now < q.start + Quarter =>
              q.used + Budget(q) * (q.start + Quarter - now)
                <= Larger(q.used, Target * Quarter)
<1>. DEFINE w == q.start + Quarter - now
            T == Target * Quarter
            left == Positive(T - q.used)
<1>0. Quarter \in Nat \ {0} /\ Target \in Nat /\ w \in Int
  BY MonitorAssumption
<1>1. T \in Int
  BY <1>0
<1>. HIDE DEF T
<1>2. left \in Nat /\ (left > 0 => left = T - q.used)
  BY <1>1 DEF Positive
<1>3. Budget(q) = IF Positive(w) = 0 THEN 0 ELSE Smaller(left \div Positive(w), Target)
  BY DEF Budget, T
<1>. HIDE DEF w, left
<1>4. Positive(w) \in Nat /\ (w > 0 => Positive(w) = w)
  BY <1>0 DEF Positive
<1>5. \A x \in Nat, y \in Nat \ {0} : x \div y \in Nat /\ (x \div y) * y <= x
  OBVIOUS
<1>6. Budget(q) \in 0..Target
  <2>1. CASE Positive(w) = 0
    BY <1>0, <1>3, <2>1
  <2>2. CASE Positive(w) # 0
    <3>1. left \div Positive(w) \in Nat
      BY <1>2, <1>4, <1>5, <2>2
    <3>. QED  BY <1>0, <1>3, <2>2, <3>1 DEF Smaller
  <2>. QED  BY <2>1, <2>2
<1>7. ASSUME w > 0 PROVE q.used + Budget(q) * w <= Larger(q.used, T)
  <2>1. Positive(w) = w /\ w \in Nat \ {0}
    BY <1>0, <1>4, <1>7
  <2>2. left \div w \in Nat /\ (left \div w) * w <= left
    BY <1>2, <1>5, <2>1
  <2>3. Budget(q) <= left \div w /\ Budget(q) \in Nat
    BY <1>0, <1>3, <2>1, <2>2, <1>6 DEF Smaller
  <2>4. Budget(q) * w <= (left \div w) * w /\ Budget(q) * w \in Int
    <3>1. \A x, y \in Nat, z \in Nat : x <= y => x * z <= y * z /\ x * z \in Int
      OBVIOUS
    <3>. QED  BY <2>1, <2>2, <2>3, <3>1
  <2>5. (left \div w) * w \in Int
    BY <2>1, <2>2
  <2>6. Budget(q) * w <= left
    BY <1>2, <2>2, <2>4, <2>5
  <2>. DEFINE bw == Budget(q) * w
  <2>7. bw \in Int /\ bw <= left
    BY <2>4, <2>6
  <2>. HIDE DEF bw
  <2>8. q.used + bw <= Larger(q.used, T)
    BY <1>1, <1>2, <2>7 DEF Larger
  <2>. QED  BY <2>8 DEF bw
<1>8. now < q.start + Quarter => w > 0
  BY <1>0 DEF w
<1>. QED  BY <1>6, <1>7, <1>8 DEF w, T

-----------------------------------------------------------------------------
(* The same of the next state.                                              *)
LEMMA EnergyNow ==
  \A a \in Int : now \in Int => EnergySince(a) = SumOver(Curve(log), a..(now - 1))
BY EnergyIs

LEMMA EnergyNext ==
  \A a \in Int : now' \in Int =>
    EnergySince(a)' = SumOver(Curve(log'), a..(now' - 1))
<1>1. (\A a \in Int : now \in Int =>
         EnergySince(a) = SumOver(Curve(log), a..(now - 1)))'
  BY EnergyNow, PTL
<1>. QED  BY <1>1

(* The figures that a sample shows are those of the export.                  *)
LEMMA AverageStep ==
  ASSUME now \in Nat, now' = now, NEW r \in Flows,
         InOrder(log', now), Ends(samples', log', now), Len(log') > 0,
         shown'.average = Average(samples'),
         shown'.limit = LimitState(Average(samples'), r)
  PROVE  AverageIsExact'
<1>. DEFINE S == Larger(log'[1].at, now - Window)
            E == SumOver(Curve(log'), S..(now - 1))
            V == "EXPORT_AVERAGE_LIMIT_VIOLATION"
<1>1. StartOf(samples') = S /\ S \in Int
  BY EndsKnow
<1>2. Average(samples') = [energy |-> E, covered |-> now - S]
  BY <1>1, PiecesAddUp
<1>3. /\ EnergySince(Larger(log[1].at, now - Window))' = E
      /\ Larger(log[1].at, now - Window)' = S
  <2>1. Larger(log[1].at, now - Window)' = S
    BY DEF Larger
  <2>2. Larger(log[1].at, now - Window)' \in Int /\ now' \in Int
    BY <1>1, <2>1
  <2>3. EnergySince(Larger(log[1].at, now - Window))'
          = SumOver(Curve(log'), S..(now' - 1))
    BY <2>1, <2>2, EnergyNext
  <2>. QED  BY <2>1, <2>3
<1>4. /\ shown'.average = [energy |-> E, covered |-> now - S]
      /\ shown'.limit = V <=> E > Legal * (now - S)
  <2>. HIDE DEF E, S
  <2>. QED  BY <1>2 DEF LimitState
<1>. HIDE DEF E, S
<1>. QED  BY <1>3, <1>4 DEF AverageIsExact

LEMMA FigureSample ==
  ASSUME FigureInv, NEW r \in Flows, Sample(r)
  PROVE  FigureInv'
<1>. DEFINE S == QuarterStart(now)
<1>0. /\ now \in Nat /\ now \in 0..MaxTime /\ now' = now
      /\ InOrder(log, now) /\ Ends(samples, log, now) /\ Quartered(fixed, log)
      /\ Len(log) \in Nat /\ MaxTime \in Nat
  BY InLog, MonitorAssumption DEF FigureInv, Sample, InOrder
<1>1. /\ log' = Append(log, Entry(r)) /\ Len(log) < MaxSamples
      /\ samples' = Kept(Append(samples, [at |-> now, export |-> Export(r)]))
      /\ fixed' = [start |-> S, used |-> Used, at |-> now, export |-> Export(r)]
      /\ shown'.valid = TRUE /\ {"valid", "violations", "budget"} \subseteq DOMAIN shown'
      /\ shown'.violations = Lasting(r) \ {"IMPORT_WARNING"}
      /\ shown'.average = Average(samples')
      /\ shown'.limit = LimitState(Average(samples'), r)
      /\ shown'.budget = Budget(fixed')
      /\ count' = [c \in Conditions |->
                     count[c] + IF c \in Lasting(r) \ confirmed THEN 1 ELSE 0]
  BY DEF Sample, Entry, Debounce
<1>2. Len(log') = Len(log) + 1 /\ Len(log') > 0 /\ Len(log') <= MaxSamples
  BY <1>0, <1>1, MonitorAssumption DEF InOrder
<1>3. InOrder(log', now)
  BY <1>0, <1>1, LogGrows
<1>4. Ends(samples', log', now)
  BY <1>0, <1>1, KeptEnds
<1>5. Quartered(fixed', log')
  BY <1>0, <1>1, QuarterStep
<1>6. AverageIsExact'
  BY <1>0, <1>1, <1>2, <1>3, <1>4, AverageStep
<1>7. S \in Int /\ now < S + Quarter
  BY <1>0, QuarterIs
<1>8. /\ fixed'.start = S /\ fixed'.at = now
      /\ fixed'.used = SumOver(Curve(log'), S..(now - 1))
  BY <1>1, <1>2, <1>5 DEF Quartered
<1>9. fixed'.used \in Int
  <2>1. \A x \in S..(now - 1) : Curve(log')[x] \in Int
    BY <1>0, <1>3, <1>7, CurveIsANumber DEF Curve
  <2>2. Numbers(Curve(log'), S..(now - 1)) /\ now - 1 \in Int
    BY <1>0, <2>1 DEF Numbers
  <2>. QED  BY <1>7, <1>8, <2>2, SumOfInterval
<1>10. /\ Budget(fixed') \in 0..Target
       /\ fixed'.used + Budget(fixed') * (S + Quarter - now)
            <= Larger(fixed'.used, Target * Quarter)
  BY <1>0, <1>7, <1>8, <1>9, BudgetIs
<1>11. EnergySince(QuarterStart(now))' = fixed'.used /\ QuarterStart(now)' = S
  <2>1. QuarterStart(now)' = S
    BY <1>0 DEF QuarterStart
  <2>2. EnergySince(QuarterStart(now))' = SumOver(Curve(log'), S..(now' - 1))
    <3>1. QuarterStart(now)' \in Int /\ now' \in Int
      BY <1>0, <1>7, <2>1
    <3>. QED  BY <2>1, <3>1, EnergyNext
  <2>. QED  BY <1>0, <1>8, <2>1, <2>2
<1>12. QuarterIsExact'
  BY <1>0, <1>1, <1>10, <1>11 DEF QuarterIsExact
<1>13. \A c \in Conditions : count'[c] \in 0..Len(log')
  <2>1. \A c \in Conditions : count[c] \in 0..Len(log)
    BY DEF FigureInv
  <2>. QED  BY <1>0, <1>1, <1>2, <2>1
<1>14. shown'.violations \subseteq Conditions /\ shown'.budget \in 0..Target
  BY <1>1, <1>10 DEF Lasting
<1>. QED
  BY <1>0, <1>1, <1>2, <1>3, <1>4, <1>5, <1>6, <1>12, <1>13, <1>14 DEF FigureInv

(* Time that passes takes the last sample away from the present.               *)
LEMMA FigureTick ==
  ASSUME FigureInv, Tick
  PROVE  FigureInv'
<1>0. /\ now \in Nat /\ now < MaxTime /\ now' = now + 1 /\ MaxTime \in Nat
      /\ UNCHANGED <<since, confirmed, count, samples, fixed, shown, log>>
      /\ InOrder(log, now) /\ Ends(samples, log, now)
  BY MonitorAssumption DEF FigureInv, Tick, InOrder
<1>1. InOrder(log, now')
  <2>1. \A i \in 1..Len(log) : log[i].at \in Nat /\ log[i].at <= now
    BY <1>0, InLog
  <2>2. \A i \in 1..Len(log) : log[i].at <= now'
    BY <1>0, <2>1
  <2>. QED  BY <1>0, <2>2 DEF InOrder
<1>2. Ends(samples, log, now')
  <2>1. Len(samples) < Len(log) => samples[1].at <= now' - Window
    <3>1. SUFFICES ASSUME Len(samples) < Len(log) PROVE samples[1].at <= now' - Window
      OBVIOUS
    <3>2. Len(log) \in Nat /\ Len(samples) \in Nat /\ Len(log) > 0
      BY <1>0, <3>1, InLog DEF Ends
    <3>3. samples[1].at \in Int
      BY <1>0, <3>2, EndsKnow
    <3>4. samples[1].at <= now - Window
      BY <1>0, <3>1 DEF Ends
    <3>. QED  BY <1>0, <3>3, <3>4, MonitorAssumption
  <2>. QED  BY <1>0, <2>1 DEF Ends
<1>3. ASSUME shown.valid
      PROVE  samples[Len(samples)].at # now' /\ fixed.at # now'
  <2>1. Len(log) > 0
    BY <1>3 DEF FigureInv
  <2>2. Len(log) \in Nat /\ log[Len(log)].at \in Nat /\ log[Len(log)].at <= now
    <3>1. Len(log) \in Nat
      BY <1>0, InLog
    <3>2. Len(log) \in 1..Len(log)
      BY <2>1, <3>1
    <3>. QED  BY <1>0, <3>1, <3>2, InLog
  <2>3. samples[Len(samples)].at = log[Len(log)].at
    BY <1>0, <2>1, EndsKnow
  <2>4. fixed.at = log[Len(log)].at
    BY <2>1 DEF FigureInv, Quartered
  <2>. QED  BY <1>0, <2>2, <2>3, <2>4
<1>4. AverageIsExact' /\ QuarterIsExact'
  BY <1>0, <1>3 DEF AverageIsExact, QuarterIsExact
<1>. QED  BY <1>0, <1>1, <1>2, <1>4 DEF FigureInv

LEMMA FigureQuiet ==
  ASSUME FigureInv, Invalid \/ UNCHANGED flowVars
  PROVE  FigureInv'
<1>1. CASE Invalid
  <2>1. /\ UNCHANGED <<now, count, samples, fixed, log>>
        /\ ~shown'.valid /\ DOMAIN shown' = DOMAIN shown
        /\ shown'.violations = {} /\ shown'.budget = Budget(fixed)
    BY <1>1 DEF Invalid, FigureInv
  <2>2. now \in Nat /\ fixed.start \in Int /\ fixed.used \in Int
    <3>1. now \in Nat /\ InOrder(log, now) /\ Quartered(fixed, log)
      BY DEF FigureInv, InOrder
    <3>2. Len(log) \in Nat
      BY <3>1, InLog
    <3>3. CASE Len(log) = 0
      BY <3>1, <3>3 DEF Quartered
    <3>4. CASE Len(log) # 0
      <4>1. Len(log) \in 1..Len(log) /\ Len(log) > 0
        BY <3>2, <3>4
      <4>2. fixed.at \in Int
        BY <3>1, <4>1, InLog DEF Quartered
      <4>3. Numbers(Curve(log), fixed.start..(fixed.at - 1))
        BY <3>1, <4>2, CurveIsANumber DEF Curve, Numbers, Quartered
      <4>4. fixed.start \in Int /\ fixed.at - 1 \in Int
            /\ fixed.used = SumOver(Curve(log), fixed.start..(fixed.at - 1))
        BY <3>1, <3>4, <4>2 DEF Quartered
      <4>. QED  BY <3>1, <4>3, <4>4, SumOfInterval
    <3>. QED  BY <3>3, <3>4
  <2>3. shown'.budget \in 0..Target
    BY <2>1, <2>2, BudgetIs
  <2>4. AverageIsExact' /\ QuarterIsExact'
    BY <2>1 DEF AverageIsExact, QuarterIsExact
  <2>5. InOrder(log, now) /\ Ends(samples, log, now) /\ Quartered(fixed, log)
    BY DEF FigureInv
  <2>. QED  BY <2>1, <2>3, <2>4, <2>5 DEF FigureInv
<1>2. CASE UNCHANGED flowVars
  <2>1. AverageIsExact' /\ QuarterIsExact'
    <3>1. /\ UNCHANGED <<now, samples, fixed, shown, log>>
          /\ AverageIsExact /\ QuarterIsExact
      BY <1>2 DEF flowVars, FigureInv
    <3>2. now \in Nat /\ InOrder(log, now) /\ Ends(samples, log, now)
      BY DEF FigureInv, InOrder
    <3>3. \A a \in Int : EnergySince(a)' = EnergySince(a)
      BY <3>1, <3>2, EnergyNow, EnergyNext
    <3>4. QuarterStart(now) \in Int /\ QuarterStart(now)' = QuarterStart(now)
      BY <3>1, <3>2, QuarterIs DEF QuarterStart
    <3>5. shown.valid => Larger(log[1].at, now - Window) \in Int
      BY <3>2, EndsKnow DEF FigureInv
    <3>6. AverageIsExact'
      BY <3>1, <3>3, <3>5 DEF AverageIsExact
    <3>7. QuarterIsExact'
      BY <3>1, <3>3, <3>4 DEF QuarterIsExact
    <3>. QED  BY <3>6, <3>7
  <2>. QED  BY <1>2, <2>1 DEF flowVars, FigureInv
<1>. QED  BY <1>1, <1>2

LEMMA FigureInitial == FlowInit => FigureInv
<1>. SUFFICES ASSUME FlowInit PROVE FigureInv
  OBVIOUS
<1>1. /\ now = 0 /\ log = <<>> /\ samples = <<>> /\ Len(log) = 0 /\ Len(samples) = 0
      /\ fixed = [start |-> 0, used |-> 0, at |-> Never, export |-> 0]
      /\ ~shown.valid /\ shown.violations = {} /\ shown.budget = Target
      /\ {"valid", "violations", "budget"} \subseteq DOMAIN shown
      /\ count = [c \in Conditions |-> 0]
  BY DEF FlowInit
<1>2. InOrder(log, now) /\ Ends(samples, log, now) /\ Quartered(fixed, log)
  BY <1>1 DEF InOrder, Ends, Quartered
<1>3. AverageIsExact /\ QuarterIsExact
  BY <1>1 DEF AverageIsExact, QuarterIsExact
<1>. QED  BY <1>1, <1>2, <1>3, MonitorAssumption DEF FigureInv

(* The types of the rest follow from the clocks and from what is told.          *)
LEMMA FiguresKnown == FlowInv /\ FigureInv => FiguresAreExact
<1>. SUFFICES ASSUME FlowInv, FigureInv PROVE FiguresAreExact
  OBVIOUS
<1>1. /\ now \in Nat /\ InOrder(log, now) /\ Ends(samples, log, now)
      /\ Quartered(fixed, log) /\ Len(log) \in Nat
  BY InLog DEF FigureInv, InOrder
<1>2. \A c \in Conditions : since[c] \in {Never} \cup 0..now
  BY DEF FlowInv, Clocked, Ordered
<1>3. confirmed \subseteq Conditions
  BY DEF FlowInv, Told, Held
<1>4. samples # <<>> => samples[Len(samples)].at = fixed.at
  <2>1. CASE Len(log) = 0
    <3>1. Len(samples) = 0 /\ samples \in Seq([at : Nat, export : Nat])
      BY <1>1, <2>1 DEF Ends
    <3>. QED  BY <3>1
  <2>2. CASE Len(log) > 0
    BY <1>1, <2>2, EndsKnow DEF Quartered
  <2>. QED  BY <1>1, <2>1, <2>2
<1>5. ASSUME NEW i \in 2..Len(samples) PROVE samples[i - 1].at <= samples[i].at
  <2>. DEFINE d == Len(log) - Len(samples)
  <2>1. Len(samples) \in Nat /\ d \in Nat /\ d + Len(samples) = Len(log)
    BY <1>1 DEF Ends
  <2>. HIDE DEF d
  <2>2. /\ i \in 1..Len(samples) /\ i - 1 \in 1..Len(samples)
        /\ d + i \in 1..Len(log) /\ d + (i - 1) \in 1..Len(log) /\ d + (i - 1) <= d + i
    BY <2>1
  <2>3. samples[i].at = log[d + i].at /\ samples[i - 1].at = log[d + (i - 1)].at
    BY <1>1, <2>2 DEF Ends, d
  <2>4. log[d + (i - 1)].at <= log[d + i].at
    BY <1>1, <2>2 DEF InOrder
  <2>. QED  BY <2>3, <2>4
<1>6. FlowTypeOK
  BY <1>2, <1>3, <1>4, <1>5 DEF FlowTypeOK, FigureInv
<1>. QED  BY <1>6 DEF FiguresAreExact, FigureInv

(* FiguresAreExact: whatever the pace of the samples, however many fall into one    *)
(* instant, and whatever the window has dropped, the average is that of the export  *)
(* over the window, the quarter has used what was exported in it, and the budget    *)
(* does not take it past the target (flow.py:96-140, export_budget.py:36-78).       *)
THEOREM FiguresCorrect == FlowSpec => []FiguresAreExact
<1>1. FigureInv /\ [FlowNext]_flowVars => FigureInv'
  BY FigureSample, FigureTick, FigureQuiet DEF FlowNext
<1>2. FlowSpec => []FigureInv
  BY <1>1, FigureInitial, PTL DEF FlowSpec
<1>. QED  BY <1>2, FlowInvCorrect, FiguresKnown, PTL
=============================================================================
