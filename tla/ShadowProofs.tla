---------------------------- MODULE ShadowProofs ----------------------------
(* Theorems about the Energy V3 shadow app: about what it publishes, for every  *)
(* evidence, every configuration, every list of details and any number of       *)
(* failures (ShadowPublication and ShadowDecision), and about its control core,   *)
(* for every rated power, slew limit and delay (ShadowControl).               *)
EXTENDS ShadowPublication, ShadowControl, FiniteSetTheorems, TLAPS

(* How much of an evaluation the entities show at each of its calls: nothing   *)
(* acts between the withdrawal and the last call, and each detail told shows   *)
(* this evaluation.                                                         *)
Told ==
  /\ doing \in {"publish", "report"} /\ step >= 1 => ~Acting \/ refused
  /\ doing = "publish" /\ step >= 1 => ~Acting
  /\ doing = "report" => step < Len(Reported)
  /\ doing = "publish" =>
       \A j \in 3..step :
         shown[Published[j]] = [of |-> evaluation, state |-> Final(Published[j])]

Inv ==
  /\ TypeOK /\ Told /\ ActingIsWhole /\ ChangeIsFollowed
  /\ pending => "coalesced" \in due

-----------------------------------------------------------------------------
(* What the decision is sure of when it tells a battery to discharge.         *)
LEMMA ReasonsAreFinal ==
  ASSUME NEW d \in Decisions
  PROVE  d.reason \notin {"IN_PROGRESS", "RUNTIME_ERROR"}
         /\ d.state \notin {"IN_PROGRESS", "RUNTIME_ERROR"}
<1>1. ASSUME NEW e \in Evidence
      PROVE  /\ Decide(e).reason \notin {"IN_PROGRESS", "RUNTIME_ERROR"}
             /\ Decide(e).state \notin {"IN_PROGRESS", "RUNTIME_ERROR"}
  <2>1. SafetyFailure(e) \notin {"IN_PROGRESS", "RUNTIME_ERROR"}
    BY DEF SafetyFailure, SocFailure, FloorOf, PermissionFailure
  <2>2. /\ Arbitrated(e).reason \notin {"IN_PROGRESS", "RUNTIME_ERROR"}
        /\ Arbitrated(e).state \notin {"IN_PROGRESS", "RUNTIME_ERROR"}
    <3>. DEFINE active == {b \in Batteries : Target(e)[b] # 0}
    <3>1. CASE active # {} /\ active # Batteries
      <4>1. (CHOOSE b \in active : TRUE) \in Batteries
        BY <3>1
      <4>. QED  BY <3>1, <4>1 DEF Arbitrated, Refused, Batteries
    <3>2. CASE active = {} \/ active = Batteries
      BY <3>2 DEF Arbitrated, Refused, Batteries
    <3>. QED  BY <3>1, <3>2
  <2>. QED  BY <2>1, <2>2 DEF Decide, Refused
<1>. QED  BY <1>1 DEF Decisions, Refused

(* An evaluation acts on one battery alone, when nothing failed.              *)
LEMMA ActsOnOne ==
  ASSUME NEW e \in Evidence, Decide(e).state \in Batteries
  PROVE  /\ e.target # {} /\ SafetyFailure(e) = "NONE"
         /\ Decide(e).power = Target(e)[Decide(e).state]
         /\ Target(e)[Other(Decide(e).state)] = 0
         /\ Other(Decide(e).state) \in Batteries \ {Decide(e).state}
<1>. DEFINE active == {b \in Batteries : Target(e)[b] # 0}
            owner == CHOOSE b \in active : TRUE
<1>1. Decide(e) = Arbitrated(e) /\ e.target # {} /\ SafetyFailure(e) = "NONE"
  BY DEF Decide, Refused, Batteries
<1>2. /\ active # {} /\ active # Batteries
      /\ Decide(e).state = owner /\ Decide(e).power = Target(e)[owner]
  BY <1>1 DEF Arbitrated, Refused, Batteries
<1>3. owner \in active
  BY <1>2
<1>4. Other(owner) \in Batteries /\ Other(owner) # owner
  BY <1>3 DEF Other, Batteries
<1>5. Target(e)[Other(owner)] = 0
  BY <1>2, <1>3, <1>4 DEF Batteries
<1>. QED  BY <1>1, <1>2, <1>4, <1>5

LEMMA NumberMeans ==
  ASSUME NEW r \in Readings
  PROVE  /\ Number(r) \subseteq {r.value} /\ r.value \in Int
         /\ Number(r) # {} <=> r.is = "number"
BY DEF Number, Readings

(* What a target to discharge has passed on its way through decide.            *)
LEMMA DischargePassed ==
  ASSUME NEW e \in Evidence, NEW b \in Batteries,
         Decide(e).state = b, Decide(e).power > 0
  PROVE  /\ Power(e, "DEYE") # {} /\ Power(e, b) = {e.power[b].value}
         /\ Export(e) = {Positive(e.pcc.value)}
         /\ \A c \in Batteries : Fresh(e, c) /\ Available(e, c) /\ e.fault[c] = "OK"
         /\ \E s \in Soc(e, b) : ~(s <= SocFloor)
         /\ Projected(e) <= ExportTarget /\ PermissionFailure(e) = "NONE"
<1>. USE DecisionAssumption
<1>1. SafetyFailure(e) = "NONE" /\ Target(e)[b] > 0
  BY ActsOnOne
<1>2. /\ \A c \in Batteries : Fresh(e, c) /\ Available(e, c)
      /\ Export(e) # {} /\ \A c \in Batteries : Power(e, c) # {}
      /\ \A c \in Batteries : e.fault[c] \notin {"unknown", "fault"}
  BY <1>1 DEF SafetyFailure
<1>3. /\ SocFailure(e) = "NONE" /\ ~(Projected(e) > ExportTarget)
      /\ Discharging(e) # {} => PermissionFailure(e) = "NONE"
  BY <1>1, <1>2 DEF SafetyFailure
<1>4. b \in Discharging(e)
  BY <1>1 DEF Discharging
<1>5. \E s \in Soc(e, b) : ~(s <= SocFloor)
  BY <1>3, <1>4 DEF SocFailure, FloorOf
<1>6. \A c \in Batteries : e.fault[c] = "OK"
  BY <1>2 DEF Available, Batteries
<1>7. Power(e, b) = {e.power[b].value} /\ Export(e) = {Positive(e.pcc.value)}
  <2>1. e.power[b] \in Readings /\ e.pcc \in Readings
    OBVIOUS
  <2>2. Power(e, b) \subseteq Number(e.power[b])
    BY DEF Power
  <2>3. Number(e.pcc) # {}
    BY <1>2 DEF Export
  <2>. QED  BY <1>2, <2>1, <2>2, <2>3, NumberMeans DEF Export
<1>8. Power(e, "DEYE") # {}
  BY <1>2 DEF Batteries
<1>9. Projected(e) <= ExportTarget
  <2>1. Projected(e) \in Int
    <3>1. \A c \in Batteries : (CHOOSE p \in Power(e, c) : TRUE) \in Int
      <4>1. \A c \in Batteries : Power(e, c) \subseteq Int
        <5>1. \A c \in Batteries : e.power[c] \in Readings
          OBVIOUS
        <5>. QED  BY <5>1, NumberMeans DEF Power
      <4>. QED  BY <1>2, <4>1
    <3>2. \A c \in Batteries : Target(e)[c] \in Int
      <4>1. (CHOOSE x \in e.target : TRUE) \in [Batteries -> Int]
        BY ActsOnOne
      <4>. QED  BY <4>1 DEF Target
    <3>3. Additional(e, "SOLAX") \in Int /\ Additional(e, "DEYE") \in Int
      BY <3>1, <3>2 DEF Additional, Positive, Batteries
    <3>4. (CHOOSE v \in Export(e) : TRUE) \in Int
      BY <1>7 DEF Positive, Readings
    <3>. QED  BY <3>3, <3>4 DEF Projected
  <2>. QED  BY <1>3, <2>1
<1>. QED  BY <1>2, <1>3, <1>4, <1>5, <1>6, <1>7, <1>8, <1>9

(* The sum that decide compares is at least the flow that would be measured.    *)
LEMMA ProjectionIsSound ==
  ASSUME NEW e \in Evidence, NEW b \in Batteries,
         Decide(e).state = b, Decide(e).power > 0
  PROVE  /\ Projected(e) \in Int
         /\ e.pcc.value + e.power[b].value + Decide(e).power \in Int
         /\ e.pcc.value + e.power[b].value + Decide(e).power <= Projected(e)
<1>. USE DecisionAssumption
<1>. DEFINE p == Decide(e).power
            c == Other(b)
<1>1. p = Target(e)[b] /\ Target(e)[c] = 0 /\ c \in Batteries \ {b}
  BY ActsOnOne
<1>2. (CHOOSE x \in e.target : TRUE) \in [Batteries -> Int]
  BY ActsOnOne
<1>3. p \in Int
  BY <1>1, <1>2 DEF Target
<1>4. e.pcc.value \in Int /\ e.power[b].value \in Int
  BY DEF Readings
<1>5. Additional(e, b) = Positive(p + e.power[b].value) /\ Additional(e, c) = 0
  <2>1. (CHOOSE q \in Power(e, b) : TRUE) = e.power[b].value
    <3>1. Power(e, b) = {e.power[b].value}
      BY DischargePassed
    <3>2. (CHOOSE q \in Power(e, b) : TRUE) \in Power(e, b)
      BY <3>1
    <3>. QED  BY <3>1, <3>2
  <2>2. Additional(e, c) = 0
    BY <1>1 DEF Additional
  <2>. QED  BY <1>1, <2>1, <2>2 DEF Additional
<1>6. Projected(e) = Positive(e.pcc.value) + Positive(p + e.power[b].value)
  <2>1. (CHOOSE v \in Export(e) : TRUE) = Positive(e.pcc.value)
    <3>1. Export(e) = {Positive(e.pcc.value)}
      BY DischargePassed
    <3>2. (CHOOSE v \in Export(e) : TRUE) \in Export(e)
      BY <3>1
    <3>. QED  BY <3>1, <3>2
  <2>2. {b, c} = {"SOLAX", "DEYE"}
    BY <1>1 DEF Batteries
  <2>3. /\ Positive(e.pcc.value) \in Int
        /\ Positive(p + e.power[b].value) \in Int
    BY <1>3, <1>4 DEF Positive
  <2>4. Additional(e, "SOLAX") + Additional(e, "DEYE")
          = Positive(p + e.power[b].value)
    <3>1. CASE b = "SOLAX" /\ c = "DEYE"
      BY <1>5, <2>3, <3>1
    <3>2. CASE b = "DEYE" /\ c = "SOLAX"
      BY <1>5, <2>3, <3>2
    <3>. QED  BY <2>2, <3>1, <3>2
  <2>5. Additional(e, "SOLAX") \in Int /\ Additional(e, "DEYE") \in Int
    BY <1>5, <2>2, <2>3
  <2>6. Projected(e)
          = Positive(e.pcc.value) + Additional(e, "SOLAX") + Additional(e, "DEYE")
    BY <2>1 DEF Projected
  <2>7. ASSUME NEW x \in Int, NEW y \in Int, NEW z \in Int
        PROVE  x + y + z = x + (y + z)
    OBVIOUS
  <2>8. Projected(e)
          = Positive(e.pcc.value) + (Additional(e, "SOLAX") + Additional(e, "DEYE"))
    BY <2>3, <2>5, <2>6, <2>7
  <2>. QED  BY <2>4, <2>8
<1>. HIDE DEF p
<1>7. /\ Projected(e) \in Int /\ e.pcc.value + e.power[b].value + p \in Int
      /\ e.pcc.value + e.power[b].value + p <= Projected(e)
  BY <1>3, <1>4, <1>6 DEF Positive
<1>. QED  BY <1>7 DEF p

(* No inverter is told to discharge on evidence that does not bear it: the     *)
(* signs of targets and measured flows, the limits and the evidence that       *)
(* decide asks for are enough (controller.py:96-167).                         *)
THEOREM NothingUnborne == Unborne = {}
<1>. USE DecisionAssumption
<1>. SUFFICES ASSUME NEW b \in Batteries, NEW e \in Evidence,
                     Decide(e).state = b, Decide(e).power > 0
              PROVE  Bears(e, b, Decide(e).power)
  BY DEF Unborne
<1>1. \A c \in Batteries : e.fault[c] = "OK" /\ c \notin e.stale \cup e.gone
  BY DischargePassed DEF Fresh
<1>2. e.soc[b].value > SocFloor
  <2>1. e.soc[b] \in Readings
    OBVIOUS
  <2>. QED  BY <2>1, DischargePassed, NumberMeans DEF Soc
<1>3. \A t \in e.target : Abs(t[Other(b)]) <= Deadband
  <2>1. /\ Target(e)[Other(b)] = 0 /\ Other(b) \in Batteries
        /\ \A t \in e.target : t = CHOOSE x \in e.target : TRUE
    BY ActsOnOne
  <2>2. \A t \in e.target : t[Other(b)] \in Int
    BY <2>1
  <2>. QED  BY <2>1, <2>2 DEF Target, Abs
<1>4. \A r \in Number(e.raw) : Abs(e.power["DEYE"].value + r) <= Mismatch
  <2>1. /\ e.power["DEYE"] \in Readings /\ e.raw \in Readings
        /\ Power(e, "DEYE") # {}
    BY DischargePassed DEF Batteries
  <2>2. e.power["DEYE"].value \in Number(e.power["DEYE"])
    BY <2>1, NumberMeans DEF Power
  <2>3. \A r \in Number(e.raw) : ~(Abs(e.power["DEYE"].value + r) > Mismatch)
    BY <2>1, <2>2 DEF Power
  <2>. QED  BY <2>1, <2>3, NumberMeans DEF Abs
<1>5. Projected(e) \in Int
  BY ProjectionIsSound
<1>6. Projected(e) <= ExportTarget /\ PermissionFailure(e) = "NONE"
  BY DischargePassed
<1>7. \E q \in e.permission : q.current /\ Projected(e) <= q.max /\ q.max \in Int
  BY <1>5, <1>6 DEF PermissionFailure
<1>8. ExportTarget \in Int
  OBVIOUS
<1>. DEFINE flow == e.pcc.value + e.power[b].value + Decide(e).power
<1>9. flow \in Int /\ flow <= Projected(e) /\ Projected(e) \in Int
  BY ProjectionIsSound
<1>. HIDE DEF flow
<1>10. /\ flow <= ExportTarget
       /\ \E q \in e.permission : q.current /\ flow <= q.max
  BY <1>6, <1>7, <1>8, <1>9
<1>. QED  BY <1>1, <1>2, <1>3, <1>4, <1>10 DEF Bears, flow

-----------------------------------------------------------------------------
(* Two calls before a list of them, and two after.                            *)
LEMMA PairFirst ==
  ASSUME NEW S, NEW s \in Seq(S), NEW a \in S, NEW b \in S
  PROVE  LET t == <<a, b>> \o s
         IN /\ t \in Seq(S) /\ Len(t) = Len(s) + 2
            /\ t[1] = a /\ t[2] = b
            /\ \A i \in 1..Len(s) : t[i + 2] = s[i]
OBVIOUS

LEMMA PairLast ==
  ASSUME NEW S, NEW s \in Seq(S), NEW a \in S, NEW b \in S
  PROVE  LET t == s \o <<a, b>>
         IN /\ Len(t) = Len(s) + 2
            /\ t[Len(s) + 1] = a /\ t[Len(s) + 2] = b
            /\ \A i \in 1..Len(s) : t[i] = s[i]
OBVIOUS

(* The two orders of calls.                                                 *)
LEMMA Orders ==
  /\ Len(Details) \in Nat
  /\ Len(Reported) = Len(Details) + 2 /\ Len(Published) = Len(Details) + 4
  /\ Reported[1] = "decision" /\ Published[1] = "decision"
  /\ Published[2] = "reason"
  /\ \A i \in 1..Len(Details) : Reported[i + 2] = Details[i]
  /\ \A i \in 1..Len(Details) : Published[i + 2] = Details[i]
  /\ Published[Len(Published) - 1] = "reason"
  /\ Published[Len(Published)] = "decision"
  /\ Reported[2] = "reason"
<1>1. Details \in Seq(Entities) /\ "decision" \in Entities /\ "reason" \in Entities
  BY PublicationAssumption DEF Entities
<1>2. /\ Reported \in Seq(Entities) /\ Len(Reported) = Len(Details) + 2
      /\ Reported[1] = "decision" /\ Reported[2] = "reason"
      /\ \A i \in 1..Len(Details) : Reported[i + 2] = Details[i]
  BY <1>1, PairFirst DEF Reported
<1>3. /\ Len(Published) = Len(Reported) + 2
      /\ \A i \in 1..Len(Reported) : Published[i] = Reported[i]
      /\ Published[Len(Reported) + 1] = "reason"
      /\ Published[Len(Reported) + 2] = "decision"
  BY <1>1, <1>2, PairLast DEF Published
<1>4. Len(Details) \in Nat
  BY <1>1
<1>. QED  BY <1>2, <1>3, <1>4

(* Only the first call and the last are about the decision.                   *)
LEMMA DecisionIsFirstAndLast ==
  /\ \A j \in 1..Len(Published) :
       /\ Published[j] \in Entities
       /\ Published[j] = "decision" <=> j \in {1, Len(Published)}
  /\ \A j \in 1..Len(Reported) :
       /\ Reported[j] \in Entities
       /\ Reported[j] = "decision" <=> j = 1
<1>. DEFINE n == Len(Details)
<1>1. \A i \in 1..n : Details[i] \in Entities /\ Details[i] # "decision"
  BY PublicationAssumption DEF Entities
<1>2. "decision" \in Entities /\ "reason" \in Entities
  BY DEF Entities
<1>3. ASSUME NEW j \in 1..(n + 2)
      PROVE  j = 1 \/ j = 2 \/ (j - 2 \in 1..n /\ j = (j - 2) + 2)
  BY Orders
<1>4. ASSUME NEW j \in 1..(n + 4)
      PROVE  j \in 1..(n + 2) \/ j = n + 3 \/ j = n + 4
  BY Orders
<1>5. \A j \in 1..(n + 2) : /\ Reported[j] \in Entities
                            /\ Reported[j] = "decision" <=> j = 1
  BY <1>1, <1>2, <1>3, Orders
<1>6. \A j \in 1..(n + 2) : /\ Published[j] \in Entities
                            /\ Published[j] = "decision" <=> j = 1
  BY <1>1, <1>2, <1>3, Orders
<1>7. Published[n + 3] = "reason" /\ Published[n + 4] = "decision"
  BY Orders
<1>. HIDE DEF n
<1>8. \A j \in 1..(n + 4) : /\ Published[j] \in Entities
                            /\ Published[j] = "decision" <=> j \in {1, n + 4}
  BY <1>2, <1>4, <1>6, <1>7, Orders DEF n
<1>. QED  BY <1>5, <1>8, Orders DEF n

(* An entity other than the decision is told by one of the calls before the    *)
(* last and after the opening ones.                                          *)
LEMMA EveryDetailIsTold ==
  ASSUME NEW e \in Entities, e # "decision"
  PROVE  \E j \in 3..(Len(Published) - 1) : Published[j] = e
<1>1. CASE e = "reason"
  <2>1. Len(Published) - 1 \in 3..(Len(Published) - 1)
    BY Orders
  <2>. QED  BY <1>1, <2>1, Orders
<1>2. CASE e # "reason"
  <2>1. PICK i \in 1..Len(Details) : Details[i] = e
    BY <1>2, PublicationAssumption DEF Entities
  <2>2. i + 2 \in 3..(Len(Published) - 1)
    BY Orders
  <2>. QED  BY <2>1, <2>2, Orders
<1>. QED  BY <1>1, <1>2

(* There is always a label that no entity shows.                             *)
LEMMA EntitiesAreFinite == IsFiniteSet(Entities)
<1>. DEFINE D == {Details[i] : i \in DOMAIN Details}
            f == [i \in 1..Len(Details) |-> Details[i]]
<1>1. f \in Surjection(1..Len(Details), D)
  <2>1. DOMAIN Details = 1..Len(Details)
    BY PublicationAssumption
  <2>2. f \in [1..Len(Details) -> D]
    BY <2>1
  <2>3. \A d \in D : \E i \in 1..Len(Details) : f[i] = d
    BY <2>1
  <2>. QED  BY <2>2, <2>3 DEF Surjection
<1>2. IsFiniteSet(1..Len(Details))
  BY Orders, FS_Interval
<1>3. IsFiniteSet(D)
  BY <1>1, <1>2, FS_Surjection
<1>4. IsFiniteSet((D \cup {"decision"}) \cup {"reason"})
  BY <1>3, FS_AddElement
<1>5. Entities = (D \cup {"decision"}) \cup {"reason"}
  BY DEF Entities
<1>. QED  BY <1>4, <1>5

LEMMA LabelIsFree ==
  ASSUME TypeOK
  PROVE  \E n \in Labels : \A e \in Entities : shown[e].of # n
<1>. DEFINE f == [e \in Entities |-> shown[e].of]
            S == {shown[e].of : e \in Entities}
            k == Cardinality(Entities)
<1>1. f \in Surjection(Entities, S)
  BY DEF Surjection
<1>2. IsFiniteSet(S) /\ Cardinality(S) <= k
  BY <1>1, EntitiesAreFinite, FS_Surjection
<1>3. k \in Nat /\ Cardinality(S) \in Nat
  BY <1>2, EntitiesAreFinite, FS_CardinalityType
<1>4. Cardinality(Labels) = k + 2
  BY <1>3, FS_Interval DEF Labels
<1>5. ~(Labels \subseteq S)
  <2>. SUFFICES ASSUME Labels \subseteq S PROVE FALSE
    OBVIOUS
  <2>1. Cardinality(Labels) <= Cardinality(S)
    BY <1>2, FS_Subset
  <2>. QED  BY <1>2, <1>3, <1>4, <2>1
<1>. QED  BY <1>5

-----------------------------------------------------------------------------
(* Each step keeps the types.                                               *)
LEMMA Shows ==
  ASSUME TypeOK, NEW e \in Entities, NEW what,
         Show(e, what) \/ UNCHANGED shown
  PROVE  /\ DOMAIN shown' = Entities
         /\ \A d \in Entities : shown'[d].of \in Labels
         /\ \A d \in Entities : d # e => shown'[d] = shown[d]
         /\ shown'[e] \in {shown[e], [of |-> evaluation, state |-> what]}
         /\ Show(e, what) => shown'[e] = [of |-> evaluation, state |-> what]
BY DEF TypeOK, Show

LEMMA CallbackType ==
  ASSUME TypeOK, Callback
  PROVE  TypeOK'
<1>. USE DEF TypeOK, Go, Fail
<1>1. 0 \in 0..(Len(Published) - 1)
  BY Orders
<1>2. failures \in 0..MaxFailures /\ (Fail => failures' \in 0..MaxFailures)
  BY PublicationAssumption
<1>3. ASSUME NEW c, Free(c)
      PROVE  evaluation' \in Labels
  BY <1>3, LabelIsFree DEF Free
<1>4. CASE InputChanged
  <2>1. /\ due' \subseteq {"change", "coalesced", "periodic"} /\ evaluation' \in Labels
        /\ failures' \in 0..MaxFailures /\ decision' = decision
        /\ UNCHANGED <<house, shown, refused>>
    BY <1>2, <1>3, <1>4 DEF InputChanged, Callback
  <2>2. /\ doing' \in {"nothing", "collect", "publish", "report"}
        /\ step' \in 0..(Len(Published) - 1) /\ (doing' = "nothing" => step' = 0)
        /\ pending' \in BOOLEAN /\ behind' \in BOOLEAN
    BY <1>1, <1>4 DEF InputChanged, Free
  <2>. QED  BY <2>1, <2>2
<1>5. CASE Coalesced \/ PeriodicEvaluation
  <2>1. evaluation' \in Labels /\ due' \subseteq due
    BY <1>3, <1>5 DEF Coalesced, PeriodicEvaluation
  <2>. QED  BY <1>1, <1>5, <2>1 DEF Coalesced, PeriodicEvaluation, Callback
<1>6. CASE Collect
  <2>1. decision' \in Decisions
    BY <1>6, PublicationAssumption DEF Collect, Decisions
  <2>. QED  BY <1>1, <1>2, <1>6, <2>1 DEF Collect, Callback
<1>. QED  BY <1>4, <1>5, <1>6 DEF Callback

LEMMA TellType ==
  ASSUME TypeOK, Told, Tell
  PROVE  TypeOK'
<1>. USE DEF TypeOK, Go
<1>1. failures \in 0..MaxFailures /\ (Fail => failures' \in 0..MaxFailures)
  BY PublicationAssumption DEF Fail
<1>2. /\ 0 \in 0..(Len(Published) - 1)
      /\ \A n \in 0..(Len(Published) - 1) :
           n + 1 # Len(Published) => n + 1 \in 0..(Len(Published) - 1)
  BY Orders
<1>3. UNCHANGED <<house, due, pending, evaluation, decision, behind>>
  BY DEF Tell
<1>4. CASE Publish
  <2>1. step + 1 \in 1..Len(Published)
    BY Orders
  <2>2. Published[step + 1] \in Entities
    BY <2>1, DecisionIsFirstAndLast
  <2>3. DOMAIN shown' = Entities /\ \A d \in Entities : shown'[d].of \in Labels
    BY <1>4, <2>2, Shows DEF Publish
  <2>4. refused' \in BOOLEAN
    BY <1>4 DEF Publish
  <2>5. /\ doing' \in {"nothing", "publish", "report"} /\ failures' \in 0..MaxFailures
        /\ step' \in 0..(Len(Published) - 1) /\ (doing' = "nothing" => step' = 0)
    BY <1>1, <1>2, <1>4 DEF Publish
  <2>. QED  BY <1>3, <2>3, <2>4, <2>5
<1>5. CASE Report
  <2>1. step + 1 \in 1..Len(Reported)
    BY <1>5, Orders DEF Report, Told
  <2>2. Reported[step + 1] \in Entities
    BY <2>1, DecisionIsFirstAndLast
  <2>3. DOMAIN shown' = Entities /\ \A d \in Entities : shown'[d].of \in Labels
    BY <1>5, <2>2, Shows DEF Report
  <2>4. refused' \in BOOLEAN
    BY <1>5 DEF Report
  <2>5. /\ doing' \in {"nothing", "report"} /\ failures' \in 0..MaxFailures
        /\ (doing' = "nothing" => step' = 0)
    BY <1>1, <1>5 DEF Report
  <2>6. step' \in 0..(Len(Published) - 1)
    BY <1>5, <2>1, Orders DEF Report
  <2>. QED  BY <1>3, <2>3, <2>4, <2>5, <2>6
<1>. QED  BY <1>4, <1>5 DEF Tell

LEMMA TypeStep ==
  ASSUME TypeOK, Told, [Next]_vars
  PROVE  TypeOK'
<1>. USE DEF TypeOK, app, vars
<1>1. CASE Change \/ Periodic
  BY <1>1 DEF Change, Periodic
<1>2. CASE Restart
  <2>1. failures' \in 0..MaxFailures /\ 0 \in 0..(Len(Published) - 1)
    BY <1>2, PublicationAssumption, Orders DEF Restart, Fail
  <2>. QED  BY <1>2, <2>1 DEF Restart, Go
<1>3. CASE UNCHANGED vars
  BY <1>3 DEF Decisions
<1>. QED  BY <1>1, <1>2, <1>3, CallbackType, TellType DEF Next

-----------------------------------------------------------------------------
(* What each call does to the decision that is shown.                         *)
LEMMA PublishShows ==
  ASSUME Inv, Publish
  PROVE  /\ step = 0 =>
              ~Acting' \/ (/\ UNCHANGED shown /\ doing' = "report" /\ step' = 0
                           /\ refused' = refused)
         /\ step >= 1 /\ step + 1 < Len(Published) =>
              shown'["decision"] = shown["decision"]
         /\ step + 1 = Len(Published) =>
              \/ shown'["decision"] = shown["decision"]
              \/ shown'["decision"] = [of |-> evaluation, state |-> decision.state]
         /\ doing' \in {"nothing", "publish"} =>
              shown'[Published[step + 1]] =
                [of |-> evaluation, state |-> IF step < 2
                                             THEN Opening(Published[step + 1])
                                             ELSE Final(Published[step + 1])]
         /\ \A d \in Entities : d # Published[step + 1] => shown'[d] = shown[d]
         /\ step \in Nat /\ step + 1 <= Len(Published)
         /\ Published[step + 1] \in Entities
<1>. DEFINE e == Published[step + 1]
            what == IF step < 2 THEN Opening(e) ELSE Final(e)
<1>1. step \in Nat /\ step + 1 \in 1..Len(Published)
  BY Orders DEF Inv, TypeOK
<1>2. e \in Entities /\ (e = "decision" <=> step + 1 \in {1, Len(Published)})
  BY <1>1, DecisionIsFirstAndLast
<1>3. "decision" \in Entities
  BY DEF Entities
<1>4. Show(e, what) \/ (UNCHANGED shown /\ doing' = "report" /\ step' = 0)
  BY DEF Publish, Go
<1>5. /\ \A d \in Entities : d # e => shown'[d] = shown[d]
      /\ shown'[e] \in {shown[e], [of |-> evaluation, state |-> what]}
      /\ Show(e, what) => shown'[e] = [of |-> evaluation, state |-> what]
  BY <1>2, <1>4, Shows DEF Inv
<1>6. CASE step = 0
  <2>1. e = "decision" /\ what = "RETURN_TO_NORMAL"
    BY <1>1, <1>2, <1>6 DEF Opening
  <2>2. Show(e, what) => ~Acting'
    BY <1>5, <2>1 DEF Acting
  <2>3. UNCHANGED shown => refused' = refused
    BY DEF Publish, Inv, TypeOK
  <2>4. doing' \in {"nothing", "publish"} => Show(e, what)
    BY <1>4
  <2>5. step + 1 # Len(Published)
    BY <1>6, Orders
  <2>. QED  BY <1>1, <1>2, <1>4, <1>5, <1>6, <2>2, <2>3, <2>4, <2>5
<1>7. CASE step # 0
  <2>1. step + 1 < Len(Published) => shown'["decision"] = shown["decision"]
    BY <1>1, <1>2, <1>3, <1>5, <1>7
  <2>2. step + 1 = Len(Published) =>
          e = "decision" /\ what = decision.state
    BY <1>1, <1>2, Orders DEF Final
  <2>3. doing' \in {"nothing", "publish"} => Show(e, what)
    BY <1>4
  <2>. QED  BY <1>1, <1>2, <1>5, <1>7, <2>1, <2>2, <2>3
<1>. QED  BY <1>6, <1>7

LEMMA ReportShows ==
  ASSUME Inv, Report
  PROVE  /\ step = 0 => ~Acting' \/ refused'
         /\ step >= 1 => shown'["decision"] = shown["decision"] /\ refused' = refused
         /\ step = 0 /\ Acting' => UNCHANGED shown
         /\ step \in Nat
<1>. DEFINE e == Reported[step + 1]
<1>1. step \in Nat /\ step + 1 \in 1..Len(Reported)
  BY Orders DEF Inv, TypeOK, Told, Report
<1>2. e \in Entities /\ (e = "decision" <=> step = 0)
  BY <1>1, DecisionIsFirstAndLast
<1>3. Show(e, Error(e)) \/ UNCHANGED shown
  BY DEF Report
<1>4. /\ \A d \in Entities : d # e => shown'[d] = shown[d]
      /\ Show(e, Error(e)) => shown'[e] = [of |-> evaluation, state |-> Error(e)]
  BY <1>2, <1>3, Shows DEF Inv
<1>5. refused' = IF e = "decision" THEN shown' = shown ELSE refused
  BY DEF Report
<1>6. CASE step = 0
  <2>1. e = "decision" /\ Error(e) = "RETURN_TO_NORMAL"
    BY <1>2, <1>6 DEF Error
  <2>2. Show(e, Error(e)) => ~Acting'
    BY <1>4, <2>1 DEF Acting
  <2>3. ~Acting' \/ UNCHANGED shown
    BY <1>3, <2>2
  <2>4. UNCHANGED shown => refused'
    BY <1>5, <2>1
  <2>. QED  BY <1>1, <1>6, <2>3, <2>4
<1>7. CASE step # 0
  <2>1. "decision" \in Entities
    BY DEF Entities
  <2>. QED  BY <1>1, <1>2, <1>4, <1>5, <1>7, <2>1
<1>. QED  BY <1>6, <1>7

(* Each step keeps what has been told.                                        *)
LEMMA ToldStep ==
  ASSUME Inv, Next
  PROVE  Told'
<1>. USE DEF Told
<1>1. CASE Change \/ Periodic
  BY <1>1 DEF Change, Periodic, app, Inv, Acting, Final
<1>2. CASE Restart
  BY <1>2 DEF Restart, Go
<1>3. CASE Callback
  <2>1. doing' \in {"nothing", "collect", "publish", "report"}
        /\ (doing' \in {"publish", "report"} => step' = 0)
    BY <1>3 DEF Callback, InputChanged, Coalesced, PeriodicEvaluation, Collect,
                Free, Go
  <2>. QED  BY <2>1, Orders
<1>4. CASE Tell /\ Publish
  <2>. DEFINE e == Published[step + 1]
  <2>1. UNCHANGED <<evaluation, decision>>
    BY <1>4 DEF Tell
  <2>2. \/ doing' = "report" /\ step' = 0
        \/ doing' = "nothing" /\ step' = 0
        \/ doing' = "publish" /\ step' = step + 1 /\ step + 1 # Len(Published)
    BY <1>4 DEF Publish, Go
  <2>3. CASE doing' = "publish"
    <3>1. step' = step + 1 /\ step + 1 < Len(Published) /\ step \in Nat
      BY <1>4, <2>2, <2>3, PublishShows, Orders
    <3>2. ~Acting'
      BY <1>4, <3>1, <2>3, PublishShows DEF Inv, Publish, Acting
    <3>3. ASSUME NEW j \in 3..step'
          PROVE  shown'[Published[j]]
                   = [of |-> evaluation', state |-> Final(Published[j])']
      <4>1. Final(Published[j])' = Final(Published[j])
        BY <2>1 DEF Final, Published, Reported
      <4>2. CASE Published[j] = e /\ step >= 2
        BY <1>4, <2>1, <2>3, <4>1, <4>2, <3>1, PublishShows
      <4>3. CASE Published[j] # e
        <5>1. j \in 3..step /\ Published[j] \in Entities
          BY <3>1, <3>3, <4>3, DecisionIsFirstAndLast
        <5>2. shown[Published[j]]
                = [of |-> evaluation, state |-> Final(Published[j])]
          BY <1>4, <5>1 DEF Inv, Publish
        <5>. QED  BY <1>4, <2>1, <4>1, <4>3, <5>1, <5>2, PublishShows
      <4>. QED  BY <3>1, <4>2, <4>3
    <3>. QED  BY <2>3, <3>2, <3>3
  <2>4. CASE doing' # "publish"
    BY <2>2, <2>4, Orders
  <2>. QED  BY <2>3, <2>4
<1>5. CASE Tell /\ Report
  <2>1. \/ doing' = "nothing"
        \/ doing' = "report" /\ step' = step + 1 /\ step + 1 # Len(Reported)
    BY <1>5 DEF Report, Go
  <2>2. step \in Nat /\ (step = 0 => ~Acting' \/ refused')
        /\ (step >= 1 => shown'["decision"] = shown["decision"] /\ refused' = refused)
    BY <1>5, ReportShows
  <2>3. step < Len(Reported) /\ (step >= 1 => ~Acting \/ refused)
    BY <1>5 DEF Inv, Report
  <2>4. ~Acting' \/ refused'
    BY <2>2, <2>3 DEF Acting
  <2>. QED  BY <2>1, <2>2, <2>3, <2>4, Orders
<1>. QED  BY <1>1, <1>2, <1>3, <1>4, <1>5 DEF Next, Tell

(* A decision to act never appears before everything else shows its          *)
(* evaluation.                                                              *)
LEMMA WholeStep ==
  ASSUME Inv, Next
  PROVE  ActingIsWhole'
<1>. USE DEF ActingIsWhole
<1>1. CASE UNCHANGED <<shown, refused>>
  BY <1>1 DEF Inv, Acting
<1>2. CASE Tell /\ Publish
  <2>1. UNCHANGED <<evaluation, decision>>
    BY <1>2 DEF Tell
  <2>2. step \in Nat /\ step + 1 <= Len(Published)
    BY <1>2, PublishShows
  <2>3. CASE step = 0
    BY <1>2, <2>3, PublishShows DEF Inv, Acting
  <2>4. CASE step >= 1 /\ step + 1 < Len(Published)
    <3>1. ~Acting
      BY <1>2, <2>4 DEF Inv, Told, Publish
    <3>. QED  BY <1>2, <2>4, <3>1, PublishShows DEF Acting
  <2>5. CASE step + 1 = Len(Published)
    <3>1. ~Acting /\ step >= 1
      <4>1. step >= 1
        BY <2>2, <2>5, Orders
      <4>. QED  BY <1>2, <4>1 DEF Inv, Told, Publish
    <3>2. CASE shown'["decision"] = shown["decision"]
      BY <3>1, <3>2 DEF Acting
    <3>3. CASE shown'["decision"] = [of |-> evaluation, state |-> decision.state]
      <4>1. ASSUME NEW e \in Entities, e # "decision"
            PROVE  shown'[e] = [of |-> evaluation, state |-> Final(e)]
        <5>1. PICK j \in 3..(Len(Published) - 1) : Published[j] = e
          BY <4>1, EveryDetailIsTold
        <5>2. j \in 3..step /\ Published[step + 1] = "decision"
          BY <2>2, <2>5, Orders
        <5>3. shown[e] = [of |-> evaluation, state |-> Final(e)]
          BY <1>2, <5>1, <5>2 DEF Inv, Told, Publish
        <5>. QED  BY <1>2, <4>1, <5>2, <5>3, PublishShows
      <4>2. decision \in Decisions
        BY DEF Inv, TypeOK
      <4>3. \A e \in Entities : Final(e) \notin {"IN_PROGRESS", "RUNTIME_ERROR"}
        BY <4>2, ReasonsAreFinal DEF Final
      <4>4. decision.state \notin {"IN_PROGRESS", "RUNTIME_ERROR"}
        BY <4>2, ReasonsAreFinal
      <4>5. /\ shown'["decision"].of = evaluation
            /\ shown'["decision"].state \notin {"IN_PROGRESS", "RUNTIME_ERROR"}
        BY <3>3, <4>4
      <4>6. ASSUME NEW e \in Entities
            PROVE  /\ shown'[e].of = evaluation
                   /\ shown'[e].state \notin {"IN_PROGRESS", "RUNTIME_ERROR"}
        <5>1. CASE e = "decision"
          BY <4>5, <5>1
        <5>2. CASE e # "decision"
          <6>1. shown'[e] = [of |-> evaluation, state |-> Final(e)]
            BY <4>1, <5>2
          <6>. QED  BY <4>3, <6>1
        <5>. QED  BY <5>1, <5>2
      <4>7. Entities' = Entities
        BY DEF Entities
      <4>. QED  BY <4>5, <4>6, <4>7
    <3>. QED  BY <1>2, <2>5, <3>2, <3>3, PublishShows
  <2>. QED  BY <2>2, <2>3, <2>4, <2>5
<1>3. CASE Tell /\ Report
  <2>1. CASE step = 0
    BY <1>3, <2>1, ReportShows
  <2>2. CASE step # 0
    BY <1>3, <2>2, ReportShows DEF Inv, Told, Report, Acting
  <2>. QED  BY <2>1, <2>2
<1>4. Change \/ Periodic \/ Callback \/ Restart => UNCHANGED <<shown, refused>>
  BY DEF Change, Periodic, Callback, Restart
<1>. QED  BY <1>1, <1>2, <1>3, <1>4 DEF Next, Tell

(* A change waits, or is being collected.                                     *)
LEMMA FollowedStep ==
  ASSUME Inv, Next
  PROVE  ChangeIsFollowed' /\ (pending => "coalesced" \in due)'
<1>. USE DEF ChangeIsFollowed, Inv
<1>1. CASE Change \/ Periodic
  BY <1>1 DEF Change, Periodic, app
<1>2. CASE Restart
  BY <1>2 DEF Restart
<1>3. CASE Tell
  BY <1>3 DEF Tell, Publish, Report
<1>4. CASE Callback
  <2>1. CASE InputChanged
    <3>1. CASE pending
      BY <2>1, <3>1 DEF InputChanged, Free
    <3>2. CASE ~pending
      BY <2>1, <3>2 DEF InputChanged, Free
    <3>. QED  BY <3>1, <3>2
  <2>2. CASE Coalesced
    BY <2>2 DEF Coalesced, Free, Go
  <2>3. CASE PeriodicEvaluation
    BY <2>3 DEF PeriodicEvaluation, Free, Go
  <2>4. CASE Collect
    BY <2>4 DEF Collect
  <2>. QED  BY <1>4, <2>1, <2>2, <2>3, <2>4 DEF Callback
<1>. QED  BY <1>1, <1>2, <1>3, <1>4 DEF Next

-----------------------------------------------------------------------------
LEMMA InvInit == Init => Inv
<1>. SUFFICES ASSUME Init PROVE Inv
  OBVIOUS
<1>. USE DEF Init
<1>1. 0 \in Labels /\ 0 \in 0..(Len(Published) - 1) /\ 0 \in 0..MaxFailures
  BY EntitiesAreFinite, FS_CardinalityType, Orders, PublicationAssumption DEF Labels
<1>2. TypeOK
  BY <1>1 DEF TypeOK, Decisions
<1>3. ActingIsWhole
  BY DEF ActingIsWhole, Acting, Error, Entities
<1>4. Told /\ ChangeIsFollowed
  BY DEF Told, ChangeIsFollowed
<1>. QED  BY <1>2, <1>3, <1>4 DEF Inv

LEMMA InvStep == Inv /\ [Next]_vars => Inv'
<1>. SUFFICES ASSUME Inv, [Next]_vars PROVE Inv'
  OBVIOUS
<1>1. TypeOK'
  BY TypeStep DEF Inv
<1>2. CASE Next
  BY <1>1, <1>2, ToldStep, WholeStep, FollowedStep DEF Inv
<1>3. CASE UNCHANGED vars
  <2>1. Told' /\ ActingIsWhole'
    BY <1>3 DEF Inv, Told, ActingIsWhole, Acting, Final, vars, app
  <2>. QED  BY <1>1, <1>3, <2>1 DEF Inv, ChangeIsFollowed, vars, app
<1>. QED  BY <1>2, <1>3

LEMMA InvAlways == Spec => []Inv
BY InvInit, InvStep, PTL DEF Spec

-----------------------------------------------------------------------------
(* The variables always have the types of TypeOK: there is a label for each     *)
(* evaluation, and no callback tells more entities than it has.                *)
THEOREM TypeCorrect == Spec => []TypeOK
<1>1. Inv => TypeOK
  BY DEF Inv
<1>. QED  BY <1>1, InvAlways, PTL

(* What is told to discharge was decided on evidence that bears it              *)
(* (controller.py:96-167).                                                  *)
THEOREM DischargeCorrect == Spec => []DischargeIsBounded
<1>1. DischargeIsBounded
  BY NothingUnborne DEF DischargeIsBounded
<1>. QED  BY <1>1, PTL

(* No failed partial publication leaves a positive decision beside entities of  *)
(* another evaluation (shadow_app.py:96), unless the withdrawal was refused.    *)
THEOREM WholeCorrect == Spec => []ActingIsWhole
<1>1. Inv => ActingIsWhole
  BY DEF Inv
<1>. QED  BY <1>1, InvAlways, PTL

(* No change of the house is lost by coalescing (shadow_app.py:43-61).          *)
THEOREM FollowedCorrect == Spec => []ChangeIsFollowed
<1>1. Inv => ChangeIsFollowed
  BY DEF Inv
<1>. QED  BY <1>1, InvAlways, PTL

(* A decision to act is seen withdrawn before the next (shadow_app.py:96-107).   *)
THEOREM WithdrawnCorrect == Spec => WithdrawnBetween
<1>. DEFINE Withdrawn == Acting /\ Acting' => shown'["decision"] = shown["decision"]
<1>1. Inv /\ [Next]_vars => [Withdrawn]_vars
  <2>. SUFFICES ASSUME Inv, Next PROVE Withdrawn
    OBVIOUS
  <2>1. CASE Change \/ Periodic \/ Callback \/ Restart
    BY <2>1 DEF Change, Periodic, Callback, Restart
  <2>2. CASE Publish
    <3>1. step >= 1 => ~Acting
      BY <2>2 DEF Publish, Inv, Told
    <3>. QED  BY <2>2, <3>1, PublishShows
  <2>3. CASE Report
    BY <2>3, ReportShows
  <2>. QED  BY <2>1, <2>2, <2>3 DEF Next, Tell
<1>2. QED  BY <1>1, InvAlways, PTL DEF Spec, WithdrawnBetween

-----------------------------------------------------------------------------
SimType == [power : Powers, waits : BOOLEAN, zero : SUBSET (0..Confirm)]

(* What TypeOK says of the simulation of one battery.                       *)
SimOK(s) ==
  /\ s \in SimType
  /\ \A x, y \in s.zero : x = y
  /\ s.waits => s.power = 0
  /\ ~s.waits => s.zero = {}

(* A battery that has to rest waits, and its clock is no later than the time  *)
(* it has been seen at rest.                                                *)
Debt ==
  \A b \in Batteries :
    /\ b \in owed => sim[b].waits
    /\ \A t \in sim[b].zero : rest[b] # Never /\ t <= rest[b]

CoreInv == CoreTypeOK /\ Debt /\ RestBeforeMotion

-----------------------------------------------------------------------------
(* What is wanted is within the power of the batteries.                     *)
LEMMA SplitType ==
  ASSUME NEW need \in Nat, NEW direction, NEW can
  PROVE  /\ Split(need, direction, can).DEYE \in 0..Rated
         /\ Split(need, direction, can).SOLAX \in 0..Rated
         /\ Split(need, direction, can) =
              [DEYE |-> Split(need, direction, can).DEYE,
               SOLAX |-> Split(need, direction, can).SOLAX]
<1>1. \A b : Limit(b, direction, can) \in 0..Rated
  BY ControlAssumption DEF Limit
<1>2. AtMost(need, Limit("DEYE", direction, can)) \in 0..Rated
  BY <1>1, ControlAssumption DEF AtMost
<1>3. \A f \in 0..Rated :
        AtMost(AtLeast0(need - f), Limit("SOLAX", direction, can)) \in 0..Rated
  BY <1>1, ControlAssumption DEF AtMost, AtLeast0
<1>. QED  BY <1>2, <1>3 DEF Split

LEMMA DemandType ==
  ASSUME NEW wanted \in Demands \cup {Nothing}, NEW b \in Batteries
  PROVE  wanted[b] \in Powers
<1>. USE ControlAssumption
<1>1. CASE wanted = Nothing
  BY <1>1 DEF Nothing, Powers
<1>2. ASSUME NEW surplus \in Surpluses,
             NEW can \in [Batteries -> SUBSET {"CHARGE", "DISCHARGE"}],
             wanted = Wanted(surplus, can)
      PROVE  wanted[b] \in Powers
  <2>1. surplus \in Int /\ GridTarget - surplus \in Int
    OBVIOUS
  <2>2. CASE GridTarget - surplus >= 0
    <3>1. GridTarget - surplus \in Nat
      BY <2>1, <2>2
    <3>2. wanted = [DEYE |-> -Split(GridTarget - surplus, "DISCHARGE", can).DEYE,
                    SOLAX |-> -Split(GridTarget - surplus, "DISCHARGE", can).SOLAX]
      BY <1>2, <2>2 DEF Wanted
    <3>. QED  BY <3>1, <3>2, SplitType DEF Batteries, Powers
  <2>3. CASE ~(GridTarget - surplus >= 0)
    <3>. DEFINE spare == IF GridTarget < 0 THEN AtLeast0(surplus)
                         ELSE -(GridTarget - surplus)
    <3>1. spare \in Nat
      BY <2>1, <2>3 DEF AtLeast0
    <3>2. wanted = Split(spare, "CHARGE", can)
      BY <1>2, <2>3 DEF Wanted
    <3>. HIDE DEF spare
    <3>. QED  BY <3>1, <3>2, SplitType DEF Batteries, Powers
  <2>. QED  BY <2>2, <2>3
<1>. QED  BY <1>1, <1>2 DEF Demands

-----------------------------------------------------------------------------
(* One battery through one tick.                                            *)
LEMMA Ageing ==
  ASSUME CoreTypeOK, NEW gap \in 1..MaxGap, NEW b \in Batteries
  PROVE  /\ SimOK(Aged(gap)[b])
         /\ Aged(gap)[b].power = sim[b].power
         /\ Aged(gap)[b].waits = sim[b].waits
         /\ Aged(gap)[b].zero = {AtMost(t + gap, Confirm) : t \in sim[b].zero}
<1>. gap \in Nat \ {0} /\ Confirm \in Nat \ {0}
  BY ControlAssumption
<1>1. SimOK(sim[b])
  BY DEF CoreTypeOK, SimOK, SimType
<1>2. Aged(gap)[b] = [power |-> sim[b].power, waits |-> sim[b].waits,
                      zero |-> {AtMost(t + gap, Confirm) : t \in sim[b].zero}]
  BY <1>1 DEF Aged, SimOK, SimType
<1>3. \A t \in 0..Confirm : AtMost(t + gap, Confirm) \in 0..Confirm
  BY DEF AtMost
<1>4. {AtMost(t + gap, Confirm) : t \in sim[b].zero} \in SUBSET (0..Confirm)
  BY <1>1, <1>3 DEF SimOK, SimType
<1>. QED  BY <1>1, <1>2, <1>4 DEF SimOK, SimType

LEMMA Forgetting ==
  ASSUME NEW s
  PROVE  /\ SimOK(Forget(s)) /\ Forget(s).waits
         /\ Forget(s).power = 0 /\ Forget(s).zero = {}
<1>1. 0 \in Powers
  BY ControlAssumption DEF Powers
<1>. QED  BY <1>1 DEF Forget, SimOK, SimType

LEMMA Simulating ==
  ASSUME NEW s, SimOK(s), NEW want \in Powers, NEW seen
  PROVE  /\ SimOK(Simulate(s, want, seen))
         /\ Turns(s, want) => Simulate(s, want, seen).waits
         /\ Simulate(s, want, seen).zero # {} =>
              seen = "rests" /\ s.waits
                /\ Simulate(s, want, seen).zero = Resting(s)
         /\ s.waits /\ ~Simulate(s, want, seen).waits =>
              seen = "rests" /\ Confirm \in Resting(s)
<1>. USE ControlAssumption
<1>1. CASE Turns(s, want)
  <2>1. ~s.waits /\ Simulate(s, want, seen) = Forget(s)
    BY <1>1 DEF Simulate, Turns
  <2>. QED  BY <2>1, Forgetting
<1>2. CASE ~Turns(s, want) /\ s.waits
  <2>1. /\ Resting(s) \subseteq 0..Confirm
        /\ \A x, y \in Resting(s) : x = y
        /\ 0 \in Powers
    BY DEF SimOK, SimType, Resting, Powers
  <2>2. CASE seen = "rests" /\ Confirm \in Resting(s)
    <3>1. Simulate(s, want, seen) =
            [power |-> want, waits |-> FALSE, zero |-> {}]
      BY <1>2, <2>2 DEF Simulate
    <3>2. SimOK([power |-> want, waits |-> FALSE, zero |-> {}])
      BY DEF SimOK, SimType
    <3>3. Simulate(s, want, seen).zero = {} /\ ~Simulate(s, want, seen).waits
      BY <3>1
    <3>4. SimOK(Simulate(s, want, seen))
      BY <3>1, <3>2
    <3>. QED  BY <1>2, <2>2, <3>3, <3>4
  <2>3. CASE ~(seen = "rests" /\ Confirm \in Resting(s))
    <3>1. Simulate(s, want, seen) =
            [power |-> 0, waits |-> TRUE,
             zero |-> IF seen = "rests" THEN Resting(s) ELSE {}]
      BY <1>2, <2>3 DEF Simulate
    <3>. QED  BY <1>2, <2>1, <3>1 DEF SimOK, SimType
  <2>. QED  BY <2>2, <2>3
<1>3. CASE ~Turns(s, want) /\ ~s.waits
  <2>1. Slewed(s.power, want) \in Powers
    BY DEF SimOK, SimType, Slewed, Powers
  <2>2. Simulate(s, want, seen) =
          [power |-> Slewed(s.power, want), waits |-> FALSE, zero |-> {}]
    BY <1>3 DEF Simulate, SimOK, SimType
  <2>. QED  BY <1>3, <2>1, <2>2 DEF SimOK, SimType
<1>. QED  BY <1>1, <1>2, <1>3

-----------------------------------------------------------------------------
(* A tick, as far as one battery is concerned.                              *)
Inputs(gap, operating, legible, flow, wanted) ==
  /\ gap \in 1..MaxGap /\ operating \in Operating /\ legible \in BOOLEAN
  /\ flow \in [Batteries -> Flows] /\ wanted \in Demands \cup {Nothing}
  /\ Evaluate(gap, operating, legible, flow, wanted)
  /\ Watch(gap, operating, legible, flow, wanted)

LEMMA TickInputs ==
  ASSUME Tick
  PROVE  \E gap, operating, legible, flow, wanted :
           Inputs(gap, operating, legible, flow, wanted)
BY DEF Tick, Measured, Inputs

LEMMA BatteryTick ==
  ASSUME CoreInv, NEW gap, NEW operating, NEW legible, NEW flow, NEW wanted,
         Inputs(gap, operating, legible, flow, wanted), NEW b \in Batteries
  PROVE  /\ Lost(b, operating) => sim'[b] = Forget(sim'[b])
         /\ ~Lost(b, operating) /\ legible =>
              sim'[b] = Simulate(Aged(gap)[b], wanted[b], flow[b])
         /\ ~Lost(b, operating) /\ ~legible => sim'[b] = Aged(gap)[b]
         /\ SimOK(sim'[b])
         /\ out'[b] # 0 => out'[b] = sim'[b].power
<1>1. CASE Lost(b, operating)
  <2>1. \A s : Kept(s, b, operating) = [power |-> 0, waits |-> TRUE, zero |-> {}]
    BY <1>1 DEF Kept, Forget
  <2>2. sim'[b] = [power |-> 0, waits |-> TRUE, zero |-> {}] /\ out'[b] = 0
    BY <1>1, <2>1 DEF Inputs, Evaluate
  <2>. QED  BY <1>1, <2>2, Forgetting DEF Forget
<1>2. CASE ~Lost(b, operating)
  <2>1. \A s : Kept(s, b, operating) = s
    BY <1>2 DEF Kept
  <2>2. sim'[b] = IF legible
                  THEN Simulate(Aged(gap)[b], wanted[b], flow[b])
                  ELSE Aged(gap)[b]
    BY <2>1 DEF Inputs, Evaluate
  <2>3. out'[b] # 0 => out'[b] = sim'[b].power
    BY <2>1, <2>2, <1>2 DEF Inputs, Evaluate
  <2>4. SimOK(Aged(gap)[b]) /\ wanted[b] \in Powers
    BY Ageing, DemandType DEF CoreInv, Inputs
  <2>5. SimOK(sim'[b])
    BY <2>2, <2>4, Simulating
  <2>. QED  BY <1>2, <2>2, <2>3, <2>5
<1>. QED  BY <1>1, <1>2

(* The same, of a battery that an allocation moves.                         *)
LEMMA AllocatedTick ==
  ASSUME CoreInv, NEW gap, NEW operating, NEW legible, NEW flow, NEW wanted,
         Inputs(gap, operating, legible, flow, wanted), NEW b \in Batteries,
         ~Lost(b, operating), legible = TRUE
  PROVE  /\ Turns(Aged(gap)[b], wanted[b]) => sim'[b].waits
         /\ sim'[b].zero # {} => /\ flow[b] = "rests"
                                /\ sim'[b].zero = Resting(Aged(gap)[b])
         /\ sim[b].waits /\ ~sim'[b].waits =>
              flow[b] = "rests" /\ Confirm \in Resting(Aged(gap)[b])
<1>1. sim'[b] = Simulate(Aged(gap)[b], wanted[b], flow[b])
  <2>1. \A s : Kept(s, b, operating) = s
    BY DEF Kept
  <2>. QED  BY <2>1 DEF Inputs, Evaluate
<1>2. SimOK(Aged(gap)[b]) /\ Aged(gap)[b].waits = sim[b].waits
  BY Ageing DEF CoreInv, Inputs
<1>3. wanted[b] \in Powers
  BY DemandType DEF Inputs
<1>. QED  BY <1>1, <1>2, <1>3, Simulating

-----------------------------------------------------------------------------
LEMMA Initial == CoreInit => CoreInv
<1>. SUFFICES ASSUME CoreInit PROVE CoreInv
  OBVIOUS
<1>1. 0 \in Powers
  BY ControlAssumption DEF Powers
<1>2. CoreTypeOK
  BY <1>1 DEF CoreInit, CoreTypeOK, Nothing
<1>3. Debt /\ RestBeforeMotion
  BY DEF CoreInit, Debt, RestBeforeMotion
<1>. QED  BY <1>2, <1>3 DEF CoreInv

(* The clock of a transfer.                                                 *)
LEMMA TransferType ==
  ASSUME CoreTypeOK, NEW flow, NEW gap \in 1..MaxGap
  PROVE  /\ TransferSeen(flow, gap) \subseteq [from : Batteries, age : 0..Persist]
         /\ \A s, t \in TransferSeen(flow, gap) : s = t
<1>. gap \in Nat \ {0} /\ Persist \in Nat \ {0}
  BY ControlAssumption
<1>. DEFINE age(b) == IF \E t \in transfer : t.from = b
                      THEN AtMost((CHOOSE t \in transfer : t.from = b).age + gap,
                                  Persist)
                      ELSE 0
<1>1. ASSUME NEW b PROVE age(b) \in 0..Persist
  BY DEF CoreTypeOK, AtMost
<1>2. \A b, c \in Sources(flow) : b = c
  BY DEF Sources, Batteries, Other
<1>3. Sources(flow) \subseteq Batteries
  BY DEF Sources
<1>. HIDE DEF age
<1>4. TransferSeen(flow, gap) = {} \/
      TransferSeen(flow, gap) = {[from |-> b, age |-> age(b)] : b \in Sources(flow)}
  BY DEF TransferSeen, age
<1>. QED  BY <1>1, <1>2, <1>3, <1>4

LEMMA Step == CoreInv /\ [Tick]_coreVars => CoreInv'
<1>. SUFFICES ASSUME CoreInv, [Tick]_coreVars PROVE CoreInv'
  OBVIOUS
<1>1. CASE UNCHANGED coreVars
  BY <1>1 DEF coreVars, CoreInv, CoreTypeOK, Debt, RestBeforeMotion
<1>2. CASE Tick
  <2>1. PICK gap, operating, legible, flow, wanted :
          Inputs(gap, operating, legible, flow, wanted)
    BY <1>2, TickInputs
  <2>. gap \in Nat \ {0} /\ Confirm \in Nat \ {0}
    BY <2>1, ControlAssumption DEF Inputs
  <2>2. /\ DOMAIN sim' = Batteries /\ sim' = [b \in Batteries |-> sim'[b]]
        /\ out' = [b \in Batteries |-> out'[b]]
        /\ rest' = [b \in Batteries |-> rest'[b]]
    BY <2>1 DEF Inputs, Evaluate, Watch
  <2>3. ASSUME NEW b \in Batteries
        PROVE  /\ SimOK(sim'[b])
               /\ out'[b] # 0 => out'[b] = sim'[b].power
               /\ out'[b] \in Powers
    <3>1. SimOK(sim'[b]) /\ (out'[b] # 0 => out'[b] = sim'[b].power)
      BY <2>1, BatteryTick
    <3>. QED  BY <3>1, ControlAssumption DEF SimOK, SimType, Powers
  <2>4. ASSUME NEW b \in Batteries
        PROVE  rest'[b] \in {Never} \cup 0..Confirm
    BY <2>1 DEF Inputs, Watch, CoreInv, CoreTypeOK, AtMost, Never
  <2>5. CoreTypeOK'
    <3>1. sim' \in [Batteries -> SimType]
      BY <2>2, <2>3 DEF SimOK
    <3>2. out' \in [Batteries -> Powers]
      BY <2>2, <2>3
    <3>3. rest' \in [Batteries -> {Never} \cup 0..Confirm]
      BY <2>2, <2>4
    <3>4. owed' \subseteq Batteries /\ good' \in BOOLEAN
      BY <2>1 DEF Inputs, Watch
    <3>5. verdict' \in {"CLEAR", "UNVERIFIED", "SUSPECTED", "FAULT"}
      BY <2>1 DEF Inputs, Evaluate, Verdict
    <3>6. /\ transfer' \subseteq [from : Batteries, age : 0..Persist]
          /\ \A s, t \in transfer' : s = t
      BY <2>1, TransferType DEF Inputs, Evaluate, CoreInv
    <3>. QED  BY <2>3, <3>1, <3>2, <3>3, <3>4, <3>5, <3>6
              DEF CoreTypeOK, SimOK, SimType
  <2>6. ASSUME NEW b \in Batteries, NEW t \in sim'[b].zero
        PROVE  rest'[b] # Never /\ t <= rest'[b]
    <3>1. CASE Lost(b, operating)
      BY <2>1, <2>6, <3>1, BatteryTick, Forgetting
    <3>2. CASE ~Lost(b, operating) /\ ~legible
      <4>1. t \in {AtMost(x + gap, Confirm) : x \in sim[b].zero}
        BY <2>1, <3>2, BatteryTick, Ageing DEF CoreInv, Inputs
      <4>2. PICK x \in sim[b].zero : t = AtMost(x + gap, Confirm)
        BY <4>1
      <4>3. rest[b] # Never /\ x <= rest[b] /\ rest'[b] = AtMost(rest[b] + gap, Confirm)
        BY <2>1, <3>2 DEF CoreInv, Debt, Inputs, Watch
      <4>. QED  BY <4>2, <4>3 DEF AtMost, CoreInv, CoreTypeOK, Never
    <3>3. CASE ~Lost(b, operating) /\ legible
      <4>0. sim'[b].zero # {}
        OBVIOUS
      <4>7. ~Lost(b, operating) /\ legible = TRUE
        BY <2>1, <3>3 DEF Inputs
      <4>6. sim'[b].zero # {} => /\ flow[b] = "rests"
                                /\ sim'[b].zero = Resting(Aged(gap)[b])
        BY ONLY CoreInv, <2>1, <2>6, <4>7, AllocatedTick
      <4>1. /\ flow[b] = "rests" /\ t \in Resting(Aged(gap)[b])
        BY ONLY <2>6, <4>0, <4>6
      <4>2. rest'[b] = IF rest[b] # Never THEN AtMost(rest[b] + gap, Confirm)
                       ELSE 0
        BY <2>1, <3>3, <4>1 DEF Inputs, Watch
      <4>3. CASE t = 0
        BY <4>2, <4>3 DEF AtMost, CoreInv, CoreTypeOK, Never
      <4>4. CASE t # 0
        <5>1. PICK x \in sim[b].zero : t = AtMost(x + gap, Confirm)
          BY <2>1, <4>1, <4>4, Ageing DEF Resting, CoreInv, Inputs
        <5>2. rest[b] # Never /\ x <= rest[b]
          BY DEF CoreInv, Debt
        <5>. QED  BY <4>2, <5>1, <5>2 DEF AtMost, CoreInv, CoreTypeOK, Never
      <4>. QED  BY <4>3, <4>4
    <3>. QED  BY <3>1, <3>2, <3>3 DEF Inputs
  <2>7. ASSUME NEW b \in owed' PROVE sim'[b].waits
    <3>0. b \in Batteries /\ rest'[b] # Confirm
      BY <2>1 DEF Inputs, Watch
    <3>1. CASE Lost(b, operating)
      BY <2>1, <3>0, <3>1, BatteryTick, Forgetting
    <3>2. CASE ~Lost(b, operating) /\ ~legible
      BY <2>1, <3>0, <3>2, BatteryTick, Ageing DEF CoreInv, Debt, Inputs, Watch
    <3>3. CASE ~Lost(b, operating) /\ legible /\ sim[b].waits
      <4>1. SUFFICES ASSUME ~sim'[b].waits PROVE FALSE
        OBVIOUS
      <4>2. flow[b] = "rests" /\ Confirm \in Resting(Aged(gap)[b])
        BY <2>1, <3>0, <3>3, <4>1, AllocatedTick DEF Inputs
      <4>3. PICK x \in sim[b].zero : Confirm = AtMost(x + gap, Confirm)
        BY <2>1, <3>0, <4>2, Ageing DEF Resting, CoreInv, Inputs
      <4>4. rest[b] # Never /\ x <= rest[b]
        BY <3>0 DEF CoreInv, Debt
      <4>5. rest'[b] = AtMost(rest[b] + gap, Confirm)
        BY <2>1, <3>0, <3>3, <4>2, <4>4 DEF Inputs, Watch
      <4>. QED  BY <3>0, <4>3, <4>4, <4>5 DEF AtMost, CoreInv, CoreTypeOK, Never
    <3>4. CASE ~Lost(b, operating) /\ legible /\ ~sim[b].waits
      <4>1. Sign(sim[b].power) * Sign(wanted[b]) = -1
        BY <2>1, <3>0, <3>4 DEF CoreInv, Debt, Inputs, Watch
      <4>2. Turns(Aged(gap)[b], wanted[b])
        BY <2>1, <3>0, <3>4, <4>1, Ageing DEF Turns, CoreInv, Inputs
      <4>. QED  BY <2>1, <3>0, <3>4, <4>2, AllocatedTick DEF Inputs
    <3>. QED  BY <2>1, <3>1, <3>2, <3>3, <3>4 DEF Inputs
  <2>8. RestBeforeMotion'
    BY <2>3, <2>5, <2>7 DEF RestBeforeMotion, SimOK, CoreTypeOK
  <2>. QED  BY <2>5, <2>6, <2>7, <2>8 DEF CoreInv, Debt
<1>. QED  BY <1>1, <1>2

LEMMA InvCorrect == CoreSpec => []CoreInv
BY Initial, Step, PTL DEF CoreSpec

(* Every variable keeps its type: no sequence of demands, breaks and losses   *)
(* takes a battery past its rated power.                                    *)
THEOREM CoreTypeCorrect == CoreSpec => []CoreTypeOK
BY InvCorrect, PTL DEF CoreInv

(* A battery that lost READY, or is asked to turn, rests before it moves.     *)
THEOREM RestCorrect == CoreSpec => []RestBeforeMotion
BY InvCorrect, PTL DEF CoreInv

-----------------------------------------------------------------------------
(* A transfer is only remembered between two looks that both saw it.          *)
Seen == transfer # {} => verdict \in {"SUSPECTED", "FAULT"}

(* A transfer that lasts had been seen at the tick before, from the same      *)
(* battery: its age is zero otherwise.                                      *)
LEMMA OnlyALastingTransferAges ==
  ASSUME NEW flow, NEW gap, NEW t \in TransferSeen(flow, gap), t.age # 0
  PROVE  \E s \in transfer : s.from = t.from
<1>1. ~Unclear(flow)
  BY DEF TransferSeen
<1>2. PICK b \in Sources(flow) :
        t = [from |-> b,
             age |-> IF \E s \in transfer : s.from = b
                     THEN AtMost((CHOOSE s \in transfer : s.from = b).age + gap,
                                 Persist)
                     ELSE 0]
  BY <1>1 DEF TransferSeen
<1>. QED  BY <1>2

LEMMA SeenStep == Seen /\ [Tick]_coreVars => Seen'
<1>. SUFFICES ASSUME Seen, [Tick]_coreVars PROVE Seen'
  OBVIOUS
<1>1. CASE UNCHANGED coreVars
  BY <1>1 DEF coreVars, Seen
<1>2. CASE Tick
  <2>1. PICK gap, operating, legible, flow, wanted :
          Inputs(gap, operating, legible, flow, wanted)
    BY <1>2, TickInputs
  <2>2. transfer' = TransferSeen(flow, gap) /\ verdict' = Verdict(flow)
    BY <2>1 DEF Inputs, Evaluate
  <2>. QED  BY <2>2 DEF Seen, Verdict, TransferSeen
<1>. QED  BY <1>1, <1>2

LEMMA FaultStep ==
  ASSUME CoreInv, Seen, Tick, verdict' = "FAULT"
  PROVE  /\ verdict \in {"SUSPECTED", "FAULT"}
         /\ \A s \in transfer', t \in transfer : s.from = t.from
<1>1. PICK gap, operating, legible, flow, wanted :
        Inputs(gap, operating, legible, flow, wanted)
  BY TickInputs
<1>2. /\ transfer' = TransferSeen(flow, gap) /\ verdict' = Verdict(flow)
      /\ gap \in 1..MaxGap
  BY <1>1 DEF Inputs, Evaluate
<1>3. PICK s \in TransferSeen(flow, gap) : s.age >= Persist
  BY <1>2 DEF Verdict
<1>4. PICK t \in transfer : t.from = s.from
  BY <1>3, OnlyALastingTransferAges, ControlAssumption
<1>5. /\ \A x \in transfer' : x = s
      /\ \A y \in transfer : y = t
  BY <1>2, <1>3, <1>4, TransferType DEF CoreInv, CoreTypeOK
<1>. QED  BY <1>4, <1>5 DEF Seen

(* A fault is raised only of a transfer that an earlier tick saw, without a    *)
(* loss of feedback and from the same battery in between, whatever the        *)
(* confirmation time and the gaps between the ticks                         *)
(* (shadow_controller.py:219).                                              *)
THEOREM FaultCorrect == CoreSpec => FaultIsConfirmed
<1>1. CoreInit => Seen
  BY DEF CoreInit, Seen
<1>2. CoreInv /\ Seen /\ [Tick]_coreVars =>
        [verdict' = "FAULT" =>
           /\ verdict \in {"SUSPECTED", "FAULT"}
           /\ \A s \in transfer', t \in transfer : s.from = t.from]_coreVars
  BY FaultStep
<1>. QED
  BY <1>1, <1>2, SeenStep, InvCorrect, PTL DEF CoreSpec, FaultIsConfirmed
=============================================================================
