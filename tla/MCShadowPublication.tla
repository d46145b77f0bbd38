------------------------- MODULE MCShadowPublication -------------------------
EXTENDS ShadowPublication

Is(v) == [is |-> "number", value |-> v]
Gone == [is |-> "gone", value |-> 0]
Text == [is |-> "text", value |-> 0]
Targets(s, d) == {[SOLAX |-> s, DEYE |-> d]}

Nominal ==
  [target |-> Targets(4, 0), soc |-> [SOLAX |-> Is(50), DEYE |-> Is(50)],
   power |-> [SOLAX |-> Is(0), DEYE |-> Is(0)], raw |-> Is(0), pcc |-> Is(0),
   stale |-> {}, gone |-> {}, fault |-> [SOLAX |-> "OK", DEYE |-> "OK"],
   permission |-> {[current |-> TRUE, max |-> 5]}]

SocReadings == {Is(s) : s \in {15, 16, 101}} \cup {Gone, Text}
Flows == {Is(p) : p \in {-4, -2, 2, 4}}

Change1(e) ==
     {[e EXCEPT !.target = t] : t \in {{}} \cup
         {Targets(s, 0) : s \in {-4, 1, 7}} \cup {Targets(0, d) : d \in {-4, 4}}
         \cup {Targets(4, 4), Targets(4, -4), Targets(0, 0)}}
  \cup {[e EXCEPT !.soc[b] = r] : b \in Batteries, r \in SocReadings}
  \cup {[e EXCEPT !.power["SOLAX"] = r] : r \in Flows \cup {Text}}
  \cup {[e EXCEPT !.power["DEYE"] = r, !.raw = Is(-r.value)] : r \in Flows}
  \cup {[e EXCEPT !.power["DEYE"] = r] : r \in Flows}
  \cup {[e EXCEPT !.raw = r] : r \in {Gone, Text}}
  \cup {[e EXCEPT !.pcc = r] : r \in Flows \cup {Gone}}
  \cup {[e EXCEPT !.stale = {b}] : b \in Batteries}
  \cup {[e EXCEPT !.gone = {b}] : b \in Batteries}
  \cup {[e EXCEPT !.fault[b] = f] : b \in Batteries,
                                     f \in {"unknown", "fault"}}
  \cup {[e EXCEPT !.fault["DEYE"] = "gone"]}
  \cup {[e EXCEPT !.permission = p] :
          p \in {{}, {[current |-> FALSE, max |-> 5]},
                 {[current |-> TRUE, max |-> 3]}}}

TwoOff ==
  LET one == {Nominal} \cup Change1(Nominal)
      two == one \cup UNION {Change1(e) : e \in one}
  IN two \cup UNION {Change1([Nominal EXCEPT !.target = Targets(0, 4),
                                             !.power["SOLAX"] = r]) : r \in Flows}

FiveHouses ==
  {Nominal, [Nominal EXCEPT !.target = Targets(0, 4)],
   [Nominal EXCEPT !.target = Targets(0, 0)], [Nominal EXCEPT !.stale = {"DEYE"}],
   [Nominal EXCEPT !.fault["SOLAX"] = "fault"]}

AllCapable == {<<b, c>> : b \in Batteries, c \in {"charge", "discharge", "enter"}}
TwoDetails == <<"interval", "telemetry">>
=============================================================================
