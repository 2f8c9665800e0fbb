------------------------- MODULE VmPoolOrderProofs -------------------------
(***************************************************************************)
(* Theorems about VmPool that rest on the order in which a call runs its   *)
(* internal functions: what has been done by the time a VM is promoted,    *)
(* evicted or given up, what a call has done when it returns, and that it  *)
(* comes to its end.                                                       *)
(***************************************************************************)
EXTENDS VmPoolProofs

----------------------------------------------------------------------------
(* The order of the agenda *)

\* The steps that may come right after step f; "return" is the end of the call.
Follows(f) ==
  CASE f = "observe_time" -> {"discard_stale_transitions"}
    [] f = "discard_stale_transitions" -> {"promote_ready_vms"}
    [] f = "promote_ready_vms" -> {"update_warm_surplus_marker"}
    [] f = "update_warm_surplus_marker" ->
         {"observe_time", "update_warm_surplus_marker", "start_background_creations",
          "scale_in_if_needed", "acquire", "acquire_wait", "acquire_retry", "release", "return"}
    [] f = "start_creation" -> {"start_creation", "observe_time"}
    [] f = "start_background_creations" -> {"observe_time", "update_warm_surplus_marker", "return"}
    [] f \in {"scale_in_if_needed", "evict_surplus"} -> {"start_background_creations"}
    [] f = "acquire_retry" -> {"acquire_wait"}
    [] OTHER -> {"return"}

\* What runs first when s is followed by f, and whether s may be.
First(s, f) == IF s = <<>> THEN f ELSE s[1]
Leads(s, f) == \A i \in 1..Len(s) : (IF i = Len(s) THEN f ELSE s[i + 1]) \in Follows(s[i])

StepsOf(s) == {s[i] : i \in 1..Len(s)}

LEMMA LeadsConcat ==
  ASSUME NEW s \in Seq(StepNames), NEW t \in Seq(StepNames), NEW f,
         Leads(s, First(t, f)), Leads(t, f)
  PROVE  /\ s \o t \in Seq(StepNames)
         /\ Leads(s \o t, f)
         /\ First(s \o t, f) = First(s, First(t, f))
         /\ StepsOf(s \o t) = StepsOf(s) \cup StepsOf(t)
<1>1. /\ s \o t \in Seq(StepNames) /\ Len(s \o t) = Len(s) + Len(t)
      /\ Len(s) \in Nat /\ Len(t) \in Nat
      /\ \A i \in 1..Len(s) + Len(t) : (s \o t)[i] = IF i <= Len(s) THEN s[i] ELSE t[i - Len(s)]
      /\ s # <<>> => Len(s) # 0
      /\ t # <<>> => Len(t) # 0
  BY ConcatProperties, LenProperties, EmptySeq
<1>2. ASSUME NEW i \in 1..Len(s \o t)
      PROVE  (IF i = Len(s \o t) THEN f ELSE (s \o t)[i + 1]) \in Follows((s \o t)[i])
  <2>1. i \in Int /\ i >= 1 /\ i <= Len(s) + Len(t) BY <1>1
  <2>2. CASE i < Len(s)
    <3>1. (s \o t)[i] = s[i] /\ (s \o t)[i + 1] = s[i + 1] /\ i # Len(s \o t) /\ i # Len(s)
      BY <1>1, <2>1, <2>2
    <3>2. i \in 1..Len(s) BY <1>1, <2>1, <2>2
    <3> QED BY <3>1, <3>2 DEF Leads
  <2>3. CASE i = Len(s)
    <3>1. (s \o t)[i] = s[i] /\ i \in 1..Len(s) BY <1>1, <2>1, <2>3
    <3>2. (IF i = Len(s \o t) THEN f ELSE (s \o t)[i + 1]) = First(t, f)
      <4>1. CASE t = <<>>
        BY <1>1, <2>3, <4>1 DEF First
      <4>2. CASE t # <<>>
        <5>1. i + 1 \in 1..Len(s) + Len(t) /\ i # Len(s \o t) BY <1>1, <2>1, <2>3, <4>2
        <5>2. (s \o t)[i + 1] = t[1] BY <1>1, <2>3, <5>1
        <5> QED BY <4>2, <5>1, <5>2 DEF First
      <4> QED BY <4>1, <4>2
    <3> QED BY <2>3, <3>1, <3>2 DEF Leads
  <2>4. CASE i > Len(s)
    <3> DEFINE j == i - Len(s)
    <3>1. j \in 1..Len(t) /\ (s \o t)[i] = t[j] BY <1>1, <2>1, <2>4
    <3>2. i = Len(s \o t) <=> j = Len(t) BY <1>1, <2>1
    <3>3. i # Len(s \o t) => (s \o t)[i + 1] = t[j + 1] BY <1>1, <2>1, <2>4
    <3> QED BY <3>1, <3>2, <3>3 DEF Leads
  <2>5. i < Len(s) \/ i = Len(s) \/ i > Len(s) BY <1>1, <2>1
  <2> QED BY <2>2, <2>3, <2>4, <2>5
<1>3. First(s \o t, f) = First(s, First(t, f))
  <2>1. CASE s = <<>> BY <2>1, ConcatEmptySeq DEF First
  <2>2. CASE s # <<>>
    <3>1. s \o t # <<>> /\ (s \o t)[1] = s[1] BY <1>1, <2>2
    <3> QED BY <2>2, <3>1 DEF First
  <2> QED BY <2>1, <2>2
<1>4. StepsOf(s \o t) = StepsOf(s) \cup StepsOf(t)
  <2>1. ASSUME NEW i \in 1..Len(s \o t) PROVE (s \o t)[i] \in StepsOf(s) \cup StepsOf(t)
    <3>1. CASE i <= Len(s) BY <1>1, <3>1 DEF StepsOf
    <3>2. CASE ~(i <= Len(s))
      <4>1. i - Len(s) \in 1..Len(t) BY <1>1, <3>2
      <4> QED BY <1>1, <3>2, <4>1 DEF StepsOf
    <3> QED BY <3>1, <3>2
  <2>2. ASSUME NEW i \in 1..Len(s) PROVE s[i] \in StepsOf(s \o t)
    <3>1. i \in 1..Len(s \o t) /\ (s \o t)[i] = s[i] BY <1>1
    <3> QED BY <3>1 DEF StepsOf
  <2>3. ASSUME NEW i \in 1..Len(t) PROVE t[i] \in StepsOf(s \o t)
    <3>1. i + Len(s) \in 1..Len(s \o t) /\ (s \o t)[i + Len(s)] = t[i] BY <1>1
    <3> QED BY <3>1 DEF StepsOf
  <2> QED BY <2>1, <2>2, <2>3 DEF StepsOf
<1> QED BY <1>1, <1>2, <1>3, <1>4 DEF Leads

LEMMA LeadsTail ==
  ASSUME NEW s \in Seq(StepNames), s # <<>>, NEW f, Leads(s, f)
  PROVE  /\ Tail(s) \in Seq(StepNames)
         /\ Leads(Tail(s), f)
         /\ First(Tail(s), f) \in Follows(Head(s))
         /\ StepsOf(s) = {Head(s)} \cup StepsOf(Tail(s))
         /\ Head(s) \in StepNames
<1>1. /\ Tail(s) \in Seq(StepNames) /\ Len(Tail(s)) = Len(s) - 1 /\ Len(s) \in Nat
      /\ \A i \in 1..Len(Tail(s)) : Tail(s)[i] = s[i + 1]
      /\ Head(s) = s[1] /\ Len(s) # 0 /\ Head(s) \in StepNames
      /\ Tail(s) = <<>> => Len(s) = 1
      /\ Tail(s) # <<>> => Len(s) # 1
  <2>1. /\ Tail(s) \in Seq(StepNames) /\ Len(Tail(s)) = Len(s) - 1 /\ Head(s) \in StepNames
        /\ \A i \in 1..Len(Tail(s)) : Tail(s)[i] = s[i + 1]
    BY HeadTailProperties
  <2>2. Len(s) \in Nat /\ Len(s) # 0 BY EmptySeq
  <2>3. Tail(s) # <<>> => Len(Tail(s)) # 0 BY <2>1, EmptySeq
  <2>4. Tail(s) = <<>> => Len(Tail(s)) = 0 BY EmptySeq
  <2> QED BY <2>1, <2>2, <2>3, <2>4
<1>2. ASSUME NEW i \in 1..Len(Tail(s))
      PROVE  (IF i = Len(Tail(s)) THEN f ELSE Tail(s)[i + 1]) \in Follows(Tail(s)[i])
  <2>1. i + 1 \in 1..Len(s) /\ Tail(s)[i] = s[i + 1] BY <1>1
  <2>2. i = Len(Tail(s)) <=> i + 1 = Len(s) BY <1>1
  <2>3. i # Len(Tail(s)) => Tail(s)[i + 1] = s[(i + 1) + 1]
    <3>1. Len(Tail(s)) \in Nat BY <1>1, LenProperties
    <3>2. i # Len(Tail(s)) => i + 1 \in 1..Len(Tail(s)) BY <3>1
    <3> QED BY <1>1, <3>2
  <2> QED BY <2>1, <2>2, <2>3 DEF Leads
<1>3. First(Tail(s), f) \in Follows(Head(s))
  <2>1. 1 \in 1..Len(s) BY <1>1
  <2>2. CASE Tail(s) = <<>> BY <1>1, <2>1, <2>2 DEF First, Leads
  <2>3. CASE Tail(s) # <<>>
    <3>1. Tail(s)[1] = s[1 + 1] /\ Len(s) # 1 BY <1>1, <2>3
    <3> QED BY <1>1, <2>1, <2>3, <3>1 DEF First, Leads
  <2> QED BY <2>2, <2>3
<1>4. StepsOf(s) = {Head(s)} \cup StepsOf(Tail(s))
  <2>1. ASSUME NEW i \in 1..Len(s) PROVE s[i] \in {Head(s)} \cup StepsOf(Tail(s))
    <3>1. CASE i = 1 BY <1>1, <3>1
    <3>2. CASE i # 1
      <4>1. i - 1 \in 1..Len(Tail(s)) /\ Tail(s)[i - 1] = s[i] BY <1>1, <3>2
      <4> QED BY <4>1 DEF StepsOf
    <3> QED BY <3>1, <3>2
  <2>2. Head(s) \in StepsOf(s)
    <3>1. 1 \in 1..Len(s) BY <1>1
    <3> QED BY <1>1, <3>1 DEF StepsOf
  <2>3. ASSUME NEW i \in 1..Len(Tail(s)) PROVE Tail(s)[i] \in StepsOf(s)
    <3>1. i + 1 \in 1..Len(s) /\ Tail(s)[i] = s[i + 1] BY <1>1
    <3> QED BY <3>1 DEF StepsOf
  <2> QED BY <2>1, <2>2, <2>3 DEF StepsOf
<1> QED BY <1>1, <1>2, <1>3, <1>4 DEF Leads

\* s is a chain of the steps S that starts with h and may be followed by f.
Chain(s, h, f, S) ==
  s \in Seq(StepNames) /\ Leads(s, f) /\ First(s, f) = h /\ StepsOf(s) = S

LEMMA ChainConcat ==
  ASSUME NEW s, NEW t, NEW h, NEW g, NEW f, NEW S, NEW T, Chain(s, h, g, S), Chain(t, g, f, T)
  PROVE  Chain(s \o t, h, f, S \cup T)
  BY LeadsConcat DEF Chain

LEMMA EmptyChain == \A f : Chain(<<>>, f, f, {})
<1>1. <<>> \in Seq(StepNames) /\ Len(<<>>) = 0 BY EmptySeq
<1>2. ASSUME NEW f PROVE Leads(<<>>, f) BY <1>1 DEF Leads
<1>3. StepsOf(<<>>) = {} BY <1>1 DEF StepsOf
<1> QED BY <1>1, <1>2, <1>3 DEF Chain, First

LEMMA OneStepChain ==
  ASSUME NEW g \in StepNames, NEW f, f \in Follows(g)
  PROVE  Chain(<<g>>, g, f, {g})
<1>1. <<g>> \in Seq(StepNames) /\ Leads(<<g>>, f) BY DEF Leads
<1>2. First(<<g>>, f) = g BY DEF First
<1>3. StepsOf(<<g>>) = {g}
  <2>1. Len(<<g>>) = 1 /\ <<g>>[1] = g OBVIOUS
  <2> QED BY <2>1 DEF StepsOf
<1> QED BY <1>1, <1>2, <1>3 DEF Chain

\* advance_to looks at the time, settles the VMs and updates the marker.
Refreshing == {"observe_time", "discard_stale_transitions", "promote_ready_vms",
               "update_warm_surplus_marker"}
Refilling == Refreshing \cup {"start_creation"}

LEMMA AdvanceChain ==
  ASSUME NEW f, f \in Follows("update_warm_surplus_marker")
  PROVE  Chain(AdvanceTo, "observe_time", f, Refreshing)
<1>1. /\ AdvanceTo \in Seq(StepNames) /\ Len(AdvanceTo) = 4
      /\ AdvanceTo[1] = "observe_time" /\ AdvanceTo[2] = "discard_stale_transitions"
      /\ AdvanceTo[3] = "promote_ready_vms" /\ AdvanceTo[4] = "update_warm_surplus_marker"
  BY DEF AdvanceTo, StepNames
<1>2. 1..4 = {1, 2, 3, 4} OBVIOUS
<1>3. StepsOf(AdvanceTo) = Refreshing BY <1>1, <1>2 DEF StepsOf, Refreshing
<1>4. First(AdvanceTo, f) = "observe_time" BY <1>1 DEF First, AdvanceTo
<1>5. Leads(AdvanceTo, f)
  BY <1>1, <1>2 DEF Leads, Follows
<1> QED BY <1>1, <1>3, <1>4, <1>5 DEF Chain

LEMMA CreationsChain ==
  ASSUME NEW n \in Nat
  PROVE  \/ Chain(Creations(n), "start_creation", "observe_time", {"start_creation"})
         \/ Chain(Creations(n), "observe_time", "observe_time", {})
<1>1. Creations(n) \in Seq(StepNames) BY AgendaPieces
<1>2. Len(Creations(n)) = n /\ \A i \in 1..n : Creations(n)[i] = "start_creation"
  BY DEF Creations
<1>3. CASE n = 0
  <2>1. Creations(n) = <<>> BY <1>1, <1>2, <1>3, EmptySeq
  <2> QED BY <2>1, EmptyChain
<1>4. CASE n # 0
  <2>1. 1 \in 1..n /\ Creations(n) # <<>> BY <1>2, <1>4, EmptySeq
  <2>2. Leads(Creations(n), "observe_time") BY <1>2 DEF Leads, Follows
  <2>3. StepsOf(Creations(n)) = {"start_creation"} BY <1>2, <2>1 DEF StepsOf
  <2>4. First(Creations(n), "observe_time") = "start_creation" BY <1>2, <2>1 DEF First
  <2> QED BY <1>1, <2>2, <2>3, <2>4 DEF Chain
<1> QED BY <1>3, <1>4

\* What a call puts on its agenda, each with what may come after it.
LEMMA PushedChains ==
  /\ \A n \in Nat, f \in Follows("update_warm_surplus_marker") :
       \/ Chain(Creations(n) \o AdvanceTo, "start_creation", f, Refilling)
       \/ Chain(Creations(n) \o AdvanceTo, "observe_time", f, Refreshing)
  /\ \A f \in Follows("update_warm_surplus_marker") :
       Chain(<<"start_creation">> \o AdvanceTo, "start_creation", f, Refilling)
  /\ Chain(<<"evict_surplus">>, "evict_surplus", "start_background_creations", {"evict_surplus"})
  /\ Chain((<<"start_creation">> \o AdvanceTo) \o <<"acquire_wait">>, "start_creation", "return",
           Refilling \cup {"acquire_wait"})
  /\ Chain(<<>> \o <<"acquire_wait">>, "acquire_wait", "return", {"acquire_wait"})
  /\ Chain(AdvanceTo \o <<"acquire_retry", "acquire_wait">>, "observe_time", "return",
           Refreshing \cup {"acquire_retry", "acquire_wait"})
  /\ Chain(AdvanceTo \o <<"start_background_creations">> \o AdvanceTo, "observe_time", "return",
           Refreshing \cup {"start_background_creations"})
  /\ Chain(<<"start_background_creations">> \o AdvanceTo, "start_background_creations", "return",
           Refreshing \cup {"start_background_creations"})
  /\ Chain(<<"start_background_creations", "update_warm_surplus_marker">>,
           "start_background_creations", "return",
           {"start_background_creations", "update_warm_surplus_marker"})
<1>1. ASSUME NEW f \in Follows("update_warm_surplus_marker")
      PROVE  Chain(AdvanceTo, "observe_time", f, Refreshing)
  BY AdvanceChain
<1>2. Refilling = {"start_creation"} \cup Refreshing /\ Refreshing = {} \cup Refreshing
  BY DEF Refilling
<1>3. \A n \in Nat, f \in Follows("update_warm_surplus_marker") :
       \/ Chain(Creations(n) \o AdvanceTo, "start_creation", f, Refilling)
       \/ Chain(Creations(n) \o AdvanceTo, "observe_time", f, Refreshing)
  BY <1>1, <1>2, CreationsChain, ChainConcat
<1>4. Chain(<<"start_creation">>, "start_creation", "observe_time", {"start_creation"})
  BY OneStepChain DEF StepNames, Follows
<1>5. \A f \in Follows("update_warm_surplus_marker") :
       Chain(<<"start_creation">> \o AdvanceTo, "start_creation", f, Refilling)
  BY <1>1, <1>2, <1>4, ChainConcat
<1>6. Chain(<<"evict_surplus">>, "evict_surplus", "start_background_creations", {"evict_surplus"})
  BY OneStepChain DEF StepNames, Follows
<1>7. Chain(<<"acquire_wait">>, "acquire_wait", "return", {"acquire_wait"})
  BY OneStepChain DEF StepNames, Follows
<1>8. {"observe_time", "acquire_wait", "acquire_retry", "start_background_creations", "return"}
        \subseteq Follows("update_warm_surplus_marker")
  BY DEF Follows
<1>9. Chain((<<"start_creation">> \o AdvanceTo) \o <<"acquire_wait">>, "start_creation", "return",
            Refilling \cup {"acquire_wait"})
  BY <1>5, <1>7, <1>8, ChainConcat
<1>10. Chain(<<>> \o <<"acquire_wait">>, "acquire_wait", "return", {"acquire_wait"})
  <2>1. <<>> \o <<"acquire_wait">> = <<"acquire_wait">> BY <1>7, ConcatEmptySeq DEF Chain
  <2> QED BY <1>7, <2>1
<1>11. Chain(AdvanceTo \o <<"acquire_retry", "acquire_wait">>, "observe_time", "return",
             Refreshing \cup {"acquire_retry", "acquire_wait"})
  <2>1. Chain(<<"acquire_retry">>, "acquire_retry", "acquire_wait", {"acquire_retry"})
    BY OneStepChain DEF StepNames, Follows
  <2>2. <<"acquire_retry", "acquire_wait">> = <<"acquire_retry">> \o <<"acquire_wait">> OBVIOUS
  <2>3. {"acquire_retry", "acquire_wait"} = {"acquire_retry"} \cup {"acquire_wait"} OBVIOUS
  <2>4. Chain(<<"acquire_retry", "acquire_wait">>, "acquire_retry", "return",
              {"acquire_retry", "acquire_wait"})
    <3>1. Chain(<<"acquire_retry">> \o <<"acquire_wait">>, "acquire_retry", "return",
                {"acquire_retry"} \cup {"acquire_wait"})
      BY <1>7, <2>1, ChainConcat
    <3> QED BY <2>2, <2>3, <3>1, Zenon
  <2> QED BY <1>1, <1>8, <2>4, ChainConcat
<1>12. Chain(<<"start_background_creations">> \o AdvanceTo, "start_background_creations", "return",
             Refreshing \cup {"start_background_creations"})
  <2>1. Chain(<<"start_background_creations">>, "start_background_creations", "observe_time",
              {"start_background_creations"})
    BY OneStepChain DEF StepNames, Follows
  <2>2. Refreshing \cup {"start_background_creations"} = {"start_background_creations"} \cup Refreshing
    OBVIOUS
  <2> QED BY <1>1, <1>8, <2>1, <2>2, ChainConcat
<1>13. Chain(AdvanceTo \o <<"start_background_creations">> \o AdvanceTo, "observe_time", "return",
             Refreshing \cup {"start_background_creations"})
  <2>1. Chain(<<"start_background_creations">>, "start_background_creations", "observe_time",
              {"start_background_creations"})
    BY OneStepChain DEF StepNames, Follows
  <2>2. Chain(AdvanceTo \o <<"start_background_creations">>, "observe_time", "observe_time",
              Refreshing \cup {"start_background_creations"})
    BY <1>1, <1>8, <2>1, ChainConcat
  <2>3. Refreshing \cup {"start_background_creations"}
          = (Refreshing \cup {"start_background_creations"}) \cup Refreshing
    OBVIOUS
  <2> QED BY <1>1, <1>8, <2>2, <2>3, ChainConcat
<1>14. Chain(<<"start_background_creations", "update_warm_surplus_marker">>,
             "start_background_creations", "return",
             {"start_background_creations", "update_warm_surplus_marker"})
  <2>1. Chain(<<"start_background_creations">>, "start_background_creations",
              "update_warm_surplus_marker", {"start_background_creations"})
    BY OneStepChain DEF StepNames, Follows
  <2>2. Chain(<<"update_warm_surplus_marker">>, "update_warm_surplus_marker", "return",
              {"update_warm_surplus_marker"})
    BY OneStepChain DEF StepNames, Follows
  <2>3. <<"start_background_creations", "update_warm_surplus_marker">>
          = <<"start_background_creations">> \o <<"update_warm_surplus_marker">>
    OBVIOUS
  <2>4. {"start_background_creations", "update_warm_surplus_marker"}
          = {"start_background_creations"} \cup {"update_warm_surplus_marker"}
    OBVIOUS
  <2>5. Chain(<<"start_background_creations">> \o <<"update_warm_surplus_marker">>,
              "start_background_creations", "return",
              {"start_background_creations"} \cup {"update_warm_surplus_marker"})
    BY <2>1, <2>2, ChainConcat
  <2> QED BY <2>3, <2>4, <2>5, Zenon
<1> QED BY <1>3, <1>5, <1>6, <1>9, <1>10, <1>11, <1>12, <1>13, <1>14

\* The agenda of a call: every step is followed by one that may follow it.
Linked == Leads(agenda, "return")
Upcoming == First(agenda, "return")

LEMMA AtIsUpcoming ==
  ASSUME NEW f, f # "return"
  PROVE  /\ At(f) <=> Upcoming = f
         /\ agenda # <<>> => Upcoming = Head(agenda)
  BY DEF At, Upcoming, First

\* What one step makes of the agenda: it takes itself off, or it also pushes
\* the steps S, the first of which is h, or it starts a new agenda of them.
Pops == /\ agenda' = Tail(agenda)
        /\ Upcoming' \in Follows(Head(agenda))
        /\ StepsOf(agenda) = {Head(agenda)} \cup StepsOf(agenda')
Pushes(h, S) == /\ Upcoming' = h
                /\ StepsOf(agenda') = S \cup StepsOf(Tail(agenda))
                /\ StepsOf(agenda) = {Head(agenda)} \cup StepsOf(Tail(agenda))
Restarts(h, S) == Upcoming' = h /\ StepsOf(agenda') = S

LEMMA ProceedMoves ==
  ASSUME agenda \in Seq(StepNames), agenda # <<>>, Linked, NEW steps, Proceed(steps),
         NEW h, NEW S, Chain(steps, h, First(Tail(agenda), "return"), S)
  PROVE  Linked' /\ Pushes(h, S)
<1>1. /\ Tail(agenda) \in Seq(StepNames) /\ Leads(Tail(agenda), "return")
      /\ StepsOf(agenda) = {Head(agenda)} \cup StepsOf(Tail(agenda))
  BY LeadsTail DEF Linked
<1>2. Chain(Tail(agenda), First(Tail(agenda), "return"), "return", StepsOf(Tail(agenda)))
  BY <1>1 DEF Chain
<1>3. Chain(agenda', h, "return", S \cup StepsOf(Tail(agenda)))
  BY <1>2, ChainConcat DEF Proceed
<1> QED BY <1>1, <1>3 DEF Linked, Chain, Pushes, Upcoming

LEMMA PopMoves ==
  ASSUME agenda \in Seq(StepNames), agenda # <<>>, Linked, Proceed(<<>>)
  PROVE  Linked' /\ Pops
<1>1. /\ Tail(agenda) \in Seq(StepNames) /\ Leads(Tail(agenda), "return")
      /\ First(Tail(agenda), "return") \in Follows(Head(agenda))
      /\ StepsOf(agenda) = {Head(agenda)} \cup StepsOf(Tail(agenda))
  BY LeadsTail DEF Linked
<1>2. agenda' = Tail(agenda) BY <1>1, ConcatEmptySeq DEF Proceed
<1> QED BY <1>1, <1>2 DEF Linked, Pops, Upcoming

LEMMA RestartMoves ==
  ASSUME NEW h, NEW S, Chain(agenda', h, "return", S)
  PROVE  Linked' /\ Restarts(h, S)
  BY DEF Chain, Linked, Restarts, Upcoming

\* Each step's move.
PoppingStep == \/ ObserveTime \/ NoneStale \/ NoneReady \/ UpdateWarmSurplusMarker
               \/ SurplusEvicted \/ AcquireTimedOut
StayingStep == DiscardStale \/ PromoteHealthy \/ DiscardUnhealthy \/ EvictSurplus
FailingStep == RejectPast \/ CreationFails \/ ReleaseRejected

\* A step is the first one of the agenda.
LEMMA AgendaNotEmpty ==
  ASSUME Step
  PROVE  agenda # <<>>
  BY DEF Step, At, ObserveTime, RejectPast, DiscardStale, NoneStale, PromoteHealthy,
       DiscardUnhealthy, NoneReady, UpdateWarmSurplusMarker, StartCreation, CreationFails,
       StartBackgroundCreations, ScaleInIfNeeded, EvictSurplus, SurplusEvicted, AcquireHit,
       AcquireMiss, AcquireWaited, AcquireSkipAhead, AcquireRetry, AcquireTimedOut,
       ReleaseRejected, ReleaseScrubbed, ReleaseUnscrubbed

\* The first step of the agenda says which action runs.
LEMMA HeadStep ==
  ASSUME Step
  PROVE  /\ Head(agenda) \in Refreshing =>
              \/ ObserveTime \/ RejectPast \/ DiscardStale \/ NoneStale \/ PromoteHealthy
              \/ DiscardUnhealthy \/ NoneReady \/ UpdateWarmSurplusMarker
         /\ Head(agenda) = "start_creation" => StartCreation \/ CreationFails
         /\ Head(agenda) = "start_background_creations" => StartBackgroundCreations
         /\ Head(agenda) = "acquire" => AcquireHit \/ AcquireMiss
         /\ Head(agenda) = "acquire_wait" => AcquireWaited \/ AcquireSkipAhead \/ AcquireTimedOut
         /\ Head(agenda) = "acquire_retry" => AcquireRetry
         /\ Head(agenda) = "release" => ReleaseRejected \/ ReleaseScrubbed \/ ReleaseUnscrubbed
  BY DEF Step, Refreshing, At, ObserveTime, RejectPast, DiscardStale, NoneStale, PromoteHealthy,
     DiscardUnhealthy, NoneReady, UpdateWarmSurplusMarker, StartCreation, CreationFails,
     StartBackgroundCreations, ScaleInIfNeeded, EvictSurplus, SurplusEvicted, AcquireHit,
     AcquireMiss, AcquireWaited, AcquireSkipAhead, AcquireRetry, AcquireTimedOut,
     ReleaseRejected, ReleaseScrubbed, ReleaseUnscrubbed

LEMMA AgendaStep ==
  ASSUME CoreTypeOK, Linked, Step
  PROVE  /\ Linked'
         /\ PoppingStep => Pops
         /\ StayingStep => Fail \/ (agenda' = agenda /\ UNCHANGED op)
         /\ FailingStep => Fail
         /\ StartCreation => Pops \/ Fail
         /\ StartBackgroundCreations =>
              Pushes("start_creation", Refilling) \/ Pushes("observe_time", Refreshing)
         /\ ScaleInIfNeeded =>
              IF SurplusIsOld THEN Pushes("evict_surplus", {"evict_surplus"}) ELSE Pops
         /\ AcquireHit \/ AcquireWaited =>
              Restarts("start_background_creations", Refreshing \cup {"start_background_creations"})
         /\ AcquireMiss =>
              \/ Fail
              \/ NothingOnTheWay /\ Pushes("start_creation", Refilling \cup {"acquire_wait"})
              \/ ~NothingOnTheWay /\ Pushes("acquire_wait", {"acquire_wait"})
         /\ AcquireSkipAhead =>
              Pushes("observe_time", Refreshing \cup {"acquire_retry", "acquire_wait"})
         /\ AcquireRetry =>
              IF OldestWarm = {} /\ NothingOnTheWay /\ op.now < op.deadline
              THEN Pushes("start_creation", Refilling) ELSE Pops
         /\ ReleaseScrubbed =>
              Fail \/ Pushes("observe_time", Refreshing \cup {"start_background_creations"})
         /\ ReleaseUnscrubbed =>
              \/ Fail
              \/ Restarts("start_background_creations",
                          {"start_background_creations", "update_warm_surplus_marker"})
<1> USE DEF At
<1>a. agenda \in Seq(StepNames) BY DEF CoreTypeOK
<1>b. /\ Fail => Linked'
      /\ agenda' = agenda => Linked'
  BY EmptyChain DEF Fail, Linked, Chain
<1>c. agenda # <<>> => First(Tail(agenda), "return") \in Follows(Head(agenda))
  BY <1>a, LeadsTail DEF Linked
<1>d. Follows("start_background_creations") \subseteq Follows("update_warm_surplus_marker")
  BY DEF Follows
<1>1. ASSUME PoppingStep PROVE Linked' /\ Pops
  <2>1. agenda # <<>> /\ Proceed(<<>>)
    BY <1>1 DEF PoppingStep, ObserveTime, NoneStale, NoneReady, UpdateWarmSurplusMarker,
         SurplusEvicted, AcquireTimedOut
  <2> QED BY <1>a, <2>1, PopMoves
<1>2. ASSUME StayingStep PROVE Linked' /\ (Fail \/ (agenda' = agenda /\ UNCHANGED op))
  <2>1. CASE PromoteHealthy
    BY <1>b, <2>1 DEF PromoteHealthy
  <2>2. CASE DiscardStale \/ DiscardUnhealthy \/ EvictSurplus
    <3>1. \E v, failed : DiscardVm(v, failed, agenda)
      BY <2>2 DEF DiscardStale, DiscardUnhealthy, EvictSurplus
    <3> QED BY <1>b, <3>1 DEF DiscardVm
  <2> QED BY <1>2, <2>1, <2>2 DEF StayingStep
<1>3. ASSUME FailingStep PROVE Linked' /\ Fail
  BY <1>3, <1>b DEF FailingStep, RejectPast, CreationFails, ReleaseRejected
<1>4. ASSUME StartCreation PROVE Linked' /\ (Pops \/ Fail)
  <2>1. agenda # <<>> /\ (Proceed(<<>>) \/ Fail) BY <1>4 DEF StartCreation, InsertCreated
  <2> QED BY <1>a, <1>b, <2>1, PopMoves
<1>5. ASSUME StartBackgroundCreations
      PROVE  Linked' /\ (Pushes("start_creation", Refilling) \/ Pushes("observe_time", Refreshing))
  <2> DEFINE next == First(Tail(agenda), "return")
             steps == Creations(BackgroundCreationTarget) \o AdvanceTo
  <2>1. agenda # <<>> /\ Proceed(steps) /\ next \in Follows("update_warm_surplus_marker")
    BY <1>5, <1>c, <1>d DEF StartBackgroundCreations
  <2>2. Chain(steps, "start_creation", next, Refilling) \/ Chain(steps, "observe_time", next, Refreshing)
    BY <2>1, TargetType, PushedChains
  <2> HIDE DEF steps
  <2> QED BY <1>a, <2>1, <2>2, ProceedMoves
<1>6. ASSUME ScaleInIfNeeded
      PROVE  Linked' /\ IF SurplusIsOld THEN Pushes("evict_surplus", {"evict_surplus"}) ELSE Pops
  <2>1. agenda # <<>> /\ Head(agenda) = "scale_in_if_needed"
        /\ Proceed(IF SurplusIsOld THEN <<"evict_surplus">> ELSE <<>>)
    BY <1>6 DEF ScaleInIfNeeded
  <2>2. First(Tail(agenda), "return") = "start_background_creations"
    BY <1>c, <2>1 DEF Follows
  <2>3. Chain(<<"evict_surplus">>, "evict_surplus", First(Tail(agenda), "return"), {"evict_surplus"})
    BY <2>2, PushedChains
  <2>4. CASE SurplusIsOld
    <3>1. Proceed(<<"evict_surplus">>) BY <2>1, <2>4
    <3> QED BY <1>a, <2>1, <2>3, <2>4, <3>1, ProceedMoves
  <2>5. CASE ~SurplusIsOld
    <3>1. Proceed(<<>>) BY <2>1, <2>5
    <3> QED BY <1>a, <2>1, <2>5, <3>1, PopMoves
  <2> QED BY <2>4, <2>5
<1>7. ASSUME AcquireHit \/ AcquireWaited
      PROVE  Linked' /\ Restarts("start_background_creations",
                                 Refreshing \cup {"start_background_creations"})
  <2>1. agenda' = <<"start_background_creations">> \o AdvanceTo
    BY <1>7 DEF AcquireHit, AcquireWaited, LeaseVm
  <2> QED BY <2>1, PushedChains, RestartMoves
<1>8. ASSUME AcquireMiss
      PROVE  /\ Linked'
             /\ \/ Fail
                \/ NothingOnTheWay /\ Pushes("start_creation", Refilling \cup {"acquire_wait"})
                \/ ~NothingOnTheWay /\ Pushes("acquire_wait", {"acquire_wait"})
  <2>1. /\ agenda # <<>> /\ Head(agenda) = "acquire"
        /\ \/ Fail
           \/ NothingOnTheWay /\ Proceed((<<"start_creation">> \o AdvanceTo) \o <<"acquire_wait">>)
           \/ ~NothingOnTheWay /\ Proceed(<<>> \o <<"acquire_wait">>)
    BY <1>8 DEF AcquireMiss
  <2>2. First(Tail(agenda), "return") = "return" BY <1>c, <2>1 DEF Follows
  <2>3. /\ Chain((<<"start_creation">> \o AdvanceTo) \o <<"acquire_wait">>, "start_creation",
                 First(Tail(agenda), "return"), Refilling \cup {"acquire_wait"})
        /\ Chain(<<>> \o <<"acquire_wait">>, "acquire_wait", First(Tail(agenda), "return"),
                 {"acquire_wait"})
    BY <2>2, PushedChains
  <2>4. CASE Fail BY <1>b, <2>4
  <2>5. CASE NothingOnTheWay /\ Proceed((<<"start_creation">> \o AdvanceTo) \o <<"acquire_wait">>)
    BY <1>a, <2>1, <2>3, <2>5, ProceedMoves
  <2>6. CASE ~NothingOnTheWay /\ Proceed(<<>> \o <<"acquire_wait">>)
    BY <1>a, <2>1, <2>3, <2>6, ProceedMoves
  <2> QED BY <2>1, <2>4, <2>5, <2>6
<1>9. ASSUME AcquireSkipAhead
      PROVE  Linked' /\ Pushes("observe_time", Refreshing \cup {"acquire_retry", "acquire_wait"})
  <2>1. /\ agenda # <<>> /\ Head(agenda) = "acquire_wait"
        /\ Proceed(AdvanceTo \o <<"acquire_retry", "acquire_wait">>)
    BY <1>9 DEF AcquireSkipAhead
  <2>2. First(Tail(agenda), "return") = "return" BY <1>c, <2>1 DEF Follows
  <2>3. Chain(AdvanceTo \o <<"acquire_retry", "acquire_wait">>, "observe_time",
              First(Tail(agenda), "return"), Refreshing \cup {"acquire_retry", "acquire_wait"})
    BY <2>2, PushedChains
  <2> QED BY <1>a, <2>1, <2>3, ProceedMoves
<1>10. ASSUME AcquireRetry
       PROVE  /\ Linked'
              /\ IF OldestWarm = {} /\ NothingOnTheWay /\ op.now < op.deadline
                 THEN Pushes("start_creation", Refilling) ELSE Pops
  <2>1. /\ agenda # <<>> /\ Head(agenda) = "acquire_retry"
        /\ Proceed(IF OldestWarm = {} /\ NothingOnTheWay /\ op.now < op.deadline
                   THEN <<"start_creation">> \o AdvanceTo ELSE <<>>)
    BY <1>10 DEF AcquireRetry
  <2>2. First(Tail(agenda), "return") \in Follows("update_warm_surplus_marker")
    BY <1>c, <2>1 DEF Follows
  <2>3. Chain(<<"start_creation">> \o AdvanceTo, "start_creation", First(Tail(agenda), "return"),
              Refilling)
    BY <2>2, PushedChains
  <2>4. CASE OldestWarm = {} /\ NothingOnTheWay /\ op.now < op.deadline
    <3>1. Proceed(<<"start_creation">> \o AdvanceTo) BY <2>1, <2>4
    <3> QED BY <1>a, <2>1, <2>3, <2>4, <3>1, ProceedMoves
  <2>5. CASE ~(OldestWarm = {} /\ NothingOnTheWay /\ op.now < op.deadline)
    <3>1. Proceed(<<>>) BY <2>1, <2>5
    <3> QED BY <1>a, <2>1, <2>5, <3>1, PopMoves
  <2> QED BY <2>4, <2>5
<1>11. ASSUME ReleaseScrubbed
       PROVE  /\ Linked'
              /\ Fail \/ Pushes("observe_time", Refreshing \cup {"start_background_creations"})
  <2>1. /\ agenda # <<>> /\ Head(agenda) = "release"
        /\ Fail \/ Proceed(AdvanceTo \o <<"start_background_creations">> \o AdvanceTo)
    BY <1>11 DEF ReleaseScrubbed
  <2>2. First(Tail(agenda), "return") = "return" BY <1>c, <2>1 DEF Follows
  <2>3. Chain(AdvanceTo \o <<"start_background_creations">> \o AdvanceTo, "observe_time",
              First(Tail(agenda), "return"), Refreshing \cup {"start_background_creations"})
    BY <2>2, PushedChains
  <2> QED BY <1>a, <1>b, <2>1, <2>3, ProceedMoves
<1>12. ASSUME ReleaseUnscrubbed
       PROVE  /\ Linked'
              /\ \/ Fail
                 \/ Restarts("start_background_creations",
                             {"start_background_creations", "update_warm_surplus_marker"})
  <2>1. Fail \/ agenda' = <<"start_background_creations", "update_warm_surplus_marker">>
    BY <1>12 DEF ReleaseUnscrubbed, DiscardVm
  <2> QED BY <1>b, <2>1, PushedChains, RestartMoves
<1>13. Linked'
  BY <1>1, <1>2, <1>3, <1>4, <1>5, <1>6, <1>7, <1>8, <1>9, <1>10, <1>11, <1>12
     DEF Step, PoppingStep, StayingStep, FailingStep
<1> QED BY <1>1, <1>2, <1>3, <1>4, <1>5, <1>6, <1>7, <1>8, <1>9, <1>10, <1>11, <1>12, <1>13

\* The name of a call stays, and observed time does not run backwards.
LEMMA CallGoesOn ==
  ASSUME CoreTypeOK, Step
  PROVE  op'.name = op.name /\ lastObserved' >= lastObserved
<1>1. CASE ObserveTime
  BY <1>1, TimesAssumption DEF ObserveTime, CoreTypeOK, CallTypeOK, NoInstant
<1>2. CASE Step /\ ~ObserveTime
  <2>1. UNCHANGED lastObserved
    BY <1>2 DEF Step, RejectPast, DiscardStale, NoneStale, PromoteHealthy, DiscardUnhealthy,
       NoneReady, UpdateWarmSurplusMarker, StartCreation, CreationFails, StartBackgroundCreations,
       ScaleInIfNeeded, EvictSurplus, SurplusEvicted, AcquireHit, AcquireMiss, AcquireWaited,
       LeaseVm, AcquireSkipAhead, AcquireRetry, AcquireTimedOut, ReleaseRejected,
       ReleaseScrubbed, ReleaseUnscrubbed
  <2>2. CASE AcquireHit \/ AcquireWaited \/ AcquireSkipAhead \/ AcquireTimedOut
    <3>1. \/ op' = [op EXCEPT !.result = "timed_out"]
          \/ \E t : op' = [op EXCEPT !.now = t]
          \/ \E v : op' = [op EXCEPT !.vm = v, !.result = "acquired"]
      BY <2>2 DEF AcquireHit, AcquireWaited, LeaseVm, AcquireSkipAhead, AcquireTimedOut
    <3>2. op'.name = op.name BY <3>1 DEF CoreTypeOK, CallTypeOK
    <3> QED BY <2>1, <3>2 DEF CoreTypeOK, NoInstant
  <2>3. CASE ~(AcquireHit \/ AcquireWaited \/ AcquireSkipAhead \/ AcquireTimedOut)
    <3>1. UNCHANGED op \/ Fail
      BY <1>2, <2>3 DEF Step, RejectPast, DiscardStale, NoneStale, PromoteHealthy,
       DiscardUnhealthy, NoneReady, UpdateWarmSurplusMarker, StartCreation, InsertCreated,
       CreationFails, StartBackgroundCreations, ScaleInIfNeeded, EvictSurplus, SurplusEvicted,
       AcquireMiss, AcquireRetry, ReleaseRejected, ReleaseScrubbed, ReleaseUnscrubbed, DiscardVm
    <3>2. op'.name = op.name BY <3>1 DEF Fail, CoreTypeOK, CallTypeOK
    <3> QED BY <2>1, <3>2 DEF CoreTypeOK, NoInstant
  <2> QED BY <2>2, <2>3
<1> QED BY <1>1, <1>2

\* The steps that each public method may come to run.
OwnSteps(name) ==
  LET inner == Refilling \cup {"start_background_creations"}
  IN CASE name = "refill" -> inner
       [] name = "reap" -> inner \cup {"scale_in_if_needed", "evict_surplus"}
       [] name = "release" -> inner \cup {"release"}
       [] name = "acquire" -> inner \cup {"acquire", "acquire_wait", "acquire_retry"}
       [] OTHER -> {}

OwnAgenda == StepsOf(agenda) \subseteq OwnSteps(op.name)

LEMMA OwnAgendaStep ==
  ASSUME CoreTypeOK, Linked, OwnAgenda, Step
  PROVE  OwnAgenda' /\ Head(agenda) \in OwnSteps(op.name)
<1> DEFINE own == OwnSteps(op.name)
<1>1. agenda # <<>> /\ op'.name = op.name BY CallGoesOn, AgendaNotEmpty
<1>2. Head(agenda) \in own /\ StepsOf(Tail(agenda)) \subseteq own
  BY <1>1, LeadsTail DEF Linked, OwnAgenda, CoreTypeOK
<1>3. own # {} BY <1>2
<1>4. Refilling \cup {"start_background_creations"} \subseteq own /\ Refreshing \subseteq own
  BY <1>3 DEF OwnSteps, Refilling
<1>5. /\ Head(agenda) \in {"acquire", "acquire_wait", "acquire_retry"}
           => {"acquire_wait", "acquire_retry"} \subseteq own
      /\ Head(agenda) = "scale_in_if_needed" => "evict_surplus" \in own
  BY <1>2 DEF OwnSteps, Refilling, Refreshing
<1>6. StepsOf(<<>>) = {} BY EmptyChain DEF Chain
<1> HIDE DEF own
<1>7. Fail => StepsOf(agenda') \subseteq own BY <1>6 DEF Fail
<1>8. Pops \/ agenda' = agenda => StepsOf(agenda') \subseteq own
  BY <1>2 DEF Pops, OwnAgenda, own
<1>9. \A h, S : S \subseteq own /\ (Pushes(h, S) \/ Restarts(h, S)) => StepsOf(agenda') \subseteq own
  BY <1>2 DEF Pushes, Restarts
<1>10. StepsOf(agenda') \subseteq own
  <2>1. CASE PoppingStep \/ StayingStep \/ FailingStep \/ StartCreation
    BY <2>1, <1>7, <1>8, AgendaStep
  <2>2. CASE StartBackgroundCreations \/ AcquireHit \/ AcquireWaited
    <3>1. Refreshing \cup {"start_background_creations"} \subseteq own /\ Refilling \subseteq own
      BY <1>4
    <3> QED BY <2>2, <3>1, <1>4, <1>9, AgendaStep
  <2>3. CASE ScaleInIfNeeded
    <3>1. {"evict_surplus"} \subseteq own BY <1>5, <2>3 DEF ScaleInIfNeeded, At
    <3> QED BY <2>3, <3>1, <1>8, <1>9, AgendaStep
  <2>4. CASE AcquireMiss \/ AcquireSkipAhead \/ AcquireRetry
    <3>1. /\ Refilling \cup {"acquire_wait"} \subseteq own /\ {"acquire_wait"} \subseteq own
          /\ Refreshing \cup {"acquire_retry", "acquire_wait"} \subseteq own /\ Refilling \subseteq own
      BY <1>4, <1>5, <2>4 DEF AcquireMiss, AcquireSkipAhead, AcquireRetry, At
    <3> QED BY <2>4, <3>1, <1>7, <1>8, <1>9, AgendaStep
  <2>5. CASE ReleaseScrubbed \/ ReleaseUnscrubbed
    <3>1. /\ Refreshing \cup {"start_background_creations"} \subseteq own
          /\ {"start_background_creations", "update_warm_surplus_marker"} \subseteq own
      BY <1>4 DEF Refilling, Refreshing
    <3> QED BY <2>5, <3>1, <1>7, <1>9, AgendaStep
  <2> QED BY <2>1, <2>2, <2>3, <2>4, <2>5 DEF Step, PoppingStep, StayingStep, FailingStep
<1> QED BY <1>1, <1>2, <1>10 DEF OwnAgenda, own

\* The agendas the public methods start with.
LEMMA CallAgenda ==
  ASSUME Call
  PROVE  /\ Linked' /\ OwnAgenda' /\ Upcoming' = "observe_time"
         /\ Refill => "start_background_creations" \in StepsOf(agenda')
         /\ Acquire => "acquire" \in StepsOf(agenda')
                       /\ StepsOf(agenda') \cap {"acquire_wait", "acquire_retry"} = {}
         /\ Release => "release" \in StepsOf(agenda')
         /\ Reap => "start_background_creations" \in StepsOf(agenda')
<1>1. {"start_background_creations", "acquire", "release", "scale_in_if_needed", "return"}
        \subseteq Follows("update_warm_surplus_marker")
  BY DEF Follows
<1>2. ASSUME NEW steps, NEW h \in Follows("update_warm_surplus_marker"), NEW S,
             Chain(steps, h, "return", S), agenda' = AdvanceTo \o steps
      PROVE  Linked' /\ Upcoming' = "observe_time" /\ StepsOf(agenda') = Refreshing \cup S
  <2>1. Chain(agenda', "observe_time", "return", Refreshing \cup S)
    BY <1>2, AdvanceChain, ChainConcat
  <2> QED BY <2>1 DEF Chain, Linked, Upcoming
<1>3. ASSUME NEW f \in {"start_background_creations", "acquire", "release"},
             agenda' = AdvanceTo \o <<f>>
      PROVE  Linked' /\ Upcoming' = "observe_time" /\ StepsOf(agenda') = Refreshing \cup {f}
  <2>1. Chain(<<f>>, f, "return", {f}) BY <1>3, OneStepChain DEF StepNames, Follows
  <2> QED BY <1>1, <1>2, <1>3, <2>1
<1>4. CASE Refill
  <2>1. agenda' = AdvanceTo \o <<"start_background_creations">> /\ op'.name = "refill"
    BY <1>4 DEF Refill, Begin
  <2>2. ~Acquire /\ ~Release /\ ~Reap
    BY <2>1 DEF Acquire, Release, Reap, Begin
  <2> QED BY <1>3, <2>1, <2>2 DEF OwnAgenda, OwnSteps, Refilling
<1>5. CASE Acquire
  <2>1. agenda' = AdvanceTo \o <<"acquire">> /\ op'.name = "acquire"
    BY <1>5 DEF Acquire, Begin
  <2>2. ~Refill /\ ~Release /\ ~Reap
    BY <2>1 DEF Refill, Release, Reap, Begin
  <2> QED BY <1>3, <2>1, <2>2 DEF OwnAgenda, OwnSteps, Refilling, Refreshing
<1>6. CASE Release
  <2>1. agenda' = AdvanceTo \o <<"release">> /\ op'.name = "release"
    BY <1>6 DEF Release, Begin
  <2>2. ~Refill /\ ~Acquire /\ ~Reap
    BY <2>1 DEF Refill, Acquire, Reap, Begin
  <2> QED BY <1>3, <2>1, <2>2 DEF OwnAgenda, OwnSteps, Refilling
<1>7. CASE Reap
  <2> DEFINE scaleIn == <<"scale_in_if_needed", "start_background_creations">> \o AdvanceTo
  <2>1. agenda' = AdvanceTo \o scaleIn /\ op'.name = "reap"
    BY <1>7 DEF Reap, Begin
  <2>2. ~Refill /\ ~Acquire /\ ~Release
    BY <2>1 DEF Refill, Acquire, Release, Begin
  <2>3. Chain(<<"start_background_creations">>, "start_background_creations", "observe_time",
              {"start_background_creations"})
    BY OneStepChain DEF StepNames, Follows
  <2>4. Chain(<<"scale_in_if_needed">>, "scale_in_if_needed", "start_background_creations",
              {"scale_in_if_needed"})
    BY OneStepChain DEF StepNames, Follows
  <2>5. <<"scale_in_if_needed", "start_background_creations">>
          = <<"scale_in_if_needed">> \o <<"start_background_creations">>
    OBVIOUS
  <2>6. Chain(<<"scale_in_if_needed">> \o <<"start_background_creations">>, "scale_in_if_needed",
              "observe_time", {"scale_in_if_needed"} \cup {"start_background_creations"})
    BY <2>3, <2>4, ChainConcat
  <2>7. Chain(AdvanceTo, "observe_time", "return", Refreshing) BY <1>1, AdvanceChain
  <2>8. Chain(scaleIn, "scale_in_if_needed", "return",
              ({"scale_in_if_needed"} \cup {"start_background_creations"}) \cup Refreshing)
    BY <2>5, <2>6, <2>7, ChainConcat
  <2> HIDE DEF scaleIn
  <2> QED BY <1>1, <1>2, <2>1, <2>2, <2>8 DEF OwnAgenda, OwnSteps, Refilling
<1> QED BY <1>4, <1>5, <1>6, <1>7 DEF Call

----------------------------------------------------------------------------
(* Time inside a call *)

\* No VM of the pool is overdue: none will be ready only after its time is over.
LimitIn(pool, v) ==
  pool[v].changedAt + (IF pool[v].state = "Creating" THEN CreateTimeout ELSE DrainTimeout)
NoneOverdue(pool, now) ==
  \A v \in Vms : /\ pool[v].state \in {"Creating", "Draining"}
                 /\ LimitIn(pool, v) <= MaxInstant
                 /\ now >= LimitIn(pool, v)
                 => ~(pool[v].readyAt > LimitIn(pool, v))

LEMMA StaleOverdue == \A now : StaleAt(now) = {} <=> NoneOverdue(vms, now)
  BY DEF StaleAt, Pending, VmsIn, TimeoutOf, NoneOverdue, LimitIn

\* Neither a promotion nor a disposal makes another VM overdue.
LEMMA StaleShrinks ==
  ASSUME CoreTypeOK, NEW v, NEW w, w.state \notin {"Creating", "Draining"},
         vms' = [vms EXCEPT ![v] = w], NEW now \in Nat, NoneOverdue(vms, now)
  PROVE  NoneOverdue(vms', now)
<1>1. ASSUME NEW u \in Vms, vms'[u].state \in {"Creating", "Draining"} PROVE vms'[u] = vms[u]
  BY <1>1 DEF CoreTypeOK, PoolTypeOK
<1> QED BY <1>1 DEF NoneOverdue, LimitIn

\* While a call is under way or about to return without an error, the step it
\* runs next finds the pool as its predecessors left it: the time is observed,
\* no VM is overdue once the stale ones are gone, none is ready once those are
\* promoted, and where the warm VMs are looked at the surplus marker is right.
Live == agenda # <<>> \/ (~Idle /\ op.result # "err")
MarkerRight == (surplusSince # NoInstant) <=> (WarmCount(vms) > ScaleInThreshold)
SettledFor(f) ==
  /\ f # "observe_time" => op.now = lastObserved
  /\ f \notin {"observe_time", "discard_stale_transitions", "start_creation"} =>
       /\ NoneOverdue(vms, op.now)
       /\ f # "promote_ready_vms" => ReadyAt(op.now) = {}
  /\ f \in {"acquire", "acquire_wait", "acquire_retry", "return"} => MarkerRight
OrderInv == Linked /\ OwnAgenda /\ (Live => SettledFor(Upcoming))

LEMMA SettledHere ==
  ASSUME OrderInv, agenda # <<>>
  PROVE  SettledFor(Head(agenda))
  BY DEF OrderInv, Live, Upcoming, First

\* A step changes no more VMs than one, and adds none that is pending.
LEMMA FewerPending ==
  ASSUME CoreTypeOK, NEW v, NEW w, w.state \notin {"Creating", "Draining"},
         vms' = [vms EXCEPT ![v] = w], ReadyAt(op.now) = {}, op'.now = op.now
  PROVE  (ReadyAt(op.now) = {})'
<1>1. ASSUME NEW u \in Vms, vms'[u].state \in {"Creating", "Draining"} PROVE vms'[u] = vms[u]
  BY <1>1 DEF CoreTypeOK, PoolTypeOK
<1> QED BY <1>1 DEF ReadyAt, Pending, VmsIn

LEMMA SameSettled ==
  ASSUME UNCHANGED vms, op'.now = op.now
  PROVE  /\ NoneOverdue(vms, op.now)' <=> NoneOverdue(vms, op.now)
         /\ (ReadyAt(op.now) = {})' <=> ReadyAt(op.now) = {}
         /\ UNCHANGED surplusSince => (MarkerRight' <=> MarkerRight)
<1>1. WarmCount(vms)' = WarmCount(vms) BY DEF WarmCount, VmsIn
<1> QED BY <1>1 DEF NoneOverdue, LimitIn, ReadyAt, Pending, VmsIn, MarkerRight

LEMMA OrderInvStep ==
  ASSUME CoreTypeOK, OrderInv, Step
  PROVE  OrderInv'
<1> DEFINE f == Head(agenda)
<1>a. Linked' /\ OwnAgenda' BY AgendaStep, OwnAgendaStep DEF OrderInv
<1>b. agenda # <<>> /\ Live /\ Upcoming = f
  BY AgendaNotEmpty, AtIsUpcoming DEF Live, Upcoming, First
<1>c. SettledFor(f) BY <1>b DEF OrderInv
<1>d. op.now \in Nat BY DEF CoreTypeOK, CallTypeOK
<1>1. CASE Fail
  <2>1. ~Live' BY <1>1 DEF Fail, Live, CoreTypeOK, CallTypeOK
  <2> QED BY <1>a, <2>1 DEF OrderInv
<1>2. CASE StayingStep /\ ~Fail
  <2>1. /\ agenda' = agenda /\ UNCHANGED op
        /\ f \in {"discard_stale_transitions", "promote_ready_vms", "evict_surplus"}
        /\ UNCHANGED lastObserved
    BY <1>2, AgendaStep DEF OrderInv, StayingStep, DiscardStale, PromoteHealthy,
       DiscardUnhealthy, EvictSurplus, At
  <2>2. Upcoming' = f BY <1>b, <2>1 DEF Upcoming, First
  <2>3. \E v, w : w.state \notin {"Creating", "Draining"} /\ vms' = [vms EXCEPT ![v] = w]
    <3>1. CASE PromoteHealthy
      <4> DEFINE w == [state |-> "Warm", changedAt |-> op.now, readyAt |-> op.now]
      <4>1. w.state \notin {"Creating", "Draining"} OBVIOUS
      <4>2. \E v : vms' = [vms EXCEPT ![v] = w] BY <3>1 DEF PromoteHealthy
      <4> HIDE DEF w
      <4> QED BY <4>1, <4>2
    <3>2. CASE DiscardStale \/ DiscardUnhealthy \/ EvictSurplus
      <4>1. AbsentVm.state \notin {"Creating", "Draining"} BY DEF AbsentVm
      <4>2. \E v : vms' = [vms EXCEPT ![v] = AbsentVm]
        BY <3>2 DEF DiscardStale, DiscardUnhealthy, EvictSurplus, DiscardVm
      <4> QED BY <4>1, <4>2
    <3> QED BY <1>2, <3>1, <3>2 DEF StayingStep
  <2>4. NoneOverdue(vms, op.now) => NoneOverdue(vms, op.now)'
    BY <1>d, <2>1, <2>3, StaleShrinks
  <2>5. ReadyAt(op.now) = {} => (ReadyAt(op.now) = {})'
    BY <2>1, <2>3, FewerPending
  <2>6. SettledFor(Upcoming)' BY <1>c, <2>1, <2>2, <2>4, <2>5 DEF SettledFor
  <2> QED BY <1>a, <2>2, <2>6 DEF OrderInv
<1>3. CASE Upcoming' = "observe_time"
  <2>1. SettledFor(Upcoming)' BY <1>3 DEF SettledFor
  <2> QED BY <1>a, <2>1 DEF OrderInv
<1>4. CASE ObserveTime
  <2>1. Upcoming' = "discard_stale_transitions" /\ op'.now = lastObserved'
    BY <1>4, AgendaStep DEF OrderInv, PoppingStep, Pops, ObserveTime, At, Follows
  <2>2. SettledFor(Upcoming)' BY <2>1 DEF SettledFor
  <2> QED BY <1>a, <2>2 DEF OrderInv
<1>5. \/ NoneStale \/ NoneReady \/ UpdateWarmSurplusMarker \/ ScaleInIfNeeded
      \/ SurplusEvicted \/ StartBackgroundCreations
      \/ ((AcquireMiss \/ AcquireRetry \/ AcquireTimedOut) /\ ~Fail)
      => UNCHANGED <<vms, lastObserved>> /\ op'.now = op.now
  BY DEF NoneStale, NoneReady, UpdateWarmSurplusMarker, ScaleInIfNeeded, SurplusEvicted,
     StartBackgroundCreations, AcquireMiss, AcquireRetry, AcquireTimedOut, poolVars, CoreTypeOK,
     CallTypeOK
<1>6. CASE NoneStale
  <2>1. Upcoming' = "promote_ready_vms" /\ op'.now = lastObserved' /\ StaleAt(op.now) = {}
    BY <1>5, <1>c, <1>6, AgendaStep
       DEF OrderInv, PoppingStep, Pops, NoneStale, At, Follows, SettledFor
  <2>2. NoneOverdue(vms, op.now)' BY <1>5, <1>6, <2>1, StaleOverdue, SameSettled
  <2>3. SettledFor(Upcoming)' BY <2>1, <2>2 DEF SettledFor
  <2> QED BY <1>a, <2>3 DEF OrderInv
<1>7. CASE NoneReady
  <2>1. /\ Upcoming' = "update_warm_surplus_marker" /\ op'.now = lastObserved'
        /\ NoneOverdue(vms, op.now) /\ ReadyAt(op.now) = {}
    BY <1>5, <1>c, <1>7, AgendaStep
       DEF OrderInv, PoppingStep, Pops, NoneReady, At, Follows, SettledFor
  <2>2. SettledFor(Upcoming)' BY <1>5, <1>7, <2>1, SameSettled DEF SettledFor
  <2> QED BY <1>a, <2>2 DEF OrderInv
<1>8. CASE UpdateWarmSurplusMarker
  <2>1. /\ op'.now = lastObserved' /\ NoneOverdue(vms, op.now) /\ ReadyAt(op.now) = {}
        /\ surplusSince' = SurplusMarker(vms, surplusSince, op.now)
    BY <1>5, <1>8, <1>c, <1>8 DEF UpdateWarmSurplusMarker, At, SettledFor
  <2>2. MarkerRight'
    <3>1. WarmCount(vms) \in Nat /\ ScaleInThreshold \in Nat
      BY VmsInFinite, SizesAssumption DEF WarmCount
    <3>2. WarmCount(vms') = WarmCount(vms) BY <1>5, <1>8 DEF WarmCount, VmsIn
    <3>3. (surplusSince' # NoInstant) <=> (WarmCount(vms) > ScaleInThreshold)
      BY <1>d, <2>1, <3>1 DEF SurplusMarker, NoInstant
    <3> QED BY <3>2, <3>3 DEF MarkerRight
  <2>3. SettledFor(Upcoming)' BY <1>5, <1>8, <2>1, <2>2, SameSettled DEF SettledFor
  <2> QED BY <1>a, <2>3 DEF OrderInv
<1>9. CASE ScaleInIfNeeded \/ SurplusEvicted
  <2>1. /\ Upcoming' \in {"evict_surplus", "start_background_creations"}
        /\ f \in {"scale_in_if_needed", "evict_surplus"}
    BY <1>9, AgendaStep DEF OrderInv, PoppingStep, Pops, Pushes, ScaleInIfNeeded,
       SurplusEvicted, At, Follows
  <2>2. op'.now = lastObserved' /\ NoneOverdue(vms, op.now) /\ ReadyAt(op.now) = {}
    BY <1>5, <1>9, <1>c, <2>1 DEF SettledFor
  <2>3. SettledFor(Upcoming)' BY <1>5, <1>9, <2>1, <2>2, SameSettled DEF SettledFor
  <2> QED BY <1>a, <2>3 DEF OrderInv
<1>10. CASE (AcquireMiss \/ AcquireRetry \/ AcquireTimedOut) /\ ~Fail
  <2>1. /\ Upcoming' \in {"start_creation", "acquire_wait", "return"}
        /\ f \in {"acquire", "acquire_wait", "acquire_retry"} /\ UNCHANGED surplusSince
    BY <1>10, AgendaStep DEF OrderInv, PoppingStep, Pops, Pushes, AcquireMiss, AcquireRetry,
       AcquireTimedOut, At, Follows, poolVars
  <2>2. /\ op'.now = lastObserved' /\ NoneOverdue(vms, op.now) /\ ReadyAt(op.now) = {}
        /\ MarkerRight
    BY <1>5, <1>10, <1>c, <2>1 DEF SettledFor
  <2>3. SettledFor(Upcoming)' BY <1>5, <1>10, <2>1, <2>2, SameSettled DEF SettledFor
  <2> QED BY <1>a, <2>3 DEF OrderInv
<1>11. CASE StartBackgroundCreations
  <2>1. Upcoming' \in {"start_creation", "observe_time"} /\ f = "start_background_creations"
    BY <1>11, AgendaStep DEF OrderInv, Pushes, StartBackgroundCreations, At
  <2>2. op'.now = lastObserved' BY <1>5, <1>11, <1>c, <2>1 DEF SettledFor
  <2>3. SettledFor(Upcoming)' BY <2>1, <2>2 DEF SettledFor
  <2> QED BY <1>a, <2>3 DEF OrderInv
<1>12. CASE StartCreation /\ ~Fail
  <2>1. /\ Upcoming' \in {"start_creation", "observe_time"} /\ f = "start_creation"
    BY <1>12, AgendaStep DEF OrderInv, Pops, StartCreation, At, Follows
  <2>2. UNCHANGED <<op, lastObserved>>
    BY <1>12 DEF StartCreation, InsertCreated
  <2>3. op'.now = lastObserved' BY <1>c, <2>1, <2>2 DEF SettledFor
  <2>4. SettledFor(Upcoming)' BY <2>1, <2>3 DEF SettledFor
  <2> QED BY <1>a, <2>4 DEF OrderInv
<1>13. CASE (AcquireHit \/ AcquireWaited \/ ReleaseUnscrubbed) /\ ~Fail
  <2>1. /\ Upcoming' = "start_background_creations" /\ UNCHANGED lastObserved
        /\ f \in {"acquire", "acquire_wait", "release"} /\ op'.now = op.now
    BY <1>13, AgendaStep DEF OrderInv, Restarts, AcquireHit, AcquireWaited, LeaseVm,
       ReleaseUnscrubbed, DiscardVm, At, CoreTypeOK, CallTypeOK
  <2>2. op.now = lastObserved /\ NoneOverdue(vms, op.now) /\ ReadyAt(op.now) = {}
    BY <1>c, <2>1 DEF SettledFor
  <2>3. \E v, w : w.state \notin {"Creating", "Draining"} /\ vms' = [vms EXCEPT ![v] = w]
    <3>1. CASE ReleaseUnscrubbed
      <4>1. AbsentVm.state \notin {"Creating", "Draining"} BY DEF AbsentVm
      <4> QED BY <3>1, <4>1 DEF ReleaseUnscrubbed, DiscardVm
    <3>2. CASE AcquireHit \/ AcquireWaited
      <4> DEFINE w == [state |-> "Leased", changedAt |-> op.now, readyAt |-> op.now]
      <4>1. w.state \notin {"Creating", "Draining"} OBVIOUS
      <4>2. \E v : vms' = [vms EXCEPT ![v] = w] BY <3>2 DEF AcquireHit, AcquireWaited, LeaseVm
      <4> HIDE DEF w
      <4> QED BY <4>1, <4>2
    <3> QED BY <1>13, <3>1, <3>2
  <2>4. NoneOverdue(vms, op.now)' BY <1>d, <2>1, <2>2, <2>3, StaleShrinks
  <2>5. (ReadyAt(op.now) = {})' BY <2>1, <2>2, <2>3, FewerPending
  <2>6. SettledFor(Upcoming)' BY <2>1, <2>2, <2>4, <2>5 DEF SettledFor
  <2> QED BY <1>a, <2>6 DEF OrderInv
<1>14. CASE (AcquireSkipAhead \/ ReleaseScrubbed) /\ ~Fail
  BY <1>3, <1>14, AgendaStep DEF OrderInv, Pushes
<1>15. CASE FailingStep
  BY <1>1, <1>15, AgendaStep DEF OrderInv
<1> QED BY <1>1, <1>2, <1>4, <1>6, <1>7, <1>8, <1>9, <1>10, <1>11, <1>12, <1>13, <1>14, <1>15
        DEF Step, StayingStep, FailingStep

\* Between calls nothing is left to do.
LEMMA IdleHasNoAgenda ==
  ASSUME agenda \in Seq(StepNames), Linked, OwnAgenda, Idle
  PROVE  agenda = <<>>
<1>1. OwnSteps(op.name) = {} BY DEF Idle, NoCall, OwnSteps
<1>2. agenda # <<>> => Head(agenda) \in StepsOf(agenda) BY LeadsTail DEF Linked
<1> QED BY <1>1, <1>2 DEF OwnAgenda

LEMMA AlwaysOrdered == Spec => [](TypeOK /\ OrderInv)
<1>1. Init => OrderInv
  BY EmptyChain DEF Init, OrderInv, Linked, OwnAgenda, Live, Idle, Chain
<1>2. ASSUME TypeOK, OrderInv, [Next]_vars PROVE OrderInv'
  <2>1. CASE Step
    BY <1>2, <2>1, OrderInvStep DEF TypeOK, CoreTypeOK, PoolTypeOK, CallTypeOK
  <2>2. CASE Call
    BY <2>2, CallAgenda DEF OrderInv, SettledFor
  <2>3. CASE Return
    <3>1. agenda' = <<>> /\ Idle' BY <2>3 DEF Return, Finished, Idle
    <3> QED BY <3>1, EmptyChain DEF OrderInv, Linked, OwnAgenda, Live, Chain
  <2>4. CASE UNCHANGED vars
    <3>1. UNCHANGED <<vms, op, agenda, lastObserved, surplusSince>> BY <2>4 DEF vars
    <3>2. /\ NoneOverdue(vms, op.now)' <=> NoneOverdue(vms, op.now)
          /\ (ReadyAt(op.now) = {})' <=> ReadyAt(op.now) = {}
          /\ MarkerRight' <=> MarkerRight
      BY <3>1, SameSettled
    <3>3. Linked' /\ OwnAgenda' /\ (Live' => Live) /\ Upcoming' = Upcoming
      BY <1>2, <3>1 DEF OrderInv, Linked, Leads, OwnAgenda, StepsOf, Live, Idle, Upcoming, First
    <3>4. SettledFor(Upcoming) => SettledFor(Upcoming)'
      BY <3>1, <3>2, <3>3 DEF SettledFor
    <3> QED BY <1>2, <3>3, <3>4 DEF OrderInv
  <2> QED BY <1>2, <2>1, <2>2, <2>3, <2>4 DEF Next
<1> QED BY <1>1, <1>2, TypeCorrect, PTL DEF Spec

(* A call that returns Ok leaves no work it should have done, whatever the   *)
(* provider, the clock and the callers do: every chain of steps that ends    *)
(* without an error ends with an advance_to, or with steps after one that    *)
(* leave no VM ready, none overdue and the surplus marker right.             *)
THEOREM AlwaysSettled == Spec => []Settled
<1>1. TypeOK /\ OrderInv => Settled
  <2> SUFFICES ASSUME TypeOK, OrderInv, Finished, op.result # "err"
               PROVE  /\ ReadyAt(lastObserved) = {}
                      /\ StaleAt(lastObserved) = {}
                      /\ MarkerRight
    BY DEF Settled, MarkerRight
  <2>1. Live /\ Upcoming = "return" BY DEF Finished, Live, Upcoming, First
  <2>2. SettledFor("return") BY <2>1 DEF OrderInv
  <2> QED BY <2>2, StaleOverdue DEF SettledFor
<1> QED BY <1>1, AlwaysOrdered, PTL

----------------------------------------------------------------------------
(* No late promotion *)

\* Writing a VM of another state than Warm warms nothing up.
LEMMA NotWarmed ==
  ASSUME CoreTypeOK, NEW v \in Vms, vms[v].state # "Warm",
         UNCHANGED vms \/ \E u, w : vms' = [vms EXCEPT ![u] = w] /\ w.state # "Warm"
  PROVE  vms'[v].state # "Warm"
  BY DEF CoreTypeOK, PoolTypeOK

\* Only promote_ready_vms makes a VM warm, and only one that is ready.
LEMMA WarmedByPromotion ==
  ASSUME CoreTypeOK, Step, NEW v \in Pending, vms'[v].state = "Warm"
  PROVE  At("promote_ready_vms") /\ vms[v].readyAt <= op.now
<1>1. v \in Vms /\ vms[v].state # "Warm" BY DEF Pending, VmsIn
<1>2. AbsentVm.state # "Warm" BY DEF AbsentVm
<1>3. CASE DiscardStale \/ DiscardUnhealthy \/ EvictSurplus \/ ReleaseUnscrubbed
  <2>1. \E u : vms' = [vms EXCEPT ![u] = AbsentVm]
    BY <1>3 DEF DiscardStale, DiscardUnhealthy, EvictSurplus, ReleaseUnscrubbed, DiscardVm
  <2> QED BY <1>1, <1>2, <2>1, NotWarmed
<1>4. CASE PromoteHealthy
  <2>1. PICK u \in ReadyAt(op.now) :
          vms' = [vms EXCEPT ![u] = [state |-> "Warm", changedAt |-> op.now, readyAt |-> op.now]]
    BY <1>4 DEF PromoteHealthy
  <2>2. u = v BY <1>1, <2>1 DEF CoreTypeOK, PoolTypeOK
  <2> QED BY <1>4, <2>1, <2>2 DEF PromoteHealthy, ReadyAt
<1>5. CASE StartCreation \/ AcquireHit \/ AcquireWaited \/ ReleaseScrubbed
  <2>1. UNCHANGED vms \/ \E u, w : vms' = [vms EXCEPT ![u] = w] /\ w.state # "Warm"
    <3>1. CASE StartCreation
      <4>1. \/ UNCHANGED vms
            \/ \E u, r : vms' = [vms EXCEPT ![u] = [state |-> "Creating", changedAt |-> op.now,
                                                    readyAt |-> r]]
        BY <3>1 DEF StartCreation, InsertCreated
      <4>2. CASE \E u, r : vms' = [vms EXCEPT ![u] = [state |-> "Creating", changedAt |-> op.now,
                                                      readyAt |-> r]]
        <5>1. PICK u, r : vms' = [vms EXCEPT ![u] = [state |-> "Creating", changedAt |-> op.now,
                                                     readyAt |-> r]]
          BY <4>2
        <5> DEFINE w == [state |-> "Creating", changedAt |-> op.now, readyAt |-> r]
        <5>2. vms' = [vms EXCEPT ![u] = w] /\ w.state # "Warm" BY <5>1
        <5> HIDE DEF w
        <5> QED BY <5>2
      <4> QED BY <4>1, <4>2
    <3>2. CASE AcquireHit \/ AcquireWaited
      <4>1. \E u : vms' = [vms EXCEPT ![u] = [state |-> "Leased", changedAt |-> op.now,
                                              readyAt |-> op.now]]
        BY <3>2 DEF AcquireHit, AcquireWaited, LeaseVm
      <4>2. [state |-> "Leased", changedAt |-> op.now, readyAt |-> op.now].state # "Warm"
        OBVIOUS
      <4> QED BY <4>1, <4>2
    <3>3. CASE ReleaseScrubbed
      <4>1. \/ UNCHANGED vms
            \/ \E r : vms' = [vms EXCEPT ![op.vm] = [state |-> "Draining", changedAt |-> op.now,
                                                     readyAt |-> r]]
        BY <3>3 DEF ReleaseScrubbed
      <4>2. CASE \E r : vms' = [vms EXCEPT ![op.vm] = [state |-> "Draining",
                                                       changedAt |-> op.now, readyAt |-> r]]
        <5>1. PICK r : vms' = [vms EXCEPT ![op.vm] = [state |-> "Draining",
                                                      changedAt |-> op.now, readyAt |-> r]]
          BY <4>2
        <5> DEFINE w == [state |-> "Draining", changedAt |-> op.now, readyAt |-> r]
        <5>2. vms' = [vms EXCEPT ![op.vm] = w] /\ w.state # "Warm" BY <5>1
        <5> HIDE DEF w
        <5> QED BY <5>2
      <4> QED BY <4>1, <4>2
    <3> QED BY <1>5, <3>1, <3>2, <3>3
  <2> QED BY <1>1, <2>1, NotWarmed
<1>6. CASE \/ ObserveTime \/ RejectPast \/ NoneStale \/ NoneReady \/ UpdateWarmSurplusMarker
           \/ CreationFails \/ StartBackgroundCreations \/ ScaleInIfNeeded \/ SurplusEvicted
           \/ AcquireMiss \/ AcquireSkipAhead \/ AcquireRetry \/ AcquireTimedOut
           \/ ReleaseRejected
  <2>1. UNCHANGED vms
    BY <1>6 DEF ObserveTime, RejectPast, NoneStale, NoneReady, UpdateWarmSurplusMarker,
       CreationFails, StartBackgroundCreations, ScaleInIfNeeded, SurplusEvicted, AcquireMiss,
       AcquireSkipAhead, AcquireRetry, AcquireTimedOut, ReleaseRejected, poolVars
  <2> QED BY <1>1, <2>1, NotWarmed
<1> QED BY <1>3, <1>4, <1>5, <1>6 DEF Step

(* A VM becomes warm only if it was ready within the timeout of the state it *)
(* comes from: whatever a call does, the overdue VMs of its instant are gone *)
(* before the first promotion, and no promotion or disposal since made       *)
(* another one overdue.                                                      *)
THEOREM NeverLateWarm == Spec => NoLateWarm
<1> DEFINE InTime(v) == /\ vms[v].readyAt <= lastObserved
                        /\ \/ vms[v].readyAt <= vms[v].changedAt + TimeoutOf(v)
                           \/ vms[v].changedAt + TimeoutOf(v) > MaxInstant
<1>1. ASSUME TypeOK, OrderInv, [Next]_vars, NEW v \in Vms, v \in Pending, vms'[v].state = "Warm"
      PROVE  InTime(v)
  <2>1. vms[v].state \in {"Creating", "Draining"} BY <1>1 DEF Pending, VmsIn
  <2>2. CASE Step
    <3>1. CoreTypeOK BY <1>1 DEF TypeOK, CoreTypeOK, PoolTypeOK, CallTypeOK
    <3>2. At("promote_ready_vms") /\ vms[v].readyAt <= op.now
      BY <1>1, <2>2, <3>1, WarmedByPromotion
    <3>3. Live /\ Upcoming = "promote_ready_vms" BY <3>2, AtIsUpcoming DEF At, Live
    <3>4. op.now = lastObserved /\ NoneOverdue(vms, op.now) BY <1>1, <3>3 DEF OrderInv, SettledFor
    <3>5. /\ vms[v].readyAt \in Nat /\ vms[v].changedAt \in Nat /\ op.now \in Nat
          /\ TimeoutOf(v) \in Nat /\ MaxInstant \in Nat
      BY <3>1, TimesAssumption DEF CoreTypeOK, PoolTypeOK, CallTypeOK, TimeoutOf
    <3>6. LimitIn(vms, v) = vms[v].changedAt + TimeoutOf(v) BY DEF LimitIn, TimeoutOf
    <3> QED BY <2>1, <3>2, <3>3, <3>4, <3>5, <3>6 DEF NoneOverdue
  <2>3. CASE ~Step
    <3>1. UNCHANGED vms
      BY <1>1, <2>3 DEF Next, Call, Refill, Acquire, Release, Reap, Begin, Return, poolVars, vars
    <3> QED BY <1>1, <2>1, <3>1
  <2> QED BY <2>2, <2>3
<1>2. TypeOK /\ OrderInv /\ [Next]_vars
        => [\A v \in Vms : v \in Pending /\ vms'[v].state = "Warm" => InTime(v)]_vars
  BY <1>1
<1> QED BY <1>2, AlwaysOrdered, PTL DEF Spec, NoLateWarm

----------------------------------------------------------------------------
(* Scale-in *)

Warms(pool) == VmsIn(pool, {"Warm"})

LEMMA FewerWarms ==
  ASSUME NEW p, NEW q, Warms(p) \subseteq Warms(q)
  PROVE  /\ WarmCount(p) \in Nat /\ WarmCount(q) \in Nat
         /\ WarmCount(p) <= WarmCount(q)
<1>1. /\ IsFiniteSet(Warms(q)) /\ Cardinality(Warms(q)) \in Nat
      /\ Cardinality(Warms(p)) \in Nat
  BY VmsInFinite DEF Warms
<1> QED BY <1>1, FS_Subset DEF Warms, WarmCount

\* What a step does to the warm VMs: only a lease and an eviction take one away.
LEMMA WarmsStep ==
  ASSUME CoreTypeOK, Step
  PROVE  \/ Warms(vms) \subseteq Warms(vms')
         \/ (AcquireHit \/ AcquireWaited) /\ Warms(vms') \subseteq Warms(vms)
         \/ EvictSurplus /\ Warms(vms') \subseteq Warms(vms)
<1>1. ASSUME NEW v, NEW w, v \in Pending \/ v \notin Vms \/ vms[v].state \in {"Absent", "Leased"},
             vms' = [vms EXCEPT ![v] = w]
      PROVE  Warms(vms) \subseteq Warms(vms')
  BY <1>1 DEF Warms, VmsIn, Pending, CoreTypeOK, PoolTypeOK
<1>2. ASSUME NEW v, NEW w, w.state # "Warm", vms' = [vms EXCEPT ![v] = w]
      PROVE  Warms(vms') \subseteq Warms(vms)
  BY <1>2 DEF Warms, VmsIn, CoreTypeOK, PoolTypeOK
<1>3. CASE UNCHANGED vms BY <1>3
<1>4. CASE DiscardStale \/ DiscardUnhealthy \/ ReleaseUnscrubbed
  <2>1. \E v : /\ v \in Pending \/ v \notin Vms \/ vms[v].state \in {"Absent", "Leased"}
               /\ vms' = [vms EXCEPT ![v] = AbsentVm]
    BY <1>4 DEF DiscardStale, DiscardUnhealthy, ReleaseUnscrubbed, DiscardVm, StaleAt, ReadyAt
  <2> QED BY <1>1, <2>1
<1>5. CASE PromoteHealthy
  <2>1. PICK v \in ReadyAt(op.now) :
          vms' = [vms EXCEPT ![v] = [state |-> "Warm", changedAt |-> op.now, readyAt |-> op.now]]
    BY <1>5 DEF PromoteHealthy
  <2>2. v \in Pending BY DEF ReadyAt
  <2> QED BY <1>1, <2>1, <2>2
<1>6. CASE StartCreation
  <2>1. ASSUME NEW v \in FreshVms, NEW after, InsertCreated(v, op.now + after)
        PROVE  Warms(vms) \subseteq Warms(vms')
    <3>1. v \in Vms /\ vms[v].state = "Absent"
      BY DEF FreshVms, InPool, VmsIn, CoreTypeOK, PoolTypeOK, States
    <3>2. UNCHANGED vms \/ vms' = [vms EXCEPT ![v] = [state |-> "Creating", changedAt |-> op.now,
                                                      readyAt |-> op.now + after]]
      BY <2>1 DEF InsertCreated
    <3> QED BY <1>1, <1>3, <3>1, <3>2
  <2> QED BY <1>3, <1>6, <2>1 DEF StartCreation
<1>7. CASE AcquireHit \/ AcquireWaited
  <2>1. PICK v : vms' = [vms EXCEPT ![v] = [state |-> "Leased", changedAt |-> op.now,
                                            readyAt |-> op.now]]
    BY <1>7 DEF AcquireHit, AcquireWaited, LeaseVm
  <2> QED BY <1>2, <1>7, <2>1
<1>8. CASE EvictSurplus
  <2>1. PICK v : vms' = [vms EXCEPT ![v] = AbsentVm] BY <1>8 DEF EvictSurplus, DiscardVm
  <2>2. AbsentVm.state # "Warm" BY DEF AbsentVm
  <2> QED BY <1>2, <1>8, <2>1, <2>2
<1>9. CASE ReleaseScrubbed
  <2>1. PICK r : \/ UNCHANGED vms
                 \/ vms' = [vms EXCEPT ![op.vm] = [state |-> "Draining", changedAt |-> op.now,
                                                   readyAt |-> r]]
    BY <1>9 DEF ReleaseScrubbed
  <2>2. vms[op.vm].state \in {"Absent", "Leased"} BY <1>9 DEF ReleaseScrubbed
  <2> QED BY <1>1, <1>3, <2>1, <2>2
<1>10. CASE \/ ObserveTime \/ RejectPast \/ NoneStale \/ NoneReady \/ UpdateWarmSurplusMarker
            \/ CreationFails \/ StartBackgroundCreations \/ ScaleInIfNeeded \/ SurplusEvicted
            \/ AcquireMiss \/ AcquireSkipAhead \/ AcquireRetry \/ AcquireTimedOut
            \/ ReleaseRejected
  <2>1. UNCHANGED vms
    BY <1>10 DEF ObserveTime, RejectPast, NoneStale, NoneReady, UpdateWarmSurplusMarker,
       CreationFails, StartBackgroundCreations, ScaleInIfNeeded, SurplusEvicted, AcquireMiss,
       AcquireSkipAhead, AcquireRetry, AcquireTimedOut, ReleaseRejected, poolVars
  <2> QED BY <1>3, <2>1
<1> QED BY <1>4, <1>5, <1>6, <1>7, <1>8, <1>9, <1>10 DEF Step

(* ScaleInSustained is not inductive: the surplus marker is refreshed only   *)
(* at certain steps.  While it is set there have been too many warm VMs ever *)
(* since, or the evictions are under way that will refresh it; and evictions *)
(* are under way only if the marker was old enough when they began.          *)
SurplusInv ==
  /\ lowAt <= lastObserved
  /\ surplusSince # NoInstant =>
       /\ surplusSince <= lastObserved
       /\ IF WarmCount(vms) > ScaleInThreshold THEN lowAt <= surplusSince ELSE At("evict_surplus")
  /\ At("evict_surplus") => surplusSince # NoInstant /\ op.now - surplusSince >= ScaleInAfter

\* An eviction is the next thing to do only while one is under way, or because
\* scale_in_if_needed has just found the surplus old enough.
LEMMA EvictionsAhead ==
  ASSUME CoreTypeOK, OrderInv, Step, At("evict_surplus")'
  PROVE  \/ EvictSurplus /\ UNCHANGED <<op, lastObserved, surplusSince>>
         \/ ScaleInIfNeeded /\ SurplusIsOld
<1>1. /\ Upcoming' = "evict_surplus" /\ agenda' # <<>> /\ Head(agenda') = "evict_surplus"
      /\ ~Fail
  BY DEF At, Upcoming, First, Fail
<1>2. CASE StayingStep
  <2>1. agenda' = agenda /\ UNCHANGED op BY <1>1, <1>2, AgendaStep DEF OrderInv
  <2> QED BY <1>1, <1>2, <2>1
          DEF StayingStep, DiscardStale, PromoteHealthy, DiscardUnhealthy, EvictSurplus, At
<1>3. CASE PoppingStep \/ StartCreation \/ AcquireRetry \/ ScaleInIfNeeded
  <2>1. ~Pops
    BY <1>1, <1>3 DEF Pops, Follows, PoppingStep, StartCreation, AcquireRetry, ScaleInIfNeeded,
       ObserveTime, NoneStale, NoneReady, UpdateWarmSurplusMarker, SurplusEvicted,
       AcquireTimedOut, At
  <2>2. \A S : ~Pushes("start_creation", S) BY <1>1 DEF Pushes
  <2> QED BY <1>1, <1>3, <2>1, <2>2, AgendaStep DEF OrderInv
<1>4. CASE \/ FailingStep \/ StartBackgroundCreations \/ AcquireHit \/ AcquireWaited
           \/ AcquireMiss \/ AcquireSkipAhead \/ ReleaseScrubbed \/ ReleaseUnscrubbed
  BY <1>1, <1>4, AgendaStep DEF OrderInv, Pushes, Restarts
<1> QED BY <1>2, <1>3, <1>4 DEF Step, StayingStep, PoppingStep, FailingStep

LEMMA SurplusInvStep ==
  ASSUME CoreTypeOK, lowAt \in Nat \cup {NoInstant}, OrderInv, SurplusInv, Step,
         "destroy" \notin Faults
  PROVE  SurplusInv'
<1> USE DEF NoInstant
<1>1. agenda # <<>> BY AgendaNotEmpty
<1>2. SettledFor(Head(agenda)) BY <1>1, SettledHere
<1>3. /\ lastObserved' >= lastObserved /\ lastObserved \in Int /\ lastObserved' \in Int
      /\ surplusSince \in Int /\ surplusSince' \in Int /\ lowAt \in Int /\ op.now \in Nat
  <2>1. CoreTypeOK' BY TypeStepStep
  <2>2. lastObserved' \in Int /\ surplusSince' \in Int BY <2>1 DEF CoreTypeOK, PoolTypeOK
  <2>3. /\ lastObserved \in Int /\ surplusSince \in Int /\ lowAt \in Int /\ op.now \in Nat
    BY DEF CoreTypeOK, PoolTypeOK, CallTypeOK
  <2> QED BY <2>2, <2>3, CallGoesOn
<1>4. /\ ScaleInThreshold \in Nat /\ WarmCount(vms) \in Nat /\ WarmCount(vms') \in Nat
      /\ lowAt' = IF WarmCount(vms') <= ScaleInThreshold THEN lastObserved' ELSE lowAt
  BY SizesAssumption, VmsInFinite DEF WarmCount, Step, NoteLow
<1>5. lowAt' <= lastObserved' BY <1>3, <1>4 DEF SurplusInv
<1>6. ASSUME agenda' # <<>>, Head(agenda') = "evict_surplus"
      PROVE  surplusSince' # NoInstant /\ op'.now - surplusSince' >= ScaleInAfter
  <2>1. \/ EvictSurplus /\ UNCHANGED <<op, lastObserved, surplusSince>>
        \/ ScaleInIfNeeded /\ SurplusIsOld
    BY <1>6, EvictionsAhead DEF At
  <2>2. CASE EvictSurplus /\ UNCHANGED <<op, lastObserved, surplusSince>>
    BY <2>2 DEF EvictSurplus, SurplusInv
  <2>3. CASE ScaleInIfNeeded /\ SurplusIsOld
    <3>1. surplusSince' = surplusSince BY <1>4, <2>3 DEF ScaleInIfNeeded, SurplusIsOld
    <3> QED BY <2>3, <3>1 DEF ScaleInIfNeeded, SurplusIsOld
  <2> QED BY <2>1, <2>2, <2>3
<1>7. ASSUME surplusSince' # NoInstant
      PROVE  /\ surplusSince' <= lastObserved'
             /\ IF WarmCount(vms') > ScaleInThreshold THEN lowAt' <= surplusSince'
                ELSE agenda' # <<>> /\ Head(agenda') = "evict_surplus"
  <2>1. CASE AcquireHit \/ AcquireWaited \/ UpdateWarmSurplusMarker \/ SurplusEvicted
    <3>1. /\ surplusSince' = SurplusMarker(vms', surplusSince, op.now)
          /\ UNCHANGED lastObserved /\ Head(agenda) # "observe_time"
          /\ Warms(vms') \subseteq Warms(vms)
      <4>1. CASE AcquireHit \/ AcquireWaited
        <5>1. Warms(vms') \subseteq Warms(vms)
          <6>1. ~EvictSurplus BY <4>1 DEF AcquireHit, AcquireWaited, EvictSurplus, At
          <6>2. PICK v : vms' = [vms EXCEPT ![v] = [state |-> "Leased", changedAt |-> op.now,
                                                    readyAt |-> op.now]]
            BY <4>1 DEF AcquireHit, AcquireWaited, LeaseVm
          <6> QED BY <6>2 DEF Warms, VmsIn, CoreTypeOK, PoolTypeOK
        <5> QED BY <4>1, <5>1 DEF AcquireHit, AcquireWaited, LeaseVm, At
      <4>2. CASE UpdateWarmSurplusMarker \/ SurplusEvicted
        BY <4>2 DEF UpdateWarmSurplusMarker, SurplusEvicted, At
      <4> QED BY <2>1, <4>1, <4>2
    <3>2. op.now = lastObserved BY <1>2, <3>1 DEF SettledFor
    <3>3. WarmCount(vms') <= WarmCount(vms) BY <3>1, FewerWarms
    <3>4. WarmCount(vms') > ScaleInThreshold
      BY <1>4, <1>7, <3>1 DEF SurplusMarker
    <3>5. surplusSince' = IF surplusSince = NoInstant THEN op.now ELSE surplusSince
      BY <1>4, <3>1, <3>4 DEF SurplusMarker
    <3>6. WarmCount(vms) > ScaleInThreshold BY <1>4, <3>3, <3>4
    <3> QED BY <1>3, <1>4, <3>1, <3>2, <3>4, <3>5, <3>6 DEF SurplusInv
  <2>2. CASE EvictSurplus
    <3>1. PICK v \in OldestWarm : DiscardVm(v, FALSE, agenda) BY <2>2 DEF EvictSurplus
    <3>2. vms' = [vms EXCEPT ![v] = AbsentVm] /\ agenda' = agenda BY <3>1 DEF DiscardVm
    <3>3. Warms(vms') \subseteq Warms(vms)
      BY <3>2 DEF AbsentVm, Warms, VmsIn, CoreTypeOK, PoolTypeOK
    <3>4. WarmCount(vms') <= WarmCount(vms) BY <3>3, FewerWarms
    <3>5. agenda # <<>> /\ Head(agenda) = "evict_surplus" /\ surplusSince' = surplusSince
      BY <2>2 DEF EvictSurplus, At
    <3> QED BY <1>3, <1>4, <1>7, <3>2, <3>4, <3>5 DEF SurplusInv
  <2>3. CASE ScaleInIfNeeded
    <3>1. /\ WarmCount(vms) > ScaleInThreshold /\ surplusSince' = surplusSince /\ UNCHANGED vms
      BY <1>4, <1>7, <2>3 DEF ScaleInIfNeeded
    <3> QED BY <1>3, <1>4, <1>7, <3>1 DEF SurplusInv
  <2>4. CASE ~(\/ AcquireHit \/ AcquireWaited \/ UpdateWarmSurplusMarker \/ SurplusEvicted
               \/ EvictSurplus \/ ScaleInIfNeeded)
    <3>1. surplusSince' = surplusSince /\ ~At("evict_surplus")
      BY <2>4 DEF Step, At, ObserveTime, RejectPast, DiscardStale, NoneStale, PromoteHealthy,
         DiscardUnhealthy, NoneReady, StartCreation, CreationFails, StartBackgroundCreations,
         AcquireMiss, AcquireSkipAhead, AcquireRetry, AcquireTimedOut, ReleaseRejected,
         ReleaseScrubbed, ReleaseUnscrubbed, poolVars
    <3>2. Warms(vms) \subseteq Warms(vms') BY <2>4, WarmsStep
    <3>3. WarmCount(vms) <= WarmCount(vms') BY <3>2, FewerWarms
    <3>4. WarmCount(vms) > ScaleInThreshold /\ lowAt <= surplusSince /\ surplusSince <= lastObserved
      BY <1>7, <3>1 DEF SurplusInv
    <3> QED BY <1>3, <1>4, <3>1, <3>3, <3>4
  <2> QED BY <2>1, <2>2, <2>3, <2>4
<1> QED BY <1>5, <1>6, <1>7 DEF SurplusInv, At

(* A warm VM is taken out for scale-in only when there were too many for all *)
(* of scale_in_after, provided destroy_vm works: an error of it leaves the   *)
(* loop of reap without the refresh of the marker, and the property fails.   *)
THEOREM ScaleInAlwaysSustained ==
  ASSUME "destroy" \notin Faults
  PROVE  Spec => ScaleInSustained
<1> USE DEF NoInstant
<1>1. Init => SurplusInv
  BY DEF Init, SurplusInv, At
<1>2. ASSUME TypeOK, OrderInv, SurplusInv, [Next]_vars PROVE SurplusInv'
  <2>1. CASE Step
    BY <1>2, <2>1, SurplusInvStep DEF TypeOK, CoreTypeOK, PoolTypeOK, CallTypeOK
  <2>2. CASE Call
    <3>1. Idle /\ UNCHANGED <<vms, surplusSince, lastObserved, lowAt>>
      BY <2>2 DEF Call, Refill, Acquire, Release, Reap, Begin, poolVars
    <3>2. agenda = <<>> BY <1>2, <3>1, IdleHasNoAgenda DEF OrderInv, TypeOK
    <3>3. ~At("evict_surplus")' BY <2>2, CallAgenda DEF At, Upcoming, First
    <3> QED BY <1>2, <3>1, <3>2, <3>3 DEF SurplusInv, At
  <2>3. CASE Return
    BY <1>2, <2>3 DEF Return, Finished, SurplusInv, At, poolVars
  <2>4. CASE UNCHANGED vars
    BY <1>2, <2>4 DEF vars, SurplusInv, At
  <2> QED BY <1>2, <2>1, <2>2, <2>3, <2>4 DEF Next
<1>3. ASSUME TypeOK, OrderInv, SurplusInv, [Next]_vars, NEW v \in Vms,
             vms[v].state = "Warm", vms'[v].state = "Absent", WarmCount(vms) > ScaleInThreshold
      PROVE  lastObserved - lowAt >= ScaleInAfter
  <2>1. Step
    BY <1>3 DEF Next, Call, Refill, Acquire, Release, Reap, Begin, Return, poolVars, vars
  <2>2. CoreTypeOK BY <1>3 DEF TypeOK, CoreTypeOK, PoolTypeOK, CallTypeOK
  <2>3. EvictSurplus
    <3>1. v \in Warms(vms) /\ v \notin Warms(vms') BY <1>3 DEF Warms, VmsIn
    <3>2. ~(AcquireHit \/ AcquireWaited)
      <4>1. SUFFICES ASSUME AcquireHit \/ AcquireWaited PROVE FALSE OBVIOUS
      <4>2. PICK u : vms' = [vms EXCEPT ![u] = [state |-> "Leased", changedAt |-> op.now,
                                                readyAt |-> op.now]]
        BY <4>1 DEF AcquireHit, AcquireWaited, LeaseVm
      <4> QED BY <1>3, <2>2, <4>2 DEF CoreTypeOK, PoolTypeOK
    <3> QED BY <2>1, <2>2, <3>1, <3>2, WarmsStep
  <2>4. At("evict_surplus") /\ agenda # <<>> /\ Head(agenda) # "observe_time"
    BY <2>3 DEF EvictSurplus, At
  <2>5. op.now = lastObserved BY <1>3, <2>4, SettledHere DEF SettledFor, At
  <2>6. lowAt <= surplusSince /\ op.now - surplusSince >= ScaleInAfter
    BY <1>3, <2>4 DEF SurplusInv
  <2>7. lowAt \in Int /\ surplusSince \in Int /\ op.now \in Int /\ ScaleInAfter \in Int
    BY <1>3, TimesAssumption DEF TypeOK
  <2> QED BY <2>5, <2>6, <2>7
<1>4. TypeOK /\ OrderInv /\ SurplusInv /\ [Next]_vars
        => [\A v \in Vms : /\ vms[v].state = "Warm" /\ vms'[v].state = "Absent"
                           /\ WarmCount(vms) > ScaleInThreshold
                           => lastObserved - lowAt >= ScaleInAfter]_vars
  BY <1>3
<1> QED BY <1>1, <1>2, <1>4, AlwaysOrdered, PTL DEF Spec, ScaleInSustained

----------------------------------------------------------------------------
(* The balance of the metrics *)

\* A release is one of a VM.
ReleaseInv == op.name = "release" => op.vm \in Vms

LEMMA ReleaseInvNext ==
  ASSUME TypeOK, ReleaseInv, [Next]_vars
  PROVE  ReleaseInv'
<1>1. CASE Step
  <2>1. CoreTypeOK BY DEF TypeOK, CoreTypeOK, PoolTypeOK, CallTypeOK
  <2>2. (\E v \in OldestWarm : LeaseVm(v)) \/ op'.vm = op.vm BY <1>1, <2>1, ResultStep
  <2>3. op'.name = op.name BY <1>1, <2>1, CallGoesOn
  <2>4. CASE \E v \in OldestWarm : LeaseVm(v)
    BY <2>1, <2>4 DEF LeaseVm, OldestWarm, VmsIn, CoreTypeOK, CallTypeOK, ReleaseInv
  <2> QED BY <2>2, <2>3, <2>4 DEF ReleaseInv
<1>2. CASE Release
  BY <1>2 DEF Release, Begin, TypeOK, ReleaseInv
<1>3. CASE Refill \/ Acquire \/ Reap \/ Return
  BY <1>3 DEF Refill, Acquire, Reap, Begin, Return, NoCall, ReleaseInv
<1>4. CASE UNCHANGED vars
  BY <1>4 DEF vars, ReleaseInv
<1> QED BY <1>1, <1>2, <1>3, <1>4 DEF Next, Call

\* Only a release has a release to run.
LEMMA ReleaseIsOwn ==
  ASSUME CoreTypeOK, OrderInv, At("release")
  PROVE  op.name = "release"
<1>1. "release" \in StepsOf(agenda) BY LeadsTail DEF At, CoreTypeOK, OrderInv, Linked
<1>2. "release" \in OwnSteps(op.name) BY <1>1 DEF OrderInv, OwnAgenda
<1> QED BY <1>2 DEF OwnSteps, Refilling, Refreshing

\* What a step does to the pool's set of VMs, and which counters it moves.
SameVms == InPool' = InPool /\ UNCHANGED metrics
OneMore == \E v \in Vms \ InPool :
             /\ InPool' = InPool \cup {v}
             /\ metrics' = [metrics EXCEPT !.created = Increment(@)]
OneLess == \E v \in InPool, failed \in BOOLEAN :
             /\ InPool' = InPool \ {v}
             /\ metrics' = [metrics EXCEPT !.discarded = Increment(@),
                                           !.failed = IF failed THEN Increment(@) ELSE @]

LEMMA DiscardCounts ==
  ASSUME CoreTypeOK, NEW v \in InPool, NEW failed \in BOOLEAN, NEW next, DiscardVm(v, failed, next)
  PROVE  OneLess
<1>1. vms' = [vms EXCEPT ![v] = AbsentVm] BY DEF DiscardVm
<1>2. InPool' = InPool \ {v}
  BY <1>1 DEF InPool, VmsIn, AbsentVm, CoreTypeOK, PoolTypeOK, States
<1>3. metrics' = [metrics EXCEPT !.discarded = Increment(@),
                                 !.failed = IF failed THEN Increment(@) ELSE @]
  BY DEF DiscardVm
<1> QED BY <1>2, <1>3 DEF OneLess

LEMMA CountStep ==
  ASSUME CoreTypeOK, OrderInv, ReleaseInv, Step
  PROVE  SameVms \/ OneMore \/ OneLess
<1>1. CASE UNCHANGED <<vms, metrics>>
  BY <1>1 DEF SameVms, InPool, VmsIn
<1>2. CASE DiscardStale \/ DiscardUnhealthy \/ EvictSurplus
  <2>1. PICK v \in Pending \cup OldestWarm, failed \in BOOLEAN : DiscardVm(v, failed, agenda)
    <3>1. CASE DiscardStale
      <4>1. PICK v \in StaleAt(op.now) : DiscardVm(v, TRUE, agenda) BY <3>1 DEF DiscardStale
      <4>2. v \in Pending BY DEF StaleAt
      <4> QED BY <4>1, <4>2
    <3>2. CASE DiscardUnhealthy
      <4>1. PICK v \in ReadyAt(op.now) : DiscardVm(v, TRUE, agenda) BY <3>2 DEF DiscardUnhealthy
      <4>2. v \in Pending BY DEF ReadyAt
      <4> QED BY <4>1, <4>2
    <3>3. CASE EvictSurplus
      BY <3>3 DEF EvictSurplus
    <3> QED BY <1>2, <3>1, <3>2, <3>3
  <2>2. v \in InPool BY <2>1 DEF Pending, OldestWarm, InPool, VmsIn, States
  <2> QED BY <2>1, <2>2, DiscardCounts
<1>3. CASE ReleaseUnscrubbed
  <2>1. op.name = "release" BY <1>3, ReleaseIsOwn DEF ReleaseUnscrubbed
  <2>2. op.vm \in InPool
    BY <1>3, <2>1 DEF ReleaseUnscrubbed, ReleaseInv, InPool, VmsIn, States
  <2>3. DiscardVm(op.vm, TRUE, <<"start_background_creations", "update_warm_surplus_marker">>)
    BY <1>3 DEF ReleaseUnscrubbed
  <2> QED BY <2>2, <2>3, DiscardCounts
<1>4. CASE PromoteHealthy \/ AcquireHit \/ AcquireWaited \/ ReleaseScrubbed
  <2>1. UNCHANGED metrics
    BY <1>4 DEF PromoteHealthy, AcquireHit, AcquireWaited, LeaseVm, ReleaseScrubbed
  <2>2. \/ UNCHANGED vms
        \/ \E v \in InPool, w \in VmRecords : w.state # "Absent" /\ vms' = [vms EXCEPT ![v] = w]
    <3>1. CASE PromoteHealthy
      <4> DEFINE w == [state |-> "Warm", changedAt |-> op.now, readyAt |-> op.now]
      <4>1. PICK v \in ReadyAt(op.now) : vms' = [vms EXCEPT ![v] = w]
        BY <3>1 DEF PromoteHealthy
      <4>2. v \in InPool BY DEF ReadyAt, Pending, InPool, VmsIn, States
      <4>3. w \in VmRecords /\ w.state # "Absent"
        BY DEF CoreTypeOK, CallTypeOK, VmRecords, States
      <4> QED BY <4>1, <4>2, <4>3
    <3>2. CASE AcquireHit \/ AcquireWaited
      <4> DEFINE w == [state |-> "Leased", changedAt |-> op.now, readyAt |-> op.now]
      <4>1. PICK v \in OldestWarm : vms' = [vms EXCEPT ![v] = w]
        BY <3>2 DEF AcquireHit, AcquireWaited, LeaseVm
      <4>2. v \in InPool BY DEF OldestWarm, InPool, VmsIn, States
      <4>3. w \in VmRecords /\ w.state # "Absent"
        BY DEF CoreTypeOK, CallTypeOK, VmRecords, States
      <4> QED BY <4>1, <4>2, <4>3
    <3>3. CASE ReleaseScrubbed
      <4>1. PICK after \in ReadyAfter :
              \/ UNCHANGED vms
              \/ vms' = [vms EXCEPT ![op.vm] = [state |-> "Draining", changedAt |-> op.now,
                                                readyAt |-> op.now + after]]
        BY <3>3 DEF ReleaseScrubbed
      <4> DEFINE w == [state |-> "Draining", changedAt |-> op.now, readyAt |-> op.now + after]
      <4>2. w \in VmRecords /\ w.state # "Absent"
        BY TimesAssumption DEF CoreTypeOK, CallTypeOK, VmRecords, States
      <4>3. op.vm \in Vms => op.vm \in InPool
        BY <3>3 DEF ReleaseScrubbed, InPool, VmsIn, States
      <4>4. op.vm \notin Vms => UNCHANGED vms
        BY <4>1 DEF CoreTypeOK, PoolTypeOK
      <4>5. UNCHANGED vms \/ vms' = [vms EXCEPT ![op.vm] = w] BY <4>1
      <4> HIDE DEF w
      <4> QED BY <4>2, <4>3, <4>4, <4>5
    <3> QED BY <1>4, <3>1, <3>2, <3>3
  <2>3. InPool \subseteq Vms BY DEF InPool, VmsIn
  <2>4. InPool' = InPool
    <3>1. CASE UNCHANGED vms BY <3>1 DEF InPool, VmsIn
    <3> QED BY <2>2, <2>3, <3>1, RewriteKeepsPool
  <2> QED BY <2>1, <2>4 DEF SameVms
<1>5. CASE StartCreation /\ ~CreationRefused
  <2>1. PICK v \in FreshVms, after \in ReadyAfter : InsertCreated(v, op.now + after)
    BY <1>5 DEF StartCreation
  <2>2. CASE op.now + after <= MaxInstant
    <3>1. /\ vms' = [vms EXCEPT ![v] = [state |-> "Creating", changedAt |-> op.now,
                                        readyAt |-> op.now + after]]
          /\ metrics' = [metrics EXCEPT !.created = Increment(@)]
      BY <2>1, <2>2 DEF InsertCreated
    <3>2. v \in Vms \ InPool BY DEF FreshVms
    <3>3. InPool' = InPool \cup {v}
      BY <3>1, <3>2 DEF InPool, VmsIn, CoreTypeOK, PoolTypeOK, States
    <3> QED BY <3>1, <3>2, <3>3 DEF OneMore
  <2>3. CASE ~(op.now + after <= MaxInstant)
    BY <1>1, <2>1, <2>3 DEF InsertCreated
  <2> QED BY <2>2, <2>3
<1>6. CASE StartCreation /\ CreationRefused
  BY <1>1, <1>6 DEF StartCreation
<1>7. CASE \/ ObserveTime \/ RejectPast \/ NoneStale \/ NoneReady \/ UpdateWarmSurplusMarker
           \/ CreationFails \/ StartBackgroundCreations \/ ScaleInIfNeeded \/ SurplusEvicted
           \/ AcquireMiss \/ AcquireSkipAhead \/ AcquireRetry \/ AcquireTimedOut
           \/ ReleaseRejected
  BY <1>1, <1>7 DEF ObserveTime, RejectPast, NoneStale, NoneReady, UpdateWarmSurplusMarker,
       CreationFails, StartBackgroundCreations, ScaleInIfNeeded, SurplusEvicted, AcquireMiss,
       AcquireSkipAhead, AcquireRetry, AcquireTimedOut, ReleaseRejected, poolVars
<1> QED BY <1>2, <1>3, <1>4, <1>5, <1>6, <1>7 DEF Step

\* A step keeps the balance; the counters only grow, so one that saturates
\* leaves nothing to keep.
LEMMA BalanceStep ==
  ASSUME CoreTypeOK, metrics \in [created : 0..MaxCount, discarded : 0..MaxCount,
                                  failed : 0..MaxCount],
         MetricsConserve, SameVms \/ OneMore \/ OneLess
  PROVE  MetricsConserve'
<1>1. MaxCount \in Nat BY TimesAssumption
<1>2. IsFiniteSet(InPool) /\ Cardinality(InPool) \in Nat
  BY VmsInFinite, FS_CardinalityType DEF InPool
<1>3. CASE SameVms BY <1>3 DEF SameVms, MetricsConserve
<1>4. CASE OneMore
  <2>1. PICK v \in Vms \ InPool : /\ InPool' = InPool \cup {v}
                                  /\ metrics' = [metrics EXCEPT !.created = Increment(@)]
    BY <1>4 DEF OneMore
  <2>2. Cardinality(InPool') = Cardinality(InPool) + 1 BY <1>2, <2>1, FS_AddElement
  <2>3. /\ metrics'.created = IF metrics.created < MaxCount THEN metrics.created + 1
                              ELSE metrics.created
        /\ metrics'.discarded = metrics.discarded /\ metrics'.failed = metrics.failed
    BY <2>1 DEF Increment
  <2> QED BY <1>1, <1>2, <2>2, <2>3 DEF MetricsConserve
<1>5. CASE OneLess
  <2>1. PICK v \in InPool, failed \in BOOLEAN :
               /\ InPool' = InPool \ {v}
               /\ metrics' = [metrics EXCEPT !.discarded = Increment(@),
                                             !.failed = IF failed THEN Increment(@) ELSE @]
    BY <1>5 DEF OneLess
  <2>2. Cardinality(InPool') = Cardinality(InPool) - 1 BY <1>2, <2>1, FS_RemoveElement
  <2>3. /\ metrics'.discarded = IF metrics.discarded < MaxCount THEN metrics.discarded + 1
                                ELSE metrics.discarded
        /\ metrics'.created = metrics.created
        /\ \/ metrics'.failed = metrics.failed
           \/ metrics'.failed = IF metrics.failed < MaxCount THEN metrics.failed + 1
                                ELSE metrics.failed
    BY <2>1 DEF Increment
  <2> QED BY <1>1, <1>2, <2>2, <2>3 DEF MetricsConserve
<1> QED BY <1>3, <1>4, <1>5

(* The counters of the pool are right under every fault, an error of         *)
(* destroy_vm included: what was created is in the pool or was discarded.    *)
THEOREM MetricsAlwaysConserve == Spec => []MetricsConserve
<1>1. Init => ReleaseInv /\ MetricsConserve
  <2> SUFFICES ASSUME Init PROVE ReleaseInv /\ MetricsConserve OBVIOUS
  <2>1. ReleaseInv BY DEF Init, NoCall, ReleaseInv
  <2>2. InPool = {} BY DEF Init, InPool, VmsIn, AbsentVm, States
  <2> QED BY <2>1, <2>2, FS_EmptySet DEF Init, MetricsConserve
<1>2. TypeOK /\ ReleaseInv /\ [Next]_vars => ReleaseInv'
  BY ReleaseInvNext
<1>3. ASSUME TypeOK, OrderInv, ReleaseInv, MetricsConserve, [Next]_vars PROVE MetricsConserve'
  <2>1. CASE Step
    <3>1. CoreTypeOK BY <1>3 DEF TypeOK, CoreTypeOK, PoolTypeOK, CallTypeOK
    <3> QED BY <1>3, <2>1, <3>1, CountStep, BalanceStep DEF TypeOK
  <2>2. CASE ~Step
    <3>1. UNCHANGED <<vms, metrics>>
      BY <1>3, <2>2 DEF Next, Call, Refill, Acquire, Release, Reap, Begin, Return, poolVars, vars
    <3> QED BY <1>3, <3>1 DEF MetricsConserve, InPool, VmsIn
  <2> QED BY <2>1, <2>2
<1> QED BY <1>1, <1>2, <1>3, AlwaysOrdered, PTL DEF Spec

----------------------------------------------------------------------------
(* No call is asked about the past *)

\* While callers' clocks do not run backwards, a call never looks at an instant
\* the pool has moved past: acquire's cursor jumps to a VM that is pending, and
\* at that point none is ready.
NeverPast == ~Idle => op.now >= lastObserved

LEMMA PendingInstants ==
  ASSUME CoreTypeOK, Pending # {}
  PROVE  /\ NextTransitionReadyAt \in Nat
         /\ \E v \in Pending : vms[v].readyAt = NextTransitionReadyAt
         /\ \A v \in Pending : NextTransitionReadyAt <= vms[v].readyAt
<1> DEFINE instants == {vms[v].readyAt : v \in Pending}
<1>1. instants \in SUBSET Nat BY DEF CoreTypeOK, PoolTypeOK, Pending, VmsIn
<1>2. instants # {} OBVIOUS
<1>3. Min(instants) \in instants /\ \A t \in instants : Min(instants) <= t
  <2> HIDE DEF instants
  <2> QED BY <1>1, <1>2, MinOfNaturals
<1> QED BY <1>1, <1>3 DEF NextTransitionReadyAt

\* acquire's cursor moves strictly forward, and stays within the deadline.
LEMMA SkipMovesAhead ==
  ASSUME CoreTypeOK, OrderInv, AcquireSkipAhead
  PROVE  /\ op.now = lastObserved /\ op'.now > op.now
         /\ op'.now <= op.deadline /\ UNCHANGED <<vms, lastObserved>>
         /\ op'.deadline = op.deadline /\ op'.result = op.result /\ op'.vm = op.vm
<1>1. /\ agenda # <<>> /\ Head(agenda) = "acquire_wait"
      /\ Pending # {} /\ NextTransitionReadyAt <= op.deadline
      /\ op' = [op EXCEPT !.now = NextTransitionReadyAt] /\ UNCHANGED <<vms, lastObserved>>
  BY DEF AcquireSkipAhead, SomethingInTime, At, poolVars
<1>2. /\ op'.now = NextTransitionReadyAt /\ op'.deadline = op.deadline
      /\ op'.result = op.result /\ op'.vm = op.vm
  BY <1>1 DEF CoreTypeOK, CallTypeOK
<1>3. op.now = lastObserved /\ ReadyAt(op.now) = {} BY <1>1, SettledHere DEF SettledFor
<1>4. PICK v \in Pending : vms[v].readyAt = NextTransitionReadyAt BY <1>1, PendingInstants
<1>5. ~(vms[v].readyAt <= op.now) BY <1>3, <1>4 DEF ReadyAt
<1>6. vms[v].readyAt \in Nat /\ op.now \in Nat
  BY DEF CoreTypeOK, PoolTypeOK, CallTypeOK, Pending, VmsIn
<1> QED BY <1>1, <1>2, <1>3, <1>4, <1>5, <1>6

LEMMA NeverPastStep ==
  ASSUME CoreTypeOK, OrderInv, NeverPast, Step
  PROVE  NeverPast'
<1>1. ~Idle BY AgendaNotEmpty, IdleHasNoAgenda DEF OrderInv, CoreTypeOK
<1>2. op.now >= lastObserved /\ op.now \in Int /\ lastObserved \in Int
  BY <1>1 DEF NeverPast, CoreTypeOK, CallTypeOK, NoInstant
<1>3. CASE AcquireSkipAhead
  <2>1. op'.now > op.now /\ op'.now \in Int /\ UNCHANGED lastObserved
    <3>1. Pending # {} /\ op' = [op EXCEPT !.now = NextTransitionReadyAt]
      BY <1>3 DEF AcquireSkipAhead, SomethingInTime
    <3>2. op'.now \in Int BY <3>1, PendingInstants DEF CoreTypeOK, CallTypeOK
    <3> QED BY <1>3, <3>2, SkipMovesAhead
  <2> QED BY <1>2, <2>1 DEF NeverPast
<1>4. CASE ~AcquireSkipAhead
  <2>1. op'.now = op.now
    <3>1. CASE AcquireHit \/ AcquireWaited \/ AcquireTimedOut
      BY <3>1 DEF AcquireHit, AcquireWaited, LeaseVm, AcquireTimedOut, CoreTypeOK, CallTypeOK
    <3>2. CASE ~(AcquireHit \/ AcquireWaited \/ AcquireTimedOut)
      <4>1. UNCHANGED op \/ Fail
        BY <1>4, <3>2 DEF Step, ObserveTime, RejectPast, DiscardStale, NoneStale, PromoteHealthy,
           DiscardUnhealthy, NoneReady, UpdateWarmSurplusMarker, StartCreation, InsertCreated,
           CreationFails, StartBackgroundCreations, ScaleInIfNeeded, EvictSurplus,
           SurplusEvicted, AcquireMiss, AcquireRetry, ReleaseRejected, ReleaseScrubbed,
           ReleaseUnscrubbed, DiscardVm
      <4> QED BY <4>1 DEF Fail, CoreTypeOK, CallTypeOK
    <3> QED BY <3>1, <3>2
  <2>2. lastObserved' \in {lastObserved, op.now}
    BY <1>4 DEF Step, ObserveTime, RejectPast, DiscardStale, NoneStale, PromoteHealthy,
       DiscardUnhealthy, NoneReady, UpdateWarmSurplusMarker, StartCreation, CreationFails,
       StartBackgroundCreations, ScaleInIfNeeded, EvictSurplus, SurplusEvicted, AcquireHit,
       AcquireMiss, AcquireWaited, LeaseVm, AcquireRetry, AcquireTimedOut, ReleaseRejected,
       ReleaseScrubbed, ReleaseUnscrubbed
  <2> QED BY <1>2, <2>1, <2>2 DEF NeverPast
<1> QED BY <1>3, <1>4

\* While callers' clocks do not run backwards, NeverPast is inductive relative
\* to the type and the order of the steps.
LEMMA NeverPastInductive ==
  ASSUME "clock" \notin Faults
  PROVE  /\ Init => NeverPast
         /\ TypeOK /\ OrderInv /\ NeverPast /\ [Next]_vars => NeverPast'
<1>1. Init => NeverPast BY DEF Init, NeverPast, Idle
<1>2. ASSUME TypeOK, OrderInv, NeverPast, [Next]_vars PROVE NeverPast'
  <2>1. CASE Step
    BY <1>2, <2>1, NeverPastStep DEF TypeOK, CoreTypeOK, PoolTypeOK, CallTypeOK
  <2>2. CASE Call
    <3>1. \E now \in Clock : op'.now = now
      BY <2>2 DEF Call, Refill, Acquire, Release, Reap, Begin
    <3>2. UNCHANGED lastObserved BY <2>2 DEF Call, Refill, Acquire, Release, Reap, Begin
    <3> QED BY <3>1, <3>2 DEF NeverPast, Clock
  <2>3. CASE Return BY <2>3 DEF Return, NeverPast, Idle
  <2>4. CASE UNCHANGED vars BY <1>2, <2>4 DEF vars, NeverPast, Idle
  <2> QED BY <1>2, <2>1, <2>2, <2>3, <2>4 DEF Next
<1> QED BY <1>1, <1>2

----------------------------------------------------------------------------
(* No lease is orphaned *)

\* After a step that only the return may follow, the call is over.
LEMMA LastStep ==
  ASSUME CoreTypeOK, Linked, agenda # <<>>, Follows(Head(agenda)) = {"return"}
  PROVE  Tail(agenda) = <<>> /\ StepsOf(Tail(agenda)) = {}
<1>1. Tail(agenda) \in Seq(StepNames) /\ First(Tail(agenda), "return") = "return"
  BY LeadsTail DEF Linked, CoreTypeOK
<1>2. ASSUME Tail(agenda) # <<>> PROVE FALSE
  <2>1. Tail(agenda)[1] \in StepNames BY <1>1, <1>2, EmptySeq
  <2> QED BY <1>1, <1>2, <2>1 DEF First, StepNames
<1> QED BY <1>2, EmptyChain DEF Chain

\* A provider that has room for one VM more than the host may run can always
\* give out an id: the ids in use are those of the pool's VMs and, in a call
\* that gave a VM up, the id that call works on.
LEMMA FreshIds ==
  ASSUME CoreTypeOK, LeaseInv, HostInv, ~CreationRefused, HostCap < Cardinality(Vms)
  PROVE  FreshVms # {}
<1>1. ActiveCount < HostCap /\ ActiveCount \in Nat /\ IsFiniteSet(InPool) /\ HostCap \in Nat
  BY VmsInFinite, SizesAssumption DEF CreationRefused, ActiveCount, InPool
<1>2. {h.vm : h \in handles} \subseteq InPool
  BY DEF LeaseInv, HandlesValid, InPool, VmsIn, States, CoreTypeOK
<1>3. FreshVms = Vms \ (InPool \cup {op.vm}) BY <1>2 DEF FreshVms, HostInv
<1>4. /\ IsFiniteSet(InPool \cup {op.vm}) /\ Cardinality(InPool \cup {op.vm}) \in Nat
      /\ Cardinality(InPool \cup {op.vm}) <= HostCap
  <2>1. Cardinality(InPool \cup {op.vm}) = IF op.vm \in InPool THEN ActiveCount ELSE ActiveCount + 1
    BY <1>1, FS_AddElement DEF ActiveCount
  <2>2. IsFiniteSet(InPool \cup {op.vm}) BY <1>1, FS_AddElement
  <2> QED BY <1>1, <2>1, <2>2, FS_CardinalityType
<1>5. ~(Vms \subseteq InPool \cup {op.vm})
  BY <1>1, <1>4, FS_Subset, FS_CardinalityType, VmsAssumption
<1> QED BY <1>3, <1>5

\* Every Leased VM is in a caller's hands or is the one the call works on: an
\* acquire that will hand it over, or a release that has yet to take it back.
OrphanInv ==
  /\ "release" \in StepsOf(agenda) => op.vm \in Vms /\ vms[op.vm].state = "Leased"
  /\ \A v \in VmsIn(vms, {"Leased"}) :
       \/ v \in {h.vm : h \in handles}
       \/ v = op.vm /\ (op.result = "acquired" \/ "release" \in StepsOf(agenda))
  /\ op.result # "err"

\* While instants fit, a VM that was created is entered in the pool.
LEMMA CreationFits ==
  ASSUME CoreTypeOK, HostInv, InstantsFit, StartCreation
  PROVE  UNCHANGED op
<1>1. op.now \in Nat /\ MaxTime \in Nat /\ MaxInstant \in Nat
  BY TimesAssumption DEF CoreTypeOK, CallTypeOK
<1>2. \A after \in ReadyAfter : op.now + after <= MaxInstant
  BY <1>1, TimesAssumption DEF InstantsFit, HostInv
<1> QED BY <1>2 DEF StartCreation, InsertCreated

\* While VMs are destroyed when they should be and the clock behaves, `?`
\* leaves a call for one of two reasons.
LEMMA OnlyTheseFail ==
  ASSUME CoreTypeOK, OrderInv, NeverPast, HostInv, Step, "destroy" \notin Faults, InstantsFit,
         op.result # "err", op'.result = "err"
  PROVE  CreationFails \/ ReleaseRejected
<1> SUFFICES ASSUME ~CreationFails, ~ReleaseRejected PROVE op'.result # "err" OBVIOUS
<1>1. op.now \in Nat /\ MaxTime \in Nat /\ MaxInstant \in Nat /\ op.deadline \in Nat
  BY TimesAssumption DEF CoreTypeOK, CallTypeOK
<1>2. \A after \in ReadyAfter : op.now + after <= MaxInstant
  BY <1>1, TimesAssumption DEF InstantsFit, HostInv
<1>3. ~RejectPast
  <2>1. ~Idle BY AgendaNotEmpty, IdleHasNoAgenda DEF OrderInv, CoreTypeOK
  <2> QED BY <2>1, <1>1 DEF RejectPast, NeverPast, CoreTypeOK, NoInstant
<1>4. \A v, failed, next : DiscardVm(v, failed, next) => UNCHANGED op BY DEF DiscardVm
<1>5. CASE DiscardStale \/ DiscardUnhealthy \/ EvictSurplus \/ ReleaseUnscrubbed
  BY <1>4, <1>5 DEF DiscardStale, DiscardUnhealthy, EvictSurplus, ReleaseUnscrubbed
<1>6. CASE StartCreation BY <1>6, CreationFits
<1>7. CASE AcquireMiss
  BY <1>1, <1>7 DEF AcquireMiss, HostInv, InstantsFit
<1>8. CASE ReleaseScrubbed
  BY <1>1, <1>2, <1>8, TimesAssumption DEF ReleaseScrubbed
<1>9. CASE AcquireHit \/ AcquireWaited \/ AcquireSkipAhead \/ AcquireTimedOut
  BY <1>9 DEF AcquireHit, AcquireWaited, LeaseVm, AcquireSkipAhead, AcquireTimedOut,
     CoreTypeOK, CallTypeOK
<1>10. CASE \/ ObserveTime \/ NoneStale \/ PromoteHealthy \/ NoneReady \/ UpdateWarmSurplusMarker
            \/ StartBackgroundCreations \/ ScaleInIfNeeded \/ SurplusEvicted \/ AcquireRetry
  BY <1>10 DEF ObserveTime, NoneStale, PromoteHealthy, NoneReady, UpdateWarmSurplusMarker,
     StartBackgroundCreations, ScaleInIfNeeded, SurplusEvicted, AcquireRetry
<1> QED BY <1>3, <1>5, <1>6, <1>7, <1>8, <1>9, <1>10 DEF Step

\* With a provider that can create VMs and leases that are good, nothing fails.
LEMMA NothingFails ==
  ASSUME CoreTypeOK, OrderInv, NeverPast, LeaseInv, HostInv, OrphanInv, Step,
         Faults \cap {"create", "destroy"} = {}, InstantsFit, HostCap < Cardinality(Vms)
  PROVE  op'.result # "err"
<1>1. ~CreationFails BY FreshIds DEF CreationFails
<1>2. ~ReleaseRejected
  <2>1. At("release") => "release" \in StepsOf(agenda)
    BY LeadsTail DEF At, OrderInv, Linked, CoreTypeOK
  <2> QED BY <2>1 DEF ReleaseRejected, OrphanInv
<1>3. op.result # "err" /\ "destroy" \notin Faults BY DEF OrphanInv
<1> QED BY <1>1, <1>2, <1>3, OnlyTheseFail

\* Only acquire leases a VM.
LEMMA LeasedByAcquire ==
  ASSUME CoreTypeOK, Step, ~(AcquireHit \/ AcquireWaited)
  PROVE  VmsIn(vms', {"Leased"}) \subseteq VmsIn(vms, {"Leased"})
<1>1. ASSUME NEW v, NEW w, w.state # "Leased", vms' = [vms EXCEPT ![v] = w]
      PROVE  VmsIn(vms', {"Leased"}) \subseteq VmsIn(vms, {"Leased"})
  BY <1>1 DEF VmsIn, CoreTypeOK, PoolTypeOK
<1>2. CASE UNCHANGED vms BY <1>2
<1>3. CASE DiscardStale \/ DiscardUnhealthy \/ EvictSurplus \/ ReleaseUnscrubbed
  <2>1. AbsentVm.state # "Leased" BY DEF AbsentVm
  <2>2. \E v : vms' = [vms EXCEPT ![v] = AbsentVm]
    BY <1>3 DEF DiscardStale, DiscardUnhealthy, EvictSurplus, ReleaseUnscrubbed, DiscardVm
  <2> QED BY <1>1, <2>1, <2>2
<1>4. CASE PromoteHealthy
  <2>1. PICK v : vms' = [vms EXCEPT ![v] = [state |-> "Warm", changedAt |-> op.now,
                                            readyAt |-> op.now]]
    BY <1>4 DEF PromoteHealthy
  <2> QED BY <1>1, <2>1
<1>5. CASE StartCreation
  <2>1. UNCHANGED vms \/ \E v, r : vms' = [vms EXCEPT ![v] = [state |-> "Creating",
                                                  changedAt |-> op.now, readyAt |-> r]]
    BY <1>5 DEF StartCreation, InsertCreated
  <2>2. ASSUME NEW v, NEW r, vms' = [vms EXCEPT ![v] = [state |-> "Creating",
                                             changedAt |-> op.now, readyAt |-> r]]
        PROVE  VmsIn(vms', {"Leased"}) \subseteq VmsIn(vms, {"Leased"})
    BY <1>1, <2>2
  <2> QED BY <1>2, <2>1, <2>2
<1>6. CASE ReleaseScrubbed
  <2>1. PICK r : \/ UNCHANGED vms
                 \/ vms' = [vms EXCEPT ![op.vm] = [state |-> "Draining", changedAt |-> op.now,
                                                   readyAt |-> r]]
    BY <1>6 DEF ReleaseScrubbed
  <2> DEFINE w == [state |-> "Draining", changedAt |-> op.now, readyAt |-> r]
  <2>2. w.state # "Leased" OBVIOUS
  <2>3. UNCHANGED vms \/ vms' = [vms EXCEPT ![op.vm] = w] BY <2>1
  <2> HIDE DEF w
  <2> QED BY <1>1, <1>2, <2>2, <2>3
<1>7. CASE \/ ObserveTime \/ RejectPast \/ NoneStale \/ NoneReady \/ UpdateWarmSurplusMarker
           \/ CreationFails \/ StartBackgroundCreations \/ ScaleInIfNeeded \/ SurplusEvicted
           \/ AcquireMiss \/ AcquireSkipAhead \/ AcquireRetry \/ AcquireTimedOut
           \/ ReleaseRejected
  BY <1>2, <1>7 DEF ObserveTime, RejectPast, NoneStale, NoneReady, UpdateWarmSurplusMarker,
       CreationFails, StartBackgroundCreations, ScaleInIfNeeded, SurplusEvicted, AcquireMiss,
       AcquireSkipAhead, AcquireRetry, AcquireTimedOut, ReleaseRejected, poolVars
<1> QED BY <1>3, <1>4, <1>5, <1>6, <1>7 DEF Step

\* Where a release is, and what becomes of it: the agenda keeps it until that
\* step runs, and gets no other one.
LEMMA ReleaseStays ==
  ASSUME CoreTypeOK, OrderInv, Step, op'.result # "err"
  PROVE  /\ "release" \in StepsOf(agenda')
              <=> "release" \in StepsOf(agenda) /\ Head(agenda) # "release"
         /\ "release" \in StepsOf(agenda)
              => Head(agenda) \notin {"acquire", "acquire_wait", "acquire_retry",
                                     "scale_in_if_needed", "evict_surplus"}
<1>a. agenda # <<>> /\ ~Fail BY AgendaNotEmpty DEF Fail, CoreTypeOK, CallTypeOK
<1>c. /\ Head(agenda) \in StepsOf(agenda) /\ Linked
      /\ StepsOf(agenda) = {Head(agenda)} \cup StepsOf(Tail(agenda))
  BY <1>a, LeadsTail DEF OrderInv, Linked, CoreTypeOK
<1>d. "release" \in StepsOf(agenda) => op.name = "release"
  BY DEF OrderInv, OwnAgenda, OwnSteps, Refilling, Refreshing
<1>e. "release" \in StepsOf(agenda)
        => Head(agenda) \notin {"acquire", "acquire_wait", "acquire_retry", "scale_in_if_needed",
                                "evict_surplus"}
  BY <1>c, <1>d DEF OrderInv, OwnAgenda, OwnSteps, Refilling, Refreshing
<1>f. "release" \in StepsOf(agenda') <=> "release" \in StepsOf(agenda) /\ Head(agenda) # "release"
  <2> DEFINE Kept == "release" \in StepsOf(Tail(agenda)) <=> "release" \in StepsOf(agenda')
  <2>1. "release" \in StepsOf(Tail(agenda))
          <=> "release" \in StepsOf(agenda) /\ Head(agenda) # "release"
    <3>1. Head(agenda) = "release" => StepsOf(Tail(agenda)) = {}
      <4>1. Follows("release") = {"return"} BY DEF Follows
      <4> QED BY <1>a, <1>c, <4>1, LastStep
    <3> QED BY <1>c, <3>1
  <2>2. \A h, S : Pushes(h, S) /\ "release" \notin S => Kept BY DEF Pushes
  <2>3. agenda' = Tail(agenda) => Kept OBVIOUS
  <2>4. agenda' = agenda /\ Head(agenda) # "release" => Kept BY <1>c
  <2>5. ASSUME NEW h, NEW S, Restarts(h, S), "release" \notin S,
               Head(agenda) \in {"release", "acquire", "acquire_wait"}
        PROVE  Kept
    <3>1. "release" \notin StepsOf(agenda') BY <2>5 DEF Restarts
    <3>2. "release" \notin StepsOf(Tail(agenda)) BY <1>e, <2>1, <2>5
    <3> QED BY <3>1, <3>2
  <2>6. "release" \notin Refilling \cup Refreshing BY DEF Refilling, Refreshing
  <2> HIDE DEF Kept
  <2>7. CASE StayingStep
    <3>1. agenda' = agenda BY <1>a, <1>c, <2>7, AgendaStep
    <3>2. Head(agenda) # "release"
      BY <2>7 DEF StayingStep, DiscardStale, PromoteHealthy, DiscardUnhealthy, EvictSurplus, At
    <3> QED BY <2>1, <2>4, <3>1, <3>2 DEF Kept
  <2>8. CASE AcquireHit \/ AcquireWaited \/ ReleaseUnscrubbed
    <3>1. Head(agenda) \in {"release", "acquire", "acquire_wait"}
      BY <2>8 DEF AcquireHit, AcquireWaited, ReleaseUnscrubbed, At
    <3>2. \E h, S : Restarts(h, S) /\ "release" \notin S
      <4>1. /\ "release" \notin Refreshing \cup {"start_background_creations"}
            /\ "release" \notin {"start_background_creations", "update_warm_surplus_marker"}
        BY <2>6
      <4> QED BY <1>a, <1>c, <2>8, <4>1, AgendaStep
    <3> QED BY <2>1, <2>5, <3>1, <3>2 DEF Kept
  <2>9. CASE PoppingStep \/ StartCreation
    <3>1. Pops BY <1>a, <1>c, <2>9, AgendaStep
    <3> QED BY <2>1, <2>3, <3>1 DEF Pops, Kept
  <2>10. CASE ScaleInIfNeeded \/ AcquireRetry
    <3>1. \/ Pushes("evict_surplus", {"evict_surplus"}) \/ Pushes("start_creation", Refilling)
          \/ Pops
      BY <1>a, <1>c, <2>10, AgendaStep
    <3> QED BY <2>1, <2>2, <2>3, <2>6, <3>1 DEF Pops, Kept
  <2>11. CASE StartBackgroundCreations \/ AcquireMiss \/ AcquireSkipAhead \/ ReleaseScrubbed
    <3>1. /\ "release" \notin Refilling \cup {"acquire_wait"} /\ "release" \notin {"acquire_wait"}
          /\ "release" \notin Refreshing \cup {"acquire_retry", "acquire_wait"}
          /\ "release" \notin Refreshing \cup {"start_background_creations"}
          /\ "release" \notin Refilling /\ "release" \notin Refreshing
      BY <2>6
    <3> QED BY <1>a, <1>c, <2>1, <2>2, <2>11, <3>1, AgendaStep DEF Kept
  <2> QED BY <1>a, <1>c, <2>7, <2>8, <2>9, <2>10, <2>11, AgendaStep
          DEF Step, PoppingStep, StayingStep, FailingStep
<1> QED BY <1>e, <1>f

LEMMA OrphanInvStep ==
  ASSUME CoreTypeOK, OrderInv, LeaseInv, OrphanInv, Step, op'.result # "err"
  PROVE  OrphanInv'
<1>a. agenda # <<>> /\ ~Fail BY AgendaNotEmpty DEF Fail, CoreTypeOK, CallTypeOK
<1>b. UNCHANGED handles /\ (UNCHANGED vms \/ OneChange) BY StepChanges
<1>e. "release" \in StepsOf(agenda)
        => Head(agenda) \notin {"acquire", "acquire_wait", "acquire_retry", "scale_in_if_needed",
                                "evict_surplus"}
  BY ReleaseStays
<1>f. "release" \in StepsOf(agenda') <=> "release" \in StepsOf(agenda) /\ Head(agenda) # "release"
  BY ReleaseStays
<1>g. op.result = "acquired" => op' = op
  BY InnerStepsStayInner DEF LeaseInv, CoreTypeOK, CallTypeOK
<1>1. CASE AcquireHit \/ AcquireWaited
  <2>1. PICK v \in OldestWarm : LeaseVm(v) BY <1>1 DEF AcquireHit, AcquireWaited
  <2>2. Head(agenda) \in {"acquire", "acquire_wait"} BY <1>1 DEF AcquireHit, AcquireWaited, At
  <2>3. op.result # "acquired"
    <3>1. op.result = "acquired" => agenda \in Seq(InnerSteps) BY DEF LeaseInv
    <3>2. agenda \in Seq(InnerSteps) => Head(agenda) \in InnerSteps
      BY <1>a, HeadTailProperties
    <3> QED BY <2>2, <3>1, <3>2 DEF InnerSteps
  <2>4. VmsIn(vms, {"Leased"}) \subseteq {h.vm : h \in handles}
    BY <1>e, <2>2, <2>3 DEF OrphanInv
  <2>5. /\ vms' = [vms EXCEPT ![v] = [state |-> "Leased", changedAt |-> op.now,
                                      readyAt |-> op.now]]
        /\ op'.vm = v /\ op'.result = "acquired"
    BY <2>1 DEF LeaseVm, CoreTypeOK, CallTypeOK
  <2>6. VmsIn(vms', {"Leased"}) \subseteq VmsIn(vms, {"Leased"}) \cup {v}
    BY <2>5 DEF VmsIn, CoreTypeOK, PoolTypeOK
  <2>7. "release" \notin StepsOf(agenda') BY <1>e, <1>f, <2>2
  <2> QED BY <1>b, <2>4, <2>5, <2>6, <2>7 DEF OrphanInv
<1>2. CASE ~(AcquireHit \/ AcquireWaited)
  <2>1. op'.vm = op.vm BY <1>2, ResultStep
  <2>2. VmsIn(vms', {"Leased"}) \subseteq VmsIn(vms, {"Leased"}) BY <1>2, LeasedByAcquire
  <2>3. Head(agenda) = "release" => op.vm \notin VmsIn(vms', {"Leased"})
    <3>1. Head(agenda) = "release" => ReleaseScrubbed \/ ReleaseUnscrubbed
      BY <1>a, HeadStep DEF ReleaseRejected
    <3>2. ReleaseUnscrubbed => op.vm \notin VmsIn(vms', {"Leased"})
      <4>1. ReleaseUnscrubbed => vms' = [vms EXCEPT ![op.vm] = AbsentVm]
        BY DEF ReleaseUnscrubbed, DiscardVm
      <4> QED BY <4>1 DEF VmsIn, AbsentVm, CoreTypeOK, PoolTypeOK
    <3>3. ReleaseScrubbed => op.vm \notin VmsIn(vms', {"Leased"})
      <4>1. ReleaseScrubbed => \E r : vms' = [vms EXCEPT ![op.vm] = [state |-> "Draining",
                                                    changedAt |-> op.now, readyAt |-> r]]
        BY <1>a DEF ReleaseScrubbed
      <4>2. ASSUME NEW r, vms' = [vms EXCEPT ![op.vm] = [state |-> "Draining",
                                         changedAt |-> op.now, readyAt |-> r]]
            PROVE  op.vm \notin VmsIn(vms', {"Leased"})
        BY <4>2 DEF VmsIn, CoreTypeOK, PoolTypeOK
      <4> QED BY <4>1, <4>2
    <3> QED BY <3>1, <3>2, <3>3
  <2>4. ASSUME NEW v \in VmsIn(vms', {"Leased"})
        PROVE  \/ v \in {h.vm : h \in handles}
               \/ v = op'.vm /\ (op'.result = "acquired" \/ "release" \in StepsOf(agenda'))
    BY <1>f, <1>g, <2>1, <2>2, <2>3 DEF OrphanInv
  <2>5. "release" \in StepsOf(agenda') => op'.vm \in Vms /\ vms'[op'.vm].state = "Leased"
    <3> SUFFICES ASSUME "release" \in StepsOf(agenda'), OneChange
                 PROVE  vms'[op.vm].state = "Leased"
      BY <1>b, <1>f, <2>1 DEF OrphanInv
    <3>1. op.vm \in Vms /\ vms[op.vm].state = "Leased" /\ ~At("release")
      BY <1>f DEF OrphanInv, At
    <3>2. PICK v \in Vms, w \in VmRecords : vms' = [vms EXCEPT ![v] = w] /\ Change(v, w)
      BY DEF OneChange
    <3>3. v # op.vm
      BY <3>1, <3>2 DEF Change, Created, Warmed, LeasedNow, Drained, Discarded, FreshVms,
         Pending, VmsIn
    <3> QED BY <3>1, <3>2, <3>3 DEF CoreTypeOK, PoolTypeOK
  <2> QED BY <1>b, <2>4, <2>5 DEF OrphanInv
<1> QED BY <1>1, <1>2

(* Between calls every Leased VM belongs to a lease that some caller holds,  *)
(* for any number of VMs and any configuration: acquire hands over each VM   *)
(* it leases and release takes back each VM it is given.  VMs may be found   *)
(* unhealthy and scrubs may fail.  What the theorem assumes is what it takes *)
(* for no `?` to leave a call between the two: a provider that creates and   *)
(* destroys, clocks that do not run backwards, leases given back once,       *)
(* instants that fit, and more ids than the host may have VMs.               *)
THEOREM LeasesNeverOrphaned ==
  ASSUME Faults \cap {"create", "destroy", "clock", "clone"} = {}, InstantsFit,
         HostCap < Cardinality(Vms)
  PROVE  Spec => []NoOrphanedLease
<1>1. Init => OrphanInv
  BY EmptyChain DEF Init, OrphanInv, Chain, NoCall, VmsIn, AbsentVm
<1>2. ASSUME TypeOK, OrderInv, NeverPast, LeaseInv, HostInv, OrphanInv, [Next]_vars
      PROVE  OrphanInv'
  <2>1. CASE Step
    <3>1. CoreTypeOK BY <1>2 DEF TypeOK, CoreTypeOK, PoolTypeOK, CallTypeOK
    <3> QED BY <1>2, <2>1, <3>1, NothingFails, OrphanInvStep
  <2>2. CASE Call
    <3>1. Idle /\ UNCHANGED vms
      BY <2>2 DEF Call, Refill, Acquire, Release, Reap, Begin, poolVars
    <3>2. op.result = "ok" /\ "release" \notin StepsOf(agenda)
      BY <1>2, <3>1, IdleHasNoAgenda, EmptyChain DEF Idle, NoCall, OrderInv, TypeOK, Chain
    <3>3. VmsIn(vms, {"Leased"}) \subseteq {h.vm : h \in handles}
      BY <1>2, <3>2 DEF OrphanInv
    <3>4. CASE Refill \/ Acquire \/ Reap
      <4>1. UNCHANGED handles /\ op'.result = "ok" /\ op'.name # "release"
        BY <3>4 DEF Refill, Acquire, Reap, Begin
      <4>2. "release" \notin StepsOf(agenda')
        BY <2>2, <4>1, CallAgenda DEF OwnAgenda, OwnSteps, Refilling, Refreshing
      <4> QED BY <3>1, <3>3, <4>1, <4>2 DEF OrphanInv
    <3>5. CASE Release
      <4>1. PICK now \in Clock, h \in handles :
              /\ Begin("release", now, now, h.vm, <<"release">>)
              /\ handles' = handles \ {h}
        BY <3>5 DEF Release
      <4>2. op'.vm = h.vm /\ op'.result = "ok" BY <4>1 DEF Begin
      <4>3. "release" \in StepsOf(agenda') BY <2>2, <3>5, CallAgenda
      <4>4. h.vm \in Vms /\ vms[h.vm].state = "Leased"
        BY <1>2 DEF TypeOK, LeaseInv, HandlesValid
      <4>5. \A g \in handles : g.vm = h.vm \/ g \in handles' BY <4>1
      <4> QED BY <3>1, <3>3, <4>2, <4>3, <4>4, <4>5 DEF OrphanInv
    <3> QED BY <2>2, <3>4, <3>5 DEF Call
  <2>3. CASE Return
    <3>1. /\ agenda = <<>> /\ agenda' = <<>> /\ op'.result = "ok" /\ UNCHANGED vms
          /\ handles' = IF op.result = "acquired"
                        THEN handles \cup {[vm |-> op.vm, at |-> op.now]} ELSE handles
      BY <2>3 DEF Return, Finished, NoCall, poolVars
    <3>2. "release" \notin StepsOf(<<>>) BY EmptyChain DEF Chain
    <3>3. VmsIn(vms, {"Leased"}) \subseteq {h.vm : h \in handles'}
      <4>1. [vm |-> op.vm, at |-> op.now].vm = op.vm OBVIOUS
      <4>2. {h.vm : h \in handles} \subseteq {h.vm : h \in handles'} BY <3>1
      <4>3. op.result = "acquired" => op.vm \in {h.vm : h \in handles'} BY <3>1, <4>1, Zenon
      <4> QED BY <1>2, <3>1, <3>2, <4>2, <4>3 DEF OrphanInv
    <3> QED BY <3>1, <3>2, <3>3 DEF OrphanInv
  <2>4. CASE UNCHANGED vars
    BY <1>2, <2>4 DEF vars, OrphanInv, StepsOf
  <2> QED BY <1>2, <2>1, <2>2, <2>3, <2>4 DEF Next
<1>3. TypeOK /\ OrderInv /\ OrphanInv => NoOrphanedLease
  <2> SUFFICES ASSUME TypeOK, OrderInv, OrphanInv, Idle
               PROVE  VmsIn(vms, {"Leased"}) \subseteq {h.vm : h \in handles}
    BY DEF NoOrphanedLease
  <2>1. op.result = "ok" /\ "release" \notin StepsOf(agenda)
    BY IdleHasNoAgenda, EmptyChain DEF Idle, NoCall, OrderInv, TypeOK, Chain
  <2> QED BY <2>1 DEF OrphanInv
<1>4. "clock" \notin Faults /\ "clone" \notin Faults /\ "destroy" \notin Faults OBVIOUS
<1>5. /\ Init => NeverPast /\ LeaseInv /\ HostInv
      /\ TypeOK /\ OrderInv /\ NeverPast /\ LeaseInv /\ HostInv /\ [Next]_vars
           => NeverPast' /\ LeaseInv' /\ HostInv'
  BY <1>4, NeverPastInductive, LeaseInvInductive, HostInvInductive
<1> QED BY <1>1, <1>2, <1>3, <1>5, AlwaysOrdered, PTL DEF Spec

----------------------------------------------------------------------------
(* What an error loses *)

\* A call that has failed does nothing more, and one that has a lease to hand
\* over runs inner steps only.
EndInv ==
  /\ op.result = "err" => agenda = <<>>
  /\ op.result = "acquired" => agenda \in Seq(InnerSteps)

LEMMA EndInvNext ==
  ASSUME TypeOK, EndInv, [Next]_vars
  PROVE  EndInv'
<1>1. CASE Step
  <2>1. CoreTypeOK /\ agenda # <<>>
    BY <1>1, AgendaNotEmpty DEF TypeOK, CoreTypeOK, PoolTypeOK, CallTypeOK
  <2>2. CASE \E v \in OldestWarm : LeaseVm(v)
    <3>1. PICK v \in OldestWarm : LeaseVm(v) BY <2>2
    <3>2. op'.result = "acquired" BY <2>1, <3>1 DEF LeaseVm, CoreTypeOK, CallTypeOK
    <3>3. agenda' \in Seq(InnerSteps) BY <3>1, InnerPieces, ConcatProperties DEF LeaseVm
    <3> QED BY <3>2, <3>3 DEF EndInv
  <2>3. CASE op'.result = "acquired" => op.result = "acquired"
    <3>1. op'.result = "acquired" => agenda' \in Seq(InnerSteps)
      BY <1>1, <2>3, InnerStepsStayInner DEF EndInv
    <3>2. op'.result = "err" => agenda' = <<>>
      <4>1. op.result # "err" BY <2>1 DEF EndInv
      <4>2. Fail \/ op'.result \in {op.result, "timed_out", "acquired"}
        BY <1>1, <2>1 DEF CoreTypeOK, CallTypeOK, Step, ObserveTime, RejectPast, DiscardStale,
           NoneStale, PromoteHealthy, DiscardUnhealthy, NoneReady, UpdateWarmSurplusMarker,
           StartCreation, InsertCreated, CreationFails, StartBackgroundCreations,
           ScaleInIfNeeded, EvictSurplus, SurplusEvicted, AcquireHit, AcquireMiss,
           AcquireWaited, LeaseVm, AcquireSkipAhead, AcquireRetry, AcquireTimedOut,
           ReleaseRejected, ReleaseScrubbed, ReleaseUnscrubbed, DiscardVm
      <4> QED BY <4>1, <4>2 DEF Fail
    <3> QED BY <3>1, <3>2 DEF EndInv
  <2> QED BY <1>1, <2>1, <2>2, <2>3, ResultStep
<1>2. CASE Call \/ Return
  <2>1. op'.result = "ok"
    BY <1>2 DEF Call, Refill, Acquire, Release, Reap, Begin, Return, NoCall
  <2> QED BY <2>1 DEF EndInv
<1>3. CASE UNCHANGED vars BY <1>3 DEF EndInv, vars
<1> QED BY <1>1, <1>2, <1>3 DEF Next

LEMMA AlwaysEnds == Spec => [](TypeOK /\ OrderInv /\ ReleaseInv /\ EndInv)
<1>1. Init => ReleaseInv /\ EndInv BY DEF Init, NoCall, ReleaseInv, EndInv
<1> QED BY <1>1, AlwaysOrdered, ReleaseInvNext, EndInvNext, PTL DEF Spec

\* Of a Leased VM nothing but a release that names it makes anything else.
LEMMA LeasedStays ==
  ASSUME CoreTypeOK, Step, NEW v \in VmsIn(vms, {"Leased"}), ~(v = op.vm /\ At("release"))
  PROVE  vms'[v] = vms[v]
<1>1. v \in Vms /\ vms[v].state = "Leased" BY DEF VmsIn
<1>2. CASE UNCHANGED vms BY <1>2
<1>3. CASE OneChange
  <2>1. PICK u \in Vms, w \in VmRecords : vms' = [vms EXCEPT ![u] = w] /\ Change(u, w)
    BY <1>3 DEF OneChange
  <2>2. u # v
    BY <1>1, <2>1 DEF Change, Created, Warmed, LeasedNow, Drained, Discarded, FreshVms, InPool,
       Pending, VmsIn, States
  <2> QED BY <1>1, <2>1, <2>2 DEF CoreTypeOK, PoolTypeOK
<1> QED BY <1>2, <1>3, StepChanges

\* When release has been at the VM and it is still Leased, its next ready instant
\* did not fit.
LEMMA ReleaseLets ==
  ASSUME CoreTypeOK, Step, At("release"), op.vm \in VmsIn(vms', {"Leased"})
  PROVE  \E after \in ReadyAfter : op.now + after > MaxInstant
<1>1. op.vm \in Vms /\ vms'[op.vm].state = "Leased" BY DEF VmsIn
<1>2. ReleaseRejected \/ ReleaseScrubbed \/ ReleaseUnscrubbed BY HeadStep DEF At
<1>3. ~ReleaseRejected BY <1>1 DEF ReleaseRejected, poolVars
<1>4. ~ReleaseUnscrubbed
  BY <1>1 DEF ReleaseUnscrubbed, DiscardVm, AbsentVm, CoreTypeOK, PoolTypeOK
<1>5. PICK after \in ReadyAfter :
        IF op.now + after > MaxInstant THEN TRUE
        ELSE vms' = [vms EXCEPT ![op.vm] = [state |-> "Draining", changedAt |-> op.now,
                                            readyAt |-> op.now + after]]
  BY <1>2, <1>3, <1>4 DEF ReleaseScrubbed
<1>6. ASSUME NEW r, vms' = [vms EXCEPT ![op.vm] = [state |-> "Draining", changedAt |-> op.now,
                                                   readyAt |-> r]]
      PROVE  FALSE
  BY <1>1, <1>6 DEF CoreTypeOK, PoolTypeOK
<1> QED BY <1>5, <1>6

LEMMA RangeIsSteps == \A s \in Seq(StepNames) : Range(s) = StepsOf(s)
  BY DEF Range, StepsOf

\* A VM that is lost already stays so through a step.
LEMMA StepLosesForGood ==
  ASSUME CoreTypeOK, OrderInv, EndInv, Step, agenda' \in Seq(StepNames), EndInv'
  PROVE  Orphans \subseteq Orphans'
<1> SUFFICES ASSUME NEW v \in Orphans PROVE v \in Orphans' OBVIOUS
<1>a. agenda # <<>> /\ Linked /\ agenda \in Seq(StepNames)
  BY AgendaNotEmpty DEF OrderInv, CoreTypeOK
<1>b. /\ v \in VmsIn(vms, {"Leased"}) /\ v \in Vms /\ vms[v].state = "Leased"
      /\ \A h \in handles : h.vm # v
      /\ v = op.vm => op.result # "acquired" /\ "release" \notin StepsOf(agenda)
  BY <1>a, RangeIsSteps DEF Orphans, VmsIn
<1>c. At("release") => "release" \in StepsOf(agenda)
  BY <1>a, LeadsTail DEF At, Linked
<1>1. v \in VmsIn(vms', {"Leased"}) /\ UNCHANGED handles
  BY <1>b, <1>c, LeasedStays, StepChanges DEF VmsIn
<1>2. ASSUME v = op'.vm PROVE op'.result # "acquired" /\ "release" \notin StepsOf(agenda')
  <2>1. ASSUME NEW w \in OldestWarm, LeaseVm(w) PROVE FALSE
    <3>1. op'.vm = w /\ vms[w].state = "Warm"
      BY <2>1 DEF LeaseVm, OldestWarm, VmsIn, CoreTypeOK, CallTypeOK
    <3> QED BY <1>2, <1>b, <3>1
  <2>2. v = op.vm /\ op'.result # "acquired" BY <1>2, <1>b, <2>1, ResultStep
  <2>3. CASE op'.result = "err"
    <3>1. StepsOf(agenda') = {} BY <2>3, EmptyChain DEF EndInv, Chain
    <3> QED BY <2>2, <3>1
  <2>4. CASE op'.result # "err" BY <1>b, <2>2, <2>4, ReleaseStays
  <2> QED BY <2>3, <2>4
<1> QED BY <1>1, <1>2, RangeIsSteps DEF Orphans

\* What a step adds to the lost VMs: at most the one its call works on, and only
\* if it makes the call an error.
LEMMA StepLoses ==
  ASSUME CoreTypeOK, OrderInv, EndInv, Step, agenda' \in Seq(StepNames), NEW v \in Orphans' \ Orphans
  PROVE  v = op.vm /\ op'.result = "err"
<1>a. agenda # <<>> /\ Linked /\ agenda \in Seq(StepNames)
  BY AgendaNotEmpty DEF OrderInv, CoreTypeOK
<1>b. /\ v \in VmsIn(vms', {"Leased"}) /\ \A h \in handles : h.vm # v
      /\ v = op'.vm => op'.result # "acquired" /\ "release" \notin StepsOf(agenda')
  BY RangeIsSteps, StepChanges DEF Orphans
<1>1. ASSUME NEW w \in OldestWarm, LeaseVm(w), AcquireHit \/ AcquireWaited PROVE FALSE
  <2>1. /\ vms' = [vms EXCEPT ![w] = [state |-> "Leased", changedAt |-> op.now, readyAt |-> op.now]]
        /\ op'.vm = w /\ op'.result = "acquired" /\ w \in Vms
    BY <1>1 DEF LeaseVm, OldestWarm, VmsIn, CoreTypeOK, CallTypeOK
  <2>2. v # w /\ v \in VmsIn(vms, {"Leased"})
    BY <1>b, <2>1 DEF VmsIn, CoreTypeOK, PoolTypeOK
  <2>3. Head(agenda) \in {"acquire", "acquire_wait"} BY <1>1 DEF AcquireHit, AcquireWaited, At
  <2>4. op.result # "acquired"
    <3>1. agenda \in Seq(InnerSteps) => Head(agenda) \in InnerSteps BY <1>a, HeadTailProperties
    <3> QED BY <2>3, <3>1 DEF EndInv, InnerSteps
  <2>5. "release" \notin StepsOf(agenda) BY <2>1, <2>3, ReleaseStays
  <2> QED BY <1>a, <1>b, <2>2, <2>4, <2>5, RangeIsSteps DEF Orphans
<1>2. op'.vm = op.vm /\ (op'.result = "acquired" => op.result = "acquired")
  BY <1>1, ResultStep
<1>3. v \in VmsIn(vms, {"Leased"})
  <2>1. ~(AcquireHit \/ AcquireWaited) BY <1>1 DEF AcquireHit, AcquireWaited
  <2> QED BY <1>b, <2>1, LeasedByAcquire
<1>4. v = op.vm /\ (op.result = "acquired" \/ "release" \in StepsOf(agenda))
  BY <1>a, <1>b, <1>3, RangeIsSteps DEF Orphans
<1>5. CASE op'.result # "err" /\ op.result = "acquired"
  BY <1>b, <1>2, <1>4, <1>5, InnerStepsStayInner DEF EndInv, CoreTypeOK, CallTypeOK
<1>6. CASE op'.result # "err" /\ "release" \in StepsOf(agenda)
  <2>1. Head(agenda) = "release" BY <1>b, <1>2, <1>4, <1>6, ReleaseStays
  <2>2. agenda' # agenda /\ ~Fail
    <3>1. "release" \notin StepsOf(agenda') BY <1>b, <1>2, <1>4
    <3> QED BY <1>6, <3>1 DEF Fail, CoreTypeOK, CallTypeOK
  <2>3. v \notin VmsIn(vms', {"Leased"})
    <3>1. ReleaseScrubbed \/ ReleaseUnscrubbed
      BY <2>1, <2>2, HeadStep DEF ReleaseRejected
    <3>2. CASE ReleaseUnscrubbed
      BY <3>2, <1>4 DEF ReleaseUnscrubbed, DiscardVm, VmsIn, AbsentVm, CoreTypeOK, PoolTypeOK
    <3>3. CASE ReleaseScrubbed
      <4>1. PICK r : vms' = [vms EXCEPT ![op.vm] = [state |-> "Draining", changedAt |-> op.now,
                                                   readyAt |-> r]]
        BY <2>2, <3>3 DEF ReleaseScrubbed
      <4> QED BY <1>4, <4>1 DEF VmsIn, CoreTypeOK, PoolTypeOK
    <3> QED BY <3>1, <3>2, <3>3
  <2> QED BY <1>b, <2>3
<1> QED BY <1>4, <1>5, <1>6

\* Calls and returns lose nothing and find nothing.
LEMMA OutsideLoses ==
  ASSUME TypeOK, OrderInv, Call \/ Return
  PROVE  Orphans' = Orphans
<1>a. UNCHANGED vms
  BY DEF Call, Refill, Acquire, Release, Reap, Begin, Return, poolVars
<1>b. \A v \in Vms : v # NoVm BY VmsAssumption
<1>1. CASE Refill \/ Acquire \/ Reap
  <2>1. UNCHANGED handles /\ op.vm = NoVm /\ op'.vm = NoVm
    BY <1>1 DEF Refill, Acquire, Reap, Begin, Idle, NoCall
  <2> QED BY <1>a, <1>b, <2>1 DEF Orphans, VmsIn
<1>2. CASE Release
  <2>1. PICK h \in handles : /\ op'.vm = h.vm
                             /\ handles' \in {handles \ {h}, handles}
    BY <1>2 DEF Release, Begin
  <2>2. "release" \in StepsOf(agenda') BY <1>2, CallAgenda DEF Call
  <2>3. StepsOf(agenda') = Range(agenda')
    <3>1. agenda' = AdvanceTo \o <<"release">> BY <1>2 DEF Release, Begin
    <3>2. agenda' \in Seq(StepNames)
      BY <3>1, AgendaPieces, ConcatProperties DEF StepNames
    <3> QED BY <3>2, RangeIsSteps
  <2>4. op.vm = NoVm BY <1>2 DEF Release, Begin, Idle, NoCall
  <2>5. \A v \in Vms : (\A g \in handles' : g.vm # v) /\ v # h.vm => \A g \in handles : g.vm # v
    BY <2>1
  <2> QED BY <1>a, <1>b, <2>1, <2>2, <2>3, <2>4, <2>5 DEF Orphans, VmsIn
<1>3. CASE Return
  <2>1. /\ agenda = <<>> /\ op'.vm = NoVm
        /\ handles' = IF op.result = "acquired"
                      THEN handles \cup {[vm |-> op.vm, at |-> op.now]} ELSE handles
    BY <1>3 DEF Return, Finished, NoCall
  <2>2. "release" \notin Range(agenda) BY <2>1 DEF Range
  <2>3. ASSUME NEW v \in Vms
        PROVE  (\A h \in handles' : h.vm # v)
                 <=> (\A h \in handles : h.vm # v) /\ (v = op.vm => op.result # "acquired")
    <3> DEFINE new == [vm |-> op.vm, at |-> op.now]
    <3>1. new.vm = op.vm OBVIOUS
    <3>2. handles' = IF op.result = "acquired" THEN handles \cup {new} ELSE handles BY <2>1
    <3> HIDE DEF new
    <3> QED BY <3>1, <3>2
  <2> QED BY <1>a, <1>b, <2>1, <2>2, <2>3 DEF Orphans, VmsIn
<1> QED BY <1>1, <1>2, <1>3 DEF Call

(* The lease of acquire's VM is lost, under every fault, only in the step    *)
(* that makes the call an error: no call loses more than one VM, none that   *)
(* returns Ok loses any, and release loses the VM it is at only if an        *)
(* instant does not fit.  LeasesNeverOrphaned says when no call fails.       *)
THEOREM LeasesLostOnlyOnError == Spec => LostOnlyOnError
<1>1. ASSUME TypeOK, OrderInv, ReleaseInv, EndInv, [Next]_vars, EndInv'
      PROVE  \/ Orphans' \subseteq Orphans
             \/ /\ op.result # "err" /\ op'.result = "err"
                /\ Orphans' = Orphans \cup {op.vm}
                /\ At("release") => \E after \in ReadyAfter : op.now + after > MaxInstant
  <2>1. CASE Step
    <3>1. CoreTypeOK BY <1>1 DEF TypeOK, CoreTypeOK, PoolTypeOK, CallTypeOK
    <3>2. agenda' \in Seq(StepNames) BY <2>1, <3>1, TypeStepStep DEF CoreTypeOK
    <3>3. Orphans \subseteq Orphans' BY <1>1, <2>1, <3>1, <3>2, StepLosesForGood
    <3>4. CASE Orphans' # Orphans
      <4>1. PICK v \in Orphans' \ Orphans : v = op.vm /\ op'.result = "err"
        BY <1>1, <2>1, <3>1, <3>2, <3>3, <3>4, StepLoses
      <4>2. Orphans' = Orphans \cup {op.vm}
        BY <1>1, <2>1, <3>1, <3>2, <3>3, <4>1, StepLoses
      <4>3. op.result # "err" BY <1>1, <2>1, AgendaNotEmpty DEF EndInv
      <4>4. At("release") => \E after \in ReadyAfter : op.now + after > MaxInstant
        <5>1. op.vm \in VmsIn(vms', {"Leased"}) BY <4>1 DEF Orphans
        <5> QED BY <2>1, <3>1, <5>1, ReleaseLets
      <4> QED BY <4>1, <4>2, <4>3, <4>4
    <3> QED BY <3>4
  <2>2. CASE Call \/ Return BY <1>1, <2>2, OutsideLoses
  <2>3. CASE UNCHANGED vars BY <2>3 DEF vars, Orphans, VmsIn, Range
  <2> QED BY <1>1, <2>1, <2>2, <2>3 DEF Next
<1>2. TypeOK /\ OrderInv /\ ReleaseInv /\ EndInv /\ [Next]_vars /\ EndInv' =>
        [\/ Orphans' \subseteq Orphans
         \/ /\ op.result # "err" /\ op'.result = "err"
            /\ Orphans' = Orphans \cup {op.vm}
            /\ At("release") => \E after \in ReadyAfter : op.now + after > MaxInstant]_vars
  BY <1>1
<1> QED BY <1>2, AlwaysEnds, PTL DEF Spec, LostOnlyOnError

(* What is lost is lost for good: no later call, whatever it does or meets,  *)
(* gives a VM back that is Leased to nobody, so that each one takes its      *)
(* place of the host's capacity for ever.                                    *)
THEOREM LostForGood == Spec => [][Orphans \subseteq Orphans']_vars
<1>1. ASSUME TypeOK, OrderInv, EndInv, [Next]_vars, EndInv'
      PROVE  Orphans \subseteq Orphans'
  <2>1. CASE Step
    <3>1. CoreTypeOK BY <1>1 DEF TypeOK, CoreTypeOK, PoolTypeOK, CallTypeOK
    <3>2. agenda' \in Seq(StepNames) BY <2>1, <3>1, TypeStepStep DEF CoreTypeOK
    <3> QED BY <1>1, <2>1, <3>1, <3>2, StepLosesForGood
  <2>2. CASE Call \/ Return BY <1>1, <2>2, OutsideLoses
  <2>3. CASE UNCHANGED vars BY <2>3 DEF vars, Orphans, VmsIn, Range
  <2> QED BY <1>1, <2>1, <2>2, <2>3 DEF Next
<1>2. TypeOK /\ OrderInv /\ EndInv /\ [Next]_vars /\ EndInv' => [Orphans \subseteq Orphans']_vars
  BY <1>1
<1> QED BY <1>2, AlwaysEnds, PTL DEF Spec

----------------------------------------------------------------------------
(* What an error leaks *)

\* A step leaves the leaked VMs as they are or fewer, or fails with one more.
LEMMA StepLeaks ==
  ASSUME CoreTypeOK, OrderInv, ReleaseInv, Step
  PROVE  \/ Leaked' \subseteq Leaked
         \/ Fail /\ \E v \in Vms : Leaked' = Leaked \cup {v}
<1>1. ASSUME NEW v \in Vms, NEW failed, NEW next, DiscardVm(v, failed, next)
      PROVE  \/ Leaked' \subseteq Leaked
             \/ Fail /\ \E u \in Vms : Leaked' = Leaked \cup {u}
  <2>1. InPool' = InPool \ {v}
    <3>1. vms' = [vms EXCEPT ![v] = AbsentVm] BY <1>1 DEF DiscardVm
    <3> QED BY <3>1 DEF InPool, VmsIn, AbsentVm, CoreTypeOK, PoolTypeOK, States
  <2>2. host' = host \ {v} \/ (Fail /\ host' = host) BY <1>1 DEF DiscardVm
  <2>3. CASE host' = host \ {v} BY <2>1, <2>3 DEF Leaked
  <2>4. CASE Fail /\ host' = host
    <3>1. CASE v \in host
      <4>1. Leaked' = Leaked \cup {v} BY <2>1, <2>4, <3>1 DEF Leaked
      <4> QED BY <2>4, <4>1
    <3>2. CASE v \notin host BY <2>1, <2>4, <3>2 DEF Leaked
    <3> QED BY <3>1, <3>2
  <2> QED BY <2>2, <2>3, <2>4
<1>2. CASE DiscardStale \/ DiscardUnhealthy \/ EvictSurplus
  <2>1. PICK v \in Vms, failed \in BOOLEAN : DiscardVm(v, failed, agenda)
    BY <1>2 DEF DiscardStale, DiscardUnhealthy, EvictSurplus, StaleAt, ReadyAt, Pending,
       OldestWarm, VmsIn
  <2> QED BY <1>1, <2>1
<1>3. CASE ReleaseUnscrubbed
  <2>1. op.vm \in Vms BY <1>3, ReleaseIsOwn DEF ReleaseUnscrubbed, ReleaseInv
  <2> QED BY <1>1, <1>3, <2>1 DEF ReleaseUnscrubbed
<1>4. CASE StartCreation /\ ~CreationRefused
  <2>1. PICK v \in FreshVms, after \in ReadyAfter : InsertCreated(v, op.now + after)
    BY <1>4 DEF StartCreation
  <2>2. host' = host \cup {v} /\ v \in Vms /\ v \notin InPool BY <2>1 DEF InsertCreated, FreshVms
  <2>3. CASE op.now + after <= MaxInstant
    <3>1. vms' = [vms EXCEPT ![v] = [state |-> "Creating", changedAt |-> op.now,
                                     readyAt |-> op.now + after]]
      BY <2>1, <2>3 DEF InsertCreated
    <3>2. InPool' = InPool \cup {v}
      BY <2>2, <3>1 DEF InPool, VmsIn, CoreTypeOK, PoolTypeOK, States
    <3> QED BY <2>2, <3>2 DEF Leaked
  <2>4. CASE ~(op.now + after <= MaxInstant)
    <3>1. Fail /\ InPool' = InPool BY <2>1, <2>4 DEF InsertCreated, InPool, VmsIn
    <3>2. Leaked' = Leaked \cup {v} BY <2>2, <3>1 DEF Leaked
    <3> QED BY <2>2, <3>1, <3>2
  <2> QED BY <2>3, <2>4
<1>5. CASE StartCreation /\ CreationRefused
  BY <1>5 DEF StartCreation, Leaked, InPool, VmsIn
<1>6. ASSUME NEW v, NEW w, w.state \in States \ {"Absent"}, vms' = [vms EXCEPT ![v] = w],
             UNCHANGED host
      PROVE  Leaked' \subseteq Leaked
  <2>1. \A u \in Vms : vms[u].state # "Absent" => vms'[u].state # "Absent"
    BY <1>6 DEF CoreTypeOK, PoolTypeOK
  <2>2. \A u \in Vms : vms'[u].state \in States BY <1>6 DEF CoreTypeOK, PoolTypeOK
  <2>3. InPool \subseteq InPool' BY <2>1, <2>2 DEF InPool, VmsIn
  <2> QED BY <1>6, <2>3 DEF Leaked
<1>7. CASE PromoteHealthy \/ AcquireHit \/ AcquireWaited
  <2>1. /\ UNCHANGED host
        /\ \E v : \/ vms' = [vms EXCEPT ![v] = [state |-> "Warm", changedAt |-> op.now,
                                                readyAt |-> op.now]]
                  \/ vms' = [vms EXCEPT ![v] = [state |-> "Leased", changedAt |-> op.now,
                                                readyAt |-> op.now]]
    BY <1>7 DEF PromoteHealthy, AcquireHit, AcquireWaited, LeaseVm
  <2>2. /\ [state |-> "Warm", changedAt |-> op.now, readyAt |-> op.now].state \in States \ {"Absent"}
        /\ [state |-> "Leased", changedAt |-> op.now, readyAt |-> op.now].state \in States \ {"Absent"}
    BY DEF States
  <2> QED BY <1>6, <2>1, <2>2
<1>8. CASE ReleaseScrubbed
  <2>1. PICK r : /\ UNCHANGED host
                 /\ \/ UNCHANGED vms
                    \/ vms' = [vms EXCEPT ![op.vm] = [state |-> "Draining", changedAt |-> op.now,
                                                      readyAt |-> r]]
    BY <1>8 DEF ReleaseScrubbed
  <2>2. [state |-> "Draining", changedAt |-> op.now, readyAt |-> r].state \in States \ {"Absent"}
    BY DEF States
  <2>3. CASE UNCHANGED vms BY <2>1, <2>3 DEF Leaked, InPool, VmsIn
  <2> QED BY <1>6, <2>1, <2>2, <2>3
<1>9. CASE UNCHANGED <<vms, host>> BY <1>9 DEF Leaked, InPool, VmsIn
<1>10. CASE \/ ObserveTime \/ RejectPast \/ NoneStale \/ NoneReady \/ UpdateWarmSurplusMarker
            \/ CreationFails \/ StartBackgroundCreations \/ ScaleInIfNeeded \/ SurplusEvicted
            \/ AcquireMiss \/ AcquireSkipAhead \/ AcquireRetry \/ AcquireTimedOut
            \/ ReleaseRejected
  BY <1>9, <1>10 DEF ObserveTime, RejectPast, NoneStale, NoneReady, UpdateWarmSurplusMarker,
       CreationFails, StartBackgroundCreations, ScaleInIfNeeded, SurplusEvicted, AcquireMiss,
       AcquireSkipAhead, AcquireRetry, AcquireTimedOut, ReleaseRejected, poolVars
<1> QED BY <1>2, <1>3, <1>4, <1>5, <1>7, <1>8, <1>10 DEF Step

(* Under every fault a call that returns Ok has left no VM at the provider   *)
(* that the pool has forgotten, and one that returns Err one at most: the    *)
(* VMs beyond the cap are no more than the errors the callers have seen.     *)
THEOREM VmsLeakedOnlyOnError == Spec => LeaksOnlyOnError
<1>1. ASSUME TypeOK, OrderInv, ReleaseInv, EndInv, [Next]_vars
      PROVE  \/ Leaked' \subseteq Leaked
             \/ /\ op.result # "err" /\ op'.result = "err"
                /\ \E v \in Vms : Leaked' = Leaked \cup {v}
  <2>1. CASE Step
    <3>1. CoreTypeOK BY <1>1 DEF TypeOK, CoreTypeOK, PoolTypeOK, CallTypeOK
    <3>2. op.result # "err" BY <1>1, <2>1, AgendaNotEmpty DEF EndInv
    <3>3. Fail => op'.result = "err" BY <3>1 DEF Fail, CoreTypeOK, CallTypeOK
    <3> QED BY <1>1, <2>1, <3>1, <3>2, <3>3, StepLeaks
  <2>2. CASE ~Step
    <3>1. UNCHANGED <<vms, host>>
      BY <1>1, <2>2 DEF Next, Call, Refill, Acquire, Release, Reap, Begin, Return, poolVars, vars
    <3> QED BY <3>1 DEF Leaked, InPool, VmsIn
  <2> QED BY <2>1, <2>2
<1>2. TypeOK /\ OrderInv /\ ReleaseInv /\ EndInv /\ [Next]_vars =>
        [\/ Leaked' \subseteq Leaked
         \/ /\ op.result # "err" /\ op'.result = "err"
            /\ \E v \in Vms : Leaked' = Leaked \cup {v}]_vars
  BY <1>1
<1> QED BY <1>2, AlwaysEnds, PTL DEF Spec, LeaksOnlyOnError

----------------------------------------------------------------------------
(* What a refill does to the pool *)

LEMMA CountsType ==
  /\ WarmCount(vms) \in Nat /\ CreatingCount \in Nat /\ ActiveCount \in Nat
  /\ WarmCount(vms)' \in Nat /\ CreatingCount' \in Nat /\ ActiveCount' \in Nat
<1>1. WarmCount(vms) \in Nat /\ CreatingCount \in Nat /\ ActiveCount \in Nat
  BY VmsInFinite DEF WarmCount, CreatingCount, ActiveCount, InPool
<1>2. /\ WarmCount(vms') \in Nat /\ Cardinality(VmsIn(vms', {"Creating"})) \in Nat
      /\ Cardinality(VmsIn(vms', States \ {"Absent"})) \in Nat
  BY VmsInFinite DEF WarmCount
<1> QED BY <1>1, <1>2 DEF WarmCount, CreatingCount, ActiveCount, InPool

\* There is an oldest warm VM as soon as there is a warm one.
LEMMA OldestExists ==
  ASSUME CoreTypeOK
  PROVE  /\ OldestWarm = {} <=> VmsIn(vms, {"Warm"}) = {}
         /\ OldestWarm = {} <=> WarmCount(vms) = 0
<1> DEFINE warm == VmsIn(vms, {"Warm"})
           instants == {vms[v].changedAt : v \in warm}
<1>1. ASSUME warm # {} PROVE OldestWarm # {}
  <2>1. instants \in SUBSET Nat /\ instants # {}
    <3>1. instants \in SUBSET Nat BY DEF VmsIn, CoreTypeOK, PoolTypeOK
    <3>2. instants # {} BY <1>1
    <3> QED BY <3>1, <3>2
  <2>2. Min(instants) \in instants /\ \A t \in instants : Min(instants) <= t
    <3> HIDE DEF instants
    <3> QED BY <2>1, MinOfNaturals
  <2>3. PICK v \in warm : \A w \in warm : vms[v].changedAt <= vms[w].changedAt BY <2>2
  <2> QED BY <2>3 DEF OldestWarm
<1>2. OldestWarm \subseteq warm BY DEF OldestWarm
<1>3. IsFiniteSet(warm) BY VmsInFinite
<1>4. Cardinality(warm) = 0 <=> warm = {} BY <1>3, FS_EmptySet
<1> QED BY <1>1, <1>2, <1>4 DEF WarmCount

\* Moving one VM from one state to another moves one from count to count.
LEMMA OneMoves ==
  ASSUME CoreTypeOK, NEW v \in Vms, NEW w, w.state # vms[v].state,
         vms' = [vms EXCEPT ![v] = w]
  PROVE  /\ Cardinality(VmsIn(vms', {w.state})) = Cardinality(VmsIn(vms, {w.state})) + 1
         /\ Cardinality(VmsIn(vms', {vms[v].state})) + 1
              = Cardinality(VmsIn(vms, {vms[v].state}))
         /\ \A s : s # w.state /\ s # vms[v].state
                    => Cardinality(VmsIn(vms', {s})) = Cardinality(VmsIn(vms, {s}))
<1>1. vms'[v] = w /\ \A u \in Vms \ {v} : vms'[u] = vms[u] BY DEF CoreTypeOK, PoolTypeOK
<1>2. ASSUME NEW s, s = w.state
      PROVE  Cardinality(VmsIn(vms', {s})) = Cardinality(VmsIn(vms, {s})) + 1
  <2>1. VmsIn(vms', {s}) = VmsIn(vms, {s}) \cup {v} /\ v \notin VmsIn(vms, {s})
    BY <1>1, <1>2 DEF VmsIn
  <2>2. IsFiniteSet(VmsIn(vms, {s})) BY VmsInFinite
  <2>3. Cardinality(VmsIn(vms, {s}) \cup {v}) = Cardinality(VmsIn(vms, {s})) + 1
    BY <2>1, <2>2, FS_AddElement
  <2> QED BY <2>1, <2>3, Zenon
<1>3. ASSUME NEW s, s = vms[v].state
      PROVE  Cardinality(VmsIn(vms', {s})) + 1 = Cardinality(VmsIn(vms, {s}))
  <2>1. VmsIn(vms', {s}) = VmsIn(vms, {s}) \ {v} /\ v \in VmsIn(vms, {s})
    BY <1>1, <1>3 DEF VmsIn
  <2>2. IsFiniteSet(VmsIn(vms, {s})) /\ Cardinality(VmsIn(vms, {s})) \in Nat BY VmsInFinite
  <2>3. Cardinality(VmsIn(vms, {s}) \ {v}) = Cardinality(VmsIn(vms, {s})) - 1
    BY <2>1, <2>2, FS_RemoveElement
  <2>4. Cardinality(VmsIn(vms', {s})) = Cardinality(VmsIn(vms, {s})) - 1 BY <2>1, <2>3, Zenon
  <2> QED BY <2>2, <2>4
<1>4. ASSUME NEW s, s # w.state, s # vms[v].state
      PROVE  Cardinality(VmsIn(vms', {s})) = Cardinality(VmsIn(vms, {s}))
  <2>1. VmsIn(vms', {s}) = VmsIn(vms, {s}) BY <1>1, <1>4 DEF VmsIn
  <2> QED BY <2>1, Zenon
<1> QED BY <1>2, <1>3, <1>4

\* Observing, settling and marking leave the call's record alone.
LEMMA RefreshingKeepsCall ==
  ASSUME Step, Head(agenda) \in Refreshing, ~Fail
  PROVE  UNCHANGED op
  BY HeadStep DEF ObserveTime, RejectPast, DiscardStale, NoneStale, PromoteHealthy,
     DiscardUnhealthy, NoneReady, UpdateWarmSurplusMarker, DiscardVm

\* While no VM is overdue and none is found unhealthy, advance_to takes no VM
\* out of the pool: it can only make VMs warm.
LEMMA RefreshKeeps ==
  ASSUME CoreTypeOK, Step, agenda # <<>>, Head(agenda) \in Refreshing, ~Fail,
         NoneOverdue(vms, op.now), "health" \notin Faults
  PROVE  /\ UNCHANGED op
         /\ NoneOverdue(vms, op.now)'
         /\ WarmCount(vms)' >= WarmCount(vms)
         /\ WarmCount(vms)' + CreatingCount' >= WarmCount(vms) + CreatingCount
         /\ ActiveCount' = ActiveCount
         /\ UNCHANGED vms \/ WarmCount(vms)' > 0
<1>1. ObserveTime \/ NoneStale \/ PromoteHealthy \/ NoneReady \/ UpdateWarmSurplusMarker
  <2>1. ~RejectPast BY DEF RejectPast
  <2>2. ~DiscardStale BY StaleOverdue DEF DiscardStale
  <2>3. ~DiscardUnhealthy BY DEF DiscardUnhealthy
  <2> QED BY <2>1, <2>2, <2>3, HeadStep
<1>2. UNCHANGED op
  BY <1>1 DEF ObserveTime, NoneStale, PromoteHealthy, NoneReady, UpdateWarmSurplusMarker
<1>3. CASE UNCHANGED vms
  <2>1. NoneOverdue(vms, op.now)' BY <1>2, <1>3, SameSettled
  <2>2. /\ WarmCount(vms)' = WarmCount(vms) /\ CreatingCount' = CreatingCount
        /\ ActiveCount' = ActiveCount
    BY <1>3 DEF WarmCount, CreatingCount, ActiveCount, InPool, VmsIn
  <2> QED BY <1>2, <1>3, <2>1, <2>2, CountsType
<1>4. CASE PromoteHealthy
  <2> DEFINE w == [state |-> "Warm", changedAt |-> op.now, readyAt |-> op.now]
  <2>1. PICK v \in ReadyAt(op.now) : vms' = [vms EXCEPT ![v] = w]
    BY <1>4 DEF PromoteHealthy
  <2>2. v \in Vms /\ v \in InPool /\ vms[v].state \in {"Creating", "Draining"}
    BY DEF ReadyAt, Pending, InPool, VmsIn, States
  <2>3. w \in VmRecords /\ w.state = "Warm" /\ "Warm" \in States /\ "Creating" \in States
    BY DEF CoreTypeOK, CallTypeOK, VmRecords, States
  <2> HIDE DEF w
  <2>4. InPool' = InPool BY <2>1, <2>2, <2>3, RewriteKeepsPool
  <2>5. op.now \in Nat BY DEF CoreTypeOK, CallTypeOK
  <2>6. NoneOverdue(vms', op.now) BY <2>1, <2>3, <2>5, StaleShrinks
  <2>7. NoneOverdue(vms, op.now)' BY <1>2, <2>6 DEF NoneOverdue, LimitIn
  <2>8. /\ Cardinality(VmsIn(vms', {"Warm"})) = Cardinality(VmsIn(vms, {"Warm"})) + 1
        /\ Cardinality(VmsIn(vms', {"Creating"})) + 1 >= Cardinality(VmsIn(vms, {"Creating"}))
    <3>1. w.state # vms[v].state BY <2>2, <2>3
    <3>2. Cardinality(VmsIn(vms', {w.state})) = Cardinality(VmsIn(vms, {w.state})) + 1
      BY <2>1, <2>2, <3>1, OneMoves
    <3>3. /\ Cardinality(VmsIn(vms, {"Creating"})) \in Nat
          /\ Cardinality(VmsIn(vms', {"Creating"})) \in Nat
      BY VmsInFinite
    <3>4. CASE vms[v].state = "Creating"
      <4>1. Cardinality(VmsIn(vms', {"Creating"})) + 1 = Cardinality(VmsIn(vms, {"Creating"}))
        BY <2>1, <2>2, <3>1, <3>4, OneMoves
      <4> QED BY <2>3, <3>2, <3>3, <4>1
    <3>5. CASE vms[v].state # "Creating"
      <4>1. Cardinality(VmsIn(vms', {"Creating"})) = Cardinality(VmsIn(vms, {"Creating"}))
        BY <2>1, <2>2, <2>3, <3>1, <3>5, OneMoves
      <4> QED BY <2>3, <3>2, <3>3, <4>1
    <3> QED BY <3>4, <3>5
  <2>9. WarmCount(vms)' = WarmCount(vms) + 1 /\ CreatingCount' + 1 >= CreatingCount
    BY <2>8 DEF WarmCount, CreatingCount
  <2>10. /\ WarmCount(vms)' >= WarmCount(vms) /\ WarmCount(vms)' > 0
         /\ WarmCount(vms)' + CreatingCount' >= WarmCount(vms) + CreatingCount
    <3>1. \A a, b, c, d \in Nat : a = b + 1 /\ c + 1 >= d => a >= b /\ a > 0 /\ a + c >= b + d
      OBVIOUS
    <3> QED BY <2>9, <3>1, CountsType
  <2>11. ActiveCount' = ActiveCount BY <2>4 DEF ActiveCount
  <2> QED BY <1>2, <2>7, <2>10, <2>11
<1>5. ObserveTime \/ NoneStale \/ NoneReady \/ UpdateWarmSurplusMarker => UNCHANGED vms
  BY DEF ObserveTime, NoneStale, NoneReady, UpdateWarmSurplusMarker, poolVars
<1> QED BY <1>1, <1>3, <1>4, <1>5

\* start_creation adds one VM to those on the way, or one of the limits is
\* reached; the new VM is not overdue.
LEMMA CreationAdds ==
  ASSUME CoreTypeOK, Linked, Step, StartCreation, ~Fail, NoneOverdue(vms, op.now),
         CreateTimeout > 0
  PROVE  /\ UNCHANGED op /\ Pops
         /\ NoneOverdue(vms, op.now)'
         /\ WarmCount(vms)' = WarmCount(vms)
         /\ \/ /\ CreationRefused
               /\ CreatingCount' = CreatingCount /\ ActiveCount' = ActiveCount
            \/ CreatingCount' = CreatingCount + 1 /\ ActiveCount' = ActiveCount + 1
<1>2. Pops /\ UNCHANGED op
  <2>1. UNCHANGED op BY DEF StartCreation, InsertCreated
  <2>2. Pops BY AgendaStep
  <2> QED BY <2>1, <2>2
<1>3. CASE CreationRefused
  <2>1. UNCHANGED vms BY <1>3 DEF StartCreation
  <2>2. NoneOverdue(vms, op.now)' BY <1>2, <2>1, SameSettled
  <2>3. /\ WarmCount(vms)' = WarmCount(vms) /\ CreatingCount' = CreatingCount
        /\ ActiveCount' = ActiveCount
    BY <2>1 DEF WarmCount, CreatingCount, ActiveCount, InPool, VmsIn
  <2> QED BY <1>2, <1>3, <2>2, <2>3
<1>4. CASE ~CreationRefused
  <2>1. PICK v \in FreshVms, after \in ReadyAfter : InsertCreated(v, op.now + after)
    BY <1>4 DEF StartCreation
  <2> DEFINE w == [state |-> "Creating", changedAt |-> op.now, readyAt |-> op.now + after]
  <2>2. vms' = [vms EXCEPT ![v] = w] BY <2>1 DEF InsertCreated
  <2>3. /\ v \in Vms /\ v \notin InPool /\ vms[v].state = "Absent"
        /\ "Absent" \in States /\ "Creating" \in States /\ "Warm" \in States
    BY DEF FreshVms, InPool, VmsIn, States, CoreTypeOK, PoolTypeOK
  <2>4. w.state = "Creating" /\ w.changedAt = op.now OBVIOUS
  <2>5. vms'[v] = w /\ \A u \in Vms \ {v} : vms'[u] = vms[u]
    BY <2>2, <2>3 DEF CoreTypeOK, PoolTypeOK
  <2> HIDE DEF w
  <2>6. NoneOverdue(vms, op.now)'
    <3>1. op'.now = op.now /\ op.now \in Nat /\ CreateTimeout \in Nat
      BY <1>2, TimesAssumption DEF CoreTypeOK, CallTypeOK
    <3>2. ~(op.now >= LimitIn(vms', v)) BY <2>4, <2>5, <3>1 DEF LimitIn
    <3>3. \A u \in Vms \ {v} : LimitIn(vms', u) = LimitIn(vms, u) BY <2>5 DEF LimitIn
    <3> QED BY <2>5, <3>1, <3>2, <3>3 DEF NoneOverdue, LimitIn
  <2>7. /\ Cardinality(VmsIn(vms', {"Creating"})) = Cardinality(VmsIn(vms, {"Creating"})) + 1
        /\ Cardinality(VmsIn(vms', {"Warm"})) = Cardinality(VmsIn(vms, {"Warm"}))
    <3>1. w.state # vms[v].state BY <2>3, <2>4
    <3>2. Cardinality(VmsIn(vms', {w.state})) = Cardinality(VmsIn(vms, {w.state})) + 1
      BY <2>2, <2>3, <3>1, OneMoves
    <3>3. Cardinality(VmsIn(vms', {"Warm"})) = Cardinality(VmsIn(vms, {"Warm"}))
      BY <2>2, <2>3, <2>4, <3>1, OneMoves
    <3> QED BY <2>4, <3>2, <3>3
  <2>8. ActiveCount' = ActiveCount + 1
    <3>1. InPool' = InPool \cup {v} BY <2>3, <2>4, <2>5 DEF InPool, VmsIn, States
    <3>2. IsFiniteSet(InPool) BY VmsInFinite DEF InPool
    <3> QED BY <2>3, <3>1, <3>2, FS_AddElement DEF ActiveCount
  <2> QED BY <1>2, <2>6, <2>7, <2>8 DEF WarmCount, CreatingCount
<1> QED BY <1>3, <1>4

\* The refill starts enough VMs for the floor, or as many as the limits allow.
Enough(n) ==
  WarmCount(vms) < MinWarm =>
    \/ WarmCount(vms) + CreatingCount + n >= PreferredReady
    \/ WarmCount(vms) + CreatingCount + n >= MaxWarm
    \/ ActiveCount + n >= HostCap

LEMMA MaxOfTwo ==
  ASSUME NEW a \in Int, NEW b \in Int
  PROVE  Max({a, b}) \in {a, b} /\ Max({a, b}) >= a /\ Max({a, b}) >= b
<1>1. \E x \in {a, b} : \A y \in {a, b} : x >= y OBVIOUS
<1>2. Max({a, b}) = CHOOSE x \in {a, b} : \A y \in {a, b} : x >= y BY DEF Max
<1>3. Max({a, b}) \in {a, b} /\ \A y \in {a, b} : Max({a, b}) >= y BY <1>1, <1>2
<1> QED BY <1>3

LEMMA TargetIsEnough == Enough(BackgroundCreationTarget)
<1> DEFINE warm == WarmCount(vms)
           warmOrCreating == warm + CreatingCount
           floorDeficit == IF warm < MinWarm
                           THEN Max({0, PreferredReady - warmOrCreating}) ELSE 0
           scaleOut == ActiveCount > 0 /\ warm > 0 /\
                       LeasedCount * 100 >= ActiveCount * ScaleOutPercent
           proactiveDeficit == IF scaleOut THEN Max({0, 1 - CreatingCount}) ELSE 0
           wanted == Max({floorDeficit, proactiveDeficit})
           room == Max({0, HostCap - ActiveCount})
           slots == Max({0, MaxWarm - warmOrCreating})
<1> SUFFICES ASSUME warm < MinWarm
             PROVE  \/ warmOrCreating + BackgroundCreationTarget >= PreferredReady
                    \/ warmOrCreating + BackgroundCreationTarget >= MaxWarm
                    \/ ActiveCount + BackgroundCreationTarget >= HostCap
  BY DEF Enough
<1>1. /\ warm \in Nat /\ CreatingCount \in Nat /\ ActiveCount \in Nat /\ warmOrCreating \in Nat
      /\ MinWarm \in Nat /\ MaxWarm \in Nat /\ HostCap \in Nat /\ PreferredReady \in Nat
  BY CountsType, SizesAssumption
<1>2. BackgroundCreationTarget = Min({wanted, room, slots}) BY DEF BackgroundCreationTarget
<1>3. floorDeficit \in Nat /\ floorDeficit >= PreferredReady - warmOrCreating
  <2>1. floorDeficit = Max({0, PreferredReady - warmOrCreating}) OBVIOUS
  <2> HIDE DEF floorDeficit, warm, warmOrCreating
  <2> QED BY <1>1, <2>1, MaxOfTwo, MaxWithZero
<1>4. proactiveDeficit \in Nat
  <2> HIDE DEF scaleOut
  <2> QED BY <1>1, MaxWithZero
<1>5. /\ room \in Nat /\ room >= HostCap - ActiveCount
      /\ slots \in Nat /\ slots >= MaxWarm - warmOrCreating
  <2> HIDE DEF warm, warmOrCreating
  <2> QED BY <1>1, MaxOfTwo, MaxWithZero
<1> HIDE DEF warm, warmOrCreating, floorDeficit, proactiveDeficit
<1>6. wanted \in Nat /\ wanted >= floorDeficit BY <1>3, <1>4, MaxOfTwo
<1> HIDE DEF wanted, room, slots
<1>7. Min({wanted, room, slots}) \in {wanted, room, slots} BY <1>5, <1>6, MinOfNaturals
<1> QED BY <1>1, <1>2, <1>3, <1>5, <1>6, <1>7

\* The creations that a refill still has to start are the first steps of the
\* agenda; with them, or without any more, the floor has what it needs.
FloorInv ==
  ~Idle /\ op.result \in {"ok", "acquired"} /\ StepsOf(agenda) \subseteq Refilling =>
    /\ NoneOverdue(vms, op.now)
    /\ \E n \in 0..Len(agenda) :
         Enough(n) /\ \A i \in 1..n : agenda[i] = "start_creation"

\* Taking the first step off the agenda leaves the creations after it.
LEMMA CreationsAfterPop ==
  ASSUME CoreTypeOK, Linked, agenda # <<>>, Pops, NEW n \in 0..Len(agenda),
         \A i \in 1..n : agenda[i] = "start_creation"
  PROVE  /\ n > 0 => /\ Head(agenda) = "start_creation" /\ n - 1 \in 0..Len(agenda')
                     /\ \A i \in 1..(n - 1) : agenda'[i] = "start_creation"
         /\ 0 \in 0..Len(agenda') /\ \A i \in 1..0 : agenda'[i] = "start_creation"
<1>1. /\ agenda \in Seq(StepNames) /\ Len(agenda) \in Nat
      /\ Len(agenda') = Len(agenda) - 1 /\ Len(agenda') \in Nat
      /\ \A i \in 1..Len(agenda') : agenda'[i] = agenda[i + 1]
      /\ Head(agenda) = agenda[1]
  BY HeadTailProperties DEF Pops, CoreTypeOK
<1>2. ASSUME n > 0
      PROVE  /\ Head(agenda) = "start_creation" /\ n - 1 \in 0..Len(agenda')
             /\ \A i \in 1..(n - 1) : agenda'[i] = "start_creation"
  <2>1. \A i \in 1..(n - 1) : i \in 1..Len(agenda') /\ i + 1 \in 1..n BY <1>1
  <2>2. 1 \in 1..n /\ n - 1 \in 0..Len(agenda') BY <1>1, <1>2
  <2> QED BY <1>1, <2>1, <2>2
<1> QED BY <1>1, <1>2

\* Fewer than enough was enough once more is warm or on the way.
LEMMA EnoughGrows ==
  ASSUME NEW n \in Nat, NEW m \in Nat, Enough(n),
         WarmCount(vms)' >= WarmCount(vms),
         WarmCount(vms)' + CreatingCount' + m >= WarmCount(vms) + CreatingCount + n,
         ActiveCount' + m >= ActiveCount + n
  PROVE  Enough(m)'
<1>1. /\ WarmCount(vms) \in Nat /\ CreatingCount \in Nat /\ ActiveCount \in Nat
      /\ WarmCount(vms)' \in Nat /\ CreatingCount' \in Nat /\ ActiveCount' \in Nat
      /\ MinWarm \in Nat /\ MaxWarm \in Nat /\ HostCap \in Nat /\ PreferredReady \in Nat
  BY CountsType, SizesAssumption
<1>2. \A w, c, a, ww, cc, aa \in Nat :
        /\ w < MinWarm => \/ w + c + n >= PreferredReady \/ w + c + n >= MaxWarm
                          \/ a + n >= HostCap
        /\ ww >= w /\ ww + cc + m >= w + c + n /\ aa + m >= a + n
        => (ww < MinWarm => \/ ww + cc + m >= PreferredReady \/ ww + cc + m >= MaxWarm
                            \/ aa + m >= HostCap)
  BY SizesAssumption
<1> QED BY <1>1, <1>2 DEF Enough

LEMMA FirstIsAhead ==
  ASSUME NEW s \in Seq(StepNames), NEW f
  PROVE  First(s, f) \in StepsOf(s) \cup {f}
<1>1. s # <<>> => 1 \in 1..Len(s) BY EmptySeq
<1> QED BY <1>1 DEF First, StepsOf

\* Where an agenda comes down to refilling, a background refill has just begun.
LEMMA RefillBegins ==
  ASSUME CoreTypeOK, Linked, Step, ~(StepsOf(agenda) \subseteq Refilling),
         StepsOf(agenda') \subseteq Refilling, op'.result \notin {"err", "timed_out"}
  PROVE  StartBackgroundCreations
<1>1. agenda # <<>> /\ ~Fail BY AgendaNotEmpty DEF Fail, CoreTypeOK, CallTypeOK
<1>2. /\ StepsOf(agenda) = {Head(agenda)} \cup StepsOf(Tail(agenda))
      /\ First(Tail(agenda), "return") \in Follows(Head(agenda))
      /\ Tail(agenda) \in Seq(StepNames)
  BY <1>1, LeadsTail DEF Linked, CoreTypeOK
<1>3. agenda' \in Seq(StepNames) BY TypeStepStep DEF CoreTypeOK
<1>4. /\ Upcoming' \notin Refilling \cup {"return"} => FALSE
      /\ First(Tail(agenda), "return") \notin Refilling \cup {"return"}
           => ~(StepsOf(Tail(agenda)) \subseteq Refilling)
  BY <1>2, <1>3, FirstIsAhead DEF Upcoming
<1>6. ~(PoppingStep /\ Head(agenda) \in Refilling) /\ ~StartCreation
  <2>1. StartCreation => Pops /\ Head(agenda) \in Refilling
    BY <1>1, AgendaStep DEF StartCreation, At, Refilling
  <2>2. Head(agenda) \in Refilling => ~Pops BY DEF Pops
  <2> QED BY <2>1, <2>2, AgendaStep
<1>7. ~StayingStep
  BY <1>1, AgendaStep DEF StayingStep
<1>8. ~ObserveTime /\ ~NoneStale /\ ~NoneReady /\ ~UpdateWarmSurplusMarker
  BY <1>6 DEF PoppingStep, ObserveTime, NoneStale, NoneReady, UpdateWarmSurplusMarker, At,
     Refilling, Refreshing
<1>9. ~SurplusEvicted /\ ~ScaleInIfNeeded
  <2>1. SurplusEvicted => Upcoming' = "start_background_creations"
    BY AgendaStep DEF PoppingStep, Pops, SurplusEvicted, At, Follows
  <2>2. ScaleInIfNeeded => Upcoming' \in {"start_background_creations", "evict_surplus"}
    BY AgendaStep DEF Pops, Pushes, ScaleInIfNeeded, At, Follows
  <2> QED BY <1>4, <2>1, <2>2 DEF Refilling, Refreshing
<1>10. ~AcquireTimedOut BY DEF AcquireTimedOut, CoreTypeOK, CallTypeOK
<1>11. ~AcquireHit /\ ~AcquireWaited /\ ~AcquireMiss /\ ~AcquireSkipAhead
       /\ ~ReleaseScrubbed /\ ~ReleaseUnscrubbed
  <2>1. AcquireHit \/ AcquireWaited \/ ReleaseUnscrubbed
          => Upcoming' = "start_background_creations"
    BY <1>1, AgendaStep DEF Restarts
  <2>2. AcquireMiss \/ AcquireSkipAhead => "acquire_wait" \in StepsOf(agenda')
    BY <1>1, AgendaStep DEF Pushes
  <2>3. ReleaseScrubbed => "start_background_creations" \in StepsOf(agenda')
    BY <1>1, AgendaStep DEF Pushes
  <2>4. "acquire_wait" \notin Refilling /\ "start_background_creations" \notin Refilling
    BY DEF Refilling, Refreshing
  <2> QED BY <1>4, <2>1, <2>2, <2>3, <2>4
<1>12. ~AcquireRetry
  <2> SUFFICES ASSUME AcquireRetry PROVE FALSE
    OBVIOUS
  <2>1. First(Tail(agenda), "return") = "acquire_wait" BY <1>2 DEF AcquireRetry, At, Follows
  <2>2. ~(StepsOf(Tail(agenda)) \subseteq Refilling)
    BY <1>4, <2>1 DEF Refilling, Refreshing
  <2>3. \/ Pushes("start_creation", Refilling)
        \/ Pops
    BY AgendaStep
  <2>4. Pops => agenda' = Tail(agenda) BY DEF Pops
  <2> QED BY <2>2, <2>3, <2>4 DEF Pushes
<1>13. ~FailingStep BY <1>1, AgendaStep
<1> QED BY <1>6, <1>7, <1>8, <1>9, <1>10, <1>11, <1>12, <1>13
        DEF Step, StayingStep, FailingStep

LEMMA FloorInvStep ==
  ASSUME CoreTypeOK, OrderInv, FloorInv, Step, "health" \notin Faults, CreateTimeout > 0
  PROVE  FloorInv'
<1> SUFFICES ASSUME op'.result \in {"ok", "acquired"}, StepsOf(agenda') \subseteq Refilling
             PROVE  /\ NoneOverdue(vms, op.now)'
                    /\ \E n \in 0..Len(agenda') :
                         Enough(n)' /\ \A i \in 1..n : agenda'[i] = "start_creation"
  BY DEF FloorInv
<1>a. agenda # <<>> /\ ~Fail /\ Linked /\ agenda' \in Seq(StepNames)
  BY AgendaNotEmpty, TypeStepStep DEF Fail, CoreTypeOK, CallTypeOK, OrderInv
<1>1. CASE ~(StepsOf(agenda) \subseteq Refilling)
  <2>0. PICK n \in Nat : n = BackgroundCreationTarget BY TargetType
  <2>1. StartBackgroundCreations BY <1>1, <1>a, RefillBegins
  <2>2. /\ UNCHANGED <<vms, op>> /\ Head(agenda) = "start_background_creations"
        /\ agenda' = (Creations(n) \o AdvanceTo) \o Tail(agenda)
    BY <2>0, <2>1 DEF StartBackgroundCreations, At, Proceed, poolVars
  <2>3. NoneOverdue(vms, op.now)'
    <3>1. NoneOverdue(vms, op.now) BY <1>a, <2>2, SettledHere DEF SettledFor
    <3> QED BY <2>2, <3>1, SameSettled
  <2>4. Enough(n) BY <2>0, TargetIsEnough
  <2>5. Enough(n)'
    <3>1. /\ WarmCount(vms)' = WarmCount(vms) /\ CreatingCount' = CreatingCount
          /\ ActiveCount' = ActiveCount
      BY <2>2 DEF WarmCount, CreatingCount, ActiveCount, InPool, VmsIn
    <3> QED BY <2>4, <3>1 DEF Enough
  <2>6. n \in 0..Len(agenda') /\ \A i \in 1..n : agenda'[i] = "start_creation"
    <3> DEFINE rest == AdvanceTo \o Tail(agenda)
    <3>1. /\ Creations(n) \in Seq(StepNames) /\ AdvanceTo \in Seq(StepNames)
          /\ Tail(agenda) \in Seq(StepNames)
      BY <1>a, <2>4, AgendaPieces, LeadsTail DEF Linked, CoreTypeOK
    <3>2. Len(Creations(n)) = n /\ \A i \in 1..n : Creations(n)[i] = "start_creation"
      BY <2>4 DEF Creations
    <3>3. rest \in Seq(StepNames) /\ Len(rest) \in Nat BY <3>1, ConcatProperties, LenProperties
    <3>4. agenda' = Creations(n) \o rest
      <4>1. (Creations(n) \o AdvanceTo) \o Tail(agenda) = Creations(n) \o (AdvanceTo \o Tail(agenda))
        BY <3>1, ConcatAssociative
      <4> QED BY <2>2, <4>1, Zenon
    <3> HIDE DEF rest
    <3>5. /\ Len(agenda') = n + Len(rest)
          /\ \A i \in 1..Len(agenda') :
               agenda'[i] = IF i <= n THEN Creations(n)[i] ELSE rest[i - n]
      <4>1. /\ Len(Creations(n) \o rest) = Len(Creations(n)) + Len(rest)
            /\ \A i \in 1..Len(Creations(n)) + Len(rest) : (Creations(n) \o rest)[i] =
                 IF i <= Len(Creations(n)) THEN Creations(n)[i] ELSE rest[i - Len(Creations(n))]
        BY <3>1, <3>3, ConcatProperties
      <4>2. Len(Creations(n)) = n BY <3>2
      <4> HIDE DEF Creations
      <4> QED BY <3>4, <4>1, <4>2
    <3>6. \A i \in 1..n : i \in 1..Len(agenda') /\ i <= n BY <2>4, <3>3, <3>5
    <3> QED BY <2>4, <3>2, <3>3, <3>5, <3>6
  <2> QED BY <2>3, <2>5, <2>6
<1>2. CASE StepsOf(agenda) \subseteq Refilling
  <2>1. Head(agenda) \in Refilling BY <1>2, <1>a, LeadsTail DEF Linked, CoreTypeOK
  <2>2. ~Idle BY <1>a, IdleHasNoAgenda DEF OrderInv, CoreTypeOK
  <2>3. CASE Head(agenda) = "start_creation"
    <3>1. StartCreation BY <1>a, <2>3, HeadStep DEF CreationFails
    <3>2. UNCHANGED op BY <1>a, <3>1 DEF StartCreation, InsertCreated
    <3>3. PICK n \in 0..Len(agenda) : Enough(n) /\ \A i \in 1..n : agenda[i] = "start_creation"
      BY <1>2, <2>2, <3>2 DEF FloorInv
    <3>4. NoneOverdue(vms, op.now) BY <1>2, <2>2, <3>2 DEF FloorInv
    <3>5. /\ Pops /\ NoneOverdue(vms, op.now)' /\ WarmCount(vms)' = WarmCount(vms)
          /\ \/ /\ CreationRefused
                /\ CreatingCount' = CreatingCount /\ ActiveCount' = ActiveCount
             \/ CreatingCount' = CreatingCount + 1 /\ ActiveCount' = ActiveCount + 1
      BY <1>a, <3>1, <3>4, CreationAdds
    <3>6. /\ n > 0 => /\ n - 1 \in 0..Len(agenda')
                      /\ \A i \in 1..(n - 1) : agenda'[i] = "start_creation"
          /\ 0 \in 0..Len(agenda') /\ \A i \in 1..0 : agenda'[i] = "start_creation"
      BY <1>a, <3>3, <3>5, CreationsAfterPop
    <3>7. CASE CreationRefused /\ CreatingCount' = CreatingCount /\ ActiveCount' = ActiveCount
      <4>1. Enough(0)'
        BY <3>5, <3>7, CountsType, SizesAssumption DEF Enough, CreationRefused
      <4> QED BY <3>5, <3>6, <4>1
    <3>8. CASE CreatingCount' = CreatingCount + 1 /\ ActiveCount' = ActiveCount + 1
      <4> DEFINE m == IF n > 0 THEN n - 1 ELSE 0
      <4>1. m \in Nat /\ n \in Nat /\ m + 1 >= n BY <3>3
      <4>2. m \in 0..Len(agenda') /\ \A i \in 1..m : agenda'[i] = "start_creation" BY <3>6
      <4> HIDE DEF m
      <4>3. Enough(m)'
        <5>1. \A w, ww, c, cc, a, aa \in Nat : ww = w /\ cc = c + 1 /\ aa = a + 1
                => ww >= w /\ ww + cc + m >= w + c + n /\ aa + m >= a + n
          BY <4>1
        <5>2. /\ WarmCount(vms)' >= WarmCount(vms)
              /\ WarmCount(vms)' + CreatingCount' + m >= WarmCount(vms) + CreatingCount + n
              /\ ActiveCount' + m >= ActiveCount + n
          BY <3>5, <3>8, <5>1, CountsType
        <5> QED BY <3>3, <4>1, <5>2, EnoughGrows
      <4> QED BY <3>5, <4>2, <4>3
    <3> QED BY <3>5, <3>7, <3>8
  <2>4. CASE Head(agenda) \in Refreshing
    <3>2. op.result \in {"ok", "acquired"}
      BY <1>a, <2>4, RefreshingKeepsCall
    <3>3. PICK n \in 0..Len(agenda) : Enough(n) /\ \A i \in 1..n : agenda[i] = "start_creation"
      BY <1>2, <2>2, <3>2 DEF FloorInv
    <3>4. /\ NoneOverdue(vms, op.now)' /\ WarmCount(vms)' >= WarmCount(vms)
          /\ WarmCount(vms)' + CreatingCount' >= WarmCount(vms) + CreatingCount
          /\ ActiveCount' = ActiveCount
      BY <1>2, <1>a, <2>2, <2>4, <3>2, RefreshKeeps DEF FloorInv
    <3>5. n = 0
      <4>1. n # 0 => 1 \in 1..n OBVIOUS
      <4>2. Head(agenda) = agenda[1] BY <1>a, HeadTailProperties DEF CoreTypeOK
      <4> QED BY <2>4, <3>3, <4>1, <4>2 DEF Refreshing
    <3>6. Enough(0)' BY <3>3, <3>4, <3>5, CountsType, EnoughGrows
    <3>7. 0 \in 0..Len(agenda') /\ \A i \in 1..0 : agenda'[i] = "start_creation"
      BY <1>a, LenProperties
    <3> QED BY <3>4, <3>6, <3>7
  <2> QED BY <2>1, <2>3, <2>4 DEF Refilling
<1> QED BY <1>1, <1>2

(* The warm floor: after every call that refills the pool, fewer warm VMs    *)
(* than the minimum means that the preferred number is on its way or that    *)
(* one of the two limits is reached, whatever else fails.  The theorem       *)
(* assumes that a VM that is ready is found healthy, since a refill does not *)
(* make up for a VM it starts and then gives up, and that a VM may take some *)
(* time to be created.                                                       *)
THEOREM FloorAlwaysRestored ==
  ASSUME "health" \notin Faults, CreateTimeout > 0
  PROVE  Spec => []FloorRestored
<1>1. Init => FloorInv BY DEF Init, FloorInv, Idle
<1>2. ASSUME TypeOK, OrderInv, FloorInv, [Next]_vars PROVE FloorInv'
  <2>1. CASE Step
    BY <1>2, <2>1, FloorInvStep DEF TypeOK, CoreTypeOK, PoolTypeOK, CallTypeOK
  <2>2. CASE Call
    <3>1. \/ "start_background_creations" \in StepsOf(agenda') \/ "acquire" \in StepsOf(agenda')
          \/ "release" \in StepsOf(agenda')
      BY <2>2, CallAgenda DEF Call
    <3> QED BY <3>1 DEF FloorInv, Refilling, Refreshing
  <2>3. CASE Return BY <2>3 DEF Return, FloorInv, Idle
  <2>4. CASE UNCHANGED vars
    BY <1>2, <2>4 DEF vars, FloorInv, Idle, StepsOf, NoneOverdue, LimitIn, Enough, WarmCount,
       CreatingCount, ActiveCount, InPool, VmsIn
  <2> QED BY <1>2, <2>1, <2>2, <2>3, <2>4 DEF Next
<1>3. FloorInv => FloorRestored
  <2> SUFFICES ASSUME FloorInv, Finished, op.result \in {"ok", "acquired"},
                      WarmCount(vms) < MinWarm
               PROVE  \/ WarmCount(vms) + CreatingCount >= PreferredReady
                      \/ WarmCount(vms) + CreatingCount >= MaxWarm
                      \/ ActiveCount >= HostCap
    BY DEF FloorRestored
  <2>1. StepsOf(agenda) = {} /\ Len(agenda) = 0 BY EmptyChain DEF Finished, Chain
  <2>2. PICK n \in 0..0 : Enough(n) BY <2>1 DEF FloorInv, Finished
  <2>3. n = 0 OBVIOUS
  <2> QED BY <2>2, <2>3, CountsType DEF Enough
<1> QED BY <1>1, <1>2, <1>3, AlwaysOrdered, PTL DEF Spec

----------------------------------------------------------------------------
(* When acquire gives up *)

\* A VM is warm or will be, or the host is full, or the deadline has come.
OnTheWay == \/ WarmCount(vms) > 0 \/ CreatingCount > 0
            \/ ActiveCount >= HostCap \/ op.now = op.deadline

\* Whenever acquire goes on to wait without looking for a VM once more, one is
\* on the way or it is about to start one.
WaitInv ==
  /\ op.now <= op.deadline
  /\ "acquire_wait" \in StepsOf(agenda) /\ "acquire_retry" \notin StepsOf(agenda) =>
       NoneOverdue(vms, op.now) /\ (OnTheWay \/ Upcoming = "start_creation")
  /\ op.result = "timed_out" => agenda = <<>> /\ TimedOutMeansBusy

LEMMA DeadlineStep ==
  ASSUME CoreTypeOK, op.now <= op.deadline, Step
  PROVE  /\ op'.now <= op'.deadline
         /\ op'.result = "timed_out" => AcquireTimedOut \/ op.result = "timed_out"
<1>1. CASE AcquireSkipAhead
  BY <1>1 DEF AcquireSkipAhead, SomethingInTime, CoreTypeOK, CallTypeOK
<1>2. CASE AcquireHit \/ AcquireWaited
  BY <1>2 DEF AcquireHit, AcquireWaited, LeaseVm, CoreTypeOK, CallTypeOK
<1>3. CASE AcquireTimedOut
  BY <1>3 DEF AcquireTimedOut, CoreTypeOK, CallTypeOK
<1>4. CASE ~(AcquireHit \/ AcquireWaited \/ AcquireSkipAhead \/ AcquireTimedOut)
  <2>1. UNCHANGED op \/ Fail
    BY <1>4 DEF Step, ObserveTime, RejectPast, DiscardStale, NoneStale, PromoteHealthy,
       DiscardUnhealthy, NoneReady, UpdateWarmSurplusMarker, StartCreation, InsertCreated,
       CreationFails, StartBackgroundCreations, ScaleInIfNeeded, EvictSurplus, SurplusEvicted,
       AcquireMiss, AcquireRetry, ReleaseRejected, ReleaseScrubbed, ReleaseUnscrubbed, DiscardVm
  <2> QED BY <2>1 DEF Fail, CoreTypeOK, CallTypeOK
<1> QED BY <1>1, <1>2, <1>3, <1>4

\* What acquire knows when it gives up.
LEMMA GivingUp ==
  ASSUME CoreTypeOK, OrderInv, WaitInv, AcquireTimedOut
  PROVE  agenda' = <<>> /\ TimedOutMeansBusy'
<1>1. /\ agenda # <<>> /\ Head(agenda) = "acquire_wait" /\ Linked
      /\ OldestWarm = {} /\ ~SomethingInTime /\ UNCHANGED vms /\ Proceed(<<>>)
      /\ op'.now = op.now /\ op'.deadline = op.deadline
  BY DEF AcquireTimedOut, At, OrderInv, poolVars, CoreTypeOK, CallTypeOK
<1>2. Tail(agenda) = <<>> /\ StepsOf(agenda) = {"acquire_wait"}
  <2>1. Follows(Head(agenda)) = {"return"} BY <1>1 DEF Follows
  <2>2. Tail(agenda) = <<>> /\ StepsOf(Tail(agenda)) = {} BY <1>1, <2>1, LastStep
  <2> QED BY <1>1, <2>2, LeadsTail DEF Linked, CoreTypeOK
<1>3. agenda' = <<>> BY <1>1, <1>2, PopMoves DEF CoreTypeOK, Pops
<1>4. CreatingCount > 0 \/ ActiveCount >= HostCap \/ op.now = op.deadline
  <2>1. OnTheWay \/ Upcoming = "start_creation" BY <1>2 DEF WaitInv
  <2>2. Upcoming = "acquire_wait" BY <1>1, AtIsUpcoming
  <2>3. WarmCount(vms) = 0 BY <1>1, OldestExists
  <2> QED BY <2>1, <2>2, <2>3 DEF OnTheWay
<1>5. ASSUME NEW v \in InPool
      PROVE  vms[v].state = "Leased" \/ (v \in Pending /\ vms[v].readyAt > op.deadline)
  <2>1. v \in Vms /\ vms[v].state \in {"Creating", "Leased", "Draining"}
    BY <1>1, OldestExists DEF InPool, VmsIn, States
  <2>2. CASE vms[v].state # "Leased"
    <3>1. v \in Pending BY <2>1, <2>2 DEF Pending, VmsIn
    <3>2. /\ NextTransitionReadyAt \in Nat /\ ~(NextTransitionReadyAt <= op.deadline)
          /\ NextTransitionReadyAt <= vms[v].readyAt
      BY <1>1, <3>1, PendingInstants DEF SomethingInTime
    <3>3. op.deadline \in Nat /\ vms[v].readyAt \in Nat
      BY <2>1 DEF CoreTypeOK, PoolTypeOK, CallTypeOK
    <3> QED BY <3>1, <3>2, <3>3
  <2> QED BY <2>2
<1>6. /\ InPool' = InPool /\ Pending' = Pending /\ CreatingCount' = CreatingCount
      /\ ActiveCount' = ActiveCount
  BY <1>1 DEF InPool, Pending, CreatingCount, ActiveCount, VmsIn
<1> QED BY <1>1, <1>3, <1>4, <1>5, <1>6 DEF TimedOutMeansBusy

LEMMA WaitInvStep ==
  ASSUME CoreTypeOK, OrderInv, WaitInv, Step, "health" \notin Faults, CreateTimeout > 0,
         MaxWarm > 0
  PROVE  WaitInv'
<1>a. agenda # <<>> /\ Linked /\ agenda' \in Seq(StepNames)
      /\ StepsOf(agenda) = {Head(agenda)} \cup StepsOf(Tail(agenda))
  BY AgendaNotEmpty, TypeStepStep, LeadsTail DEF CoreTypeOK, OrderInv, Linked
<1>1. op'.now <= op'.deadline BY DeadlineStep DEF WaitInv
<1>2. op'.result = "timed_out" => agenda' = <<>> /\ TimedOutMeansBusy'
  BY <1>a, DeadlineStep, GivingUp DEF WaitInv
<1>3. ASSUME "acquire_wait" \in StepsOf(agenda'), "acquire_retry" \notin StepsOf(agenda')
      PROVE  NoneOverdue(vms, op.now)' /\ (OnTheWay' \/ Upcoming' = "start_creation")
  <2>a. ~Fail
    <3>1. StepsOf(<<>>) = {} BY EmptyChain DEF Chain
    <3> QED BY <1>3, <3>1 DEF Fail
  <2>b. /\ ~AcquireHit /\ ~AcquireWaited /\ ~AcquireSkipAhead /\ ~ReleaseUnscrubbed
        /\ ~FailingStep
    BY <1>3, <1>a, <2>a, AgendaStep DEF Restarts, Pushes, Refreshing
  <2>c. ASSUME UNCHANGED <<vms, op>>
        PROVE  /\ NoneOverdue(vms, op.now)' <=> NoneOverdue(vms, op.now)
               /\ OnTheWay' <=> OnTheWay
    <3>1. /\ WarmCount(vms)' = WarmCount(vms) /\ CreatingCount' = CreatingCount
          /\ ActiveCount' = ActiveCount
      BY <2>c DEF WarmCount, CreatingCount, ActiveCount, InPool, VmsIn
    <3> QED BY <2>c, <3>1, SameSettled DEF OnTheWay
  <2>1. CASE AcquireMiss
    <3>1. UNCHANGED <<vms, op>> BY <2>1, <2>a DEF AcquireMiss, poolVars
    <3>2. NoneOverdue(vms, op.now)
      BY <1>a, <2>1, SettledHere DEF AcquireMiss, At, SettledFor
    <3>3. NothingOnTheWay => Upcoming' = "start_creation"
      BY <1>a, <2>1, <2>a, AgendaStep DEF Pushes
    <3>4. ~NothingOnTheWay => OnTheWay
      BY CountsType, SizesAssumption DEF NothingOnTheWay, OnTheWay
    <3> QED BY <2>c, <3>1, <3>2, <3>3, <3>4
  <2>2. CASE AcquireRetry
    <3>1. UNCHANGED <<vms, op>> BY <2>2 DEF AcquireRetry, poolVars
    <3>2. NoneOverdue(vms, op.now)
      BY <1>a, <2>2, SettledHere DEF AcquireRetry, At, SettledFor
    <3>3. CASE OldestWarm = {} /\ NothingOnTheWay /\ op.now < op.deadline
      <4>1. Upcoming' = "start_creation" BY <1>a, <2>2, <3>3, AgendaStep DEF Pushes
      <4> QED BY <2>c, <3>1, <3>2, <4>1
    <3>4. CASE ~(OldestWarm = {} /\ NothingOnTheWay /\ op.now < op.deadline)
      <4>1. op.now \in Nat /\ op.deadline \in Nat /\ op.now <= op.deadline
        BY DEF CoreTypeOK, CallTypeOK, WaitInv
      <4>2. OnTheWay
        BY <3>4, <4>1, OldestExists, CountsType, SizesAssumption DEF NothingOnTheWay, OnTheWay
      <4> QED BY <2>c, <3>1, <3>2, <4>2
    <3> QED BY <3>3, <3>4
  <2>3. CASE ~AcquireMiss /\ ~AcquireRetry
    <3>1. "acquire_wait" \in StepsOf(agenda) /\ "acquire_retry" \notin StepsOf(agenda)
      <4>1. \A h, S : Pushes(h, S) /\ S \subseteq Refilling \cup {"evict_surplus",
                                                     "start_background_creations"}
              => "acquire_wait" \in StepsOf(Tail(agenda)) /\ "acquire_retry" \notin StepsOf(Tail(agenda))
        BY <1>3 DEF Pushes, Refilling, Refreshing
      <4>2. \/ Pops
            \/ agenda' = agenda
            \/ \E h, S : /\ Pushes(h, S)
                         /\ S \subseteq Refilling \cup {"evict_surplus", "start_background_creations"}
        <5>1. Refilling \subseteq Refilling \cup {"evict_surplus", "start_background_creations"}
          OBVIOUS
        <5>2. Refreshing \subseteq Refilling \cup {"evict_surplus", "start_background_creations"}
          BY DEF Refilling
        <5>3. Refreshing \cup {"start_background_creations"}
                \subseteq Refilling \cup {"evict_surplus", "start_background_creations"}
          BY <5>2
        <5>4. {"evict_surplus"} \subseteq Refilling \cup {"evict_surplus", "start_background_creations"}
          OBVIOUS
        <5>5. CASE PoppingStep \/ StayingStep \/ StartCreation
          BY <1>a, <2>a, <5>5, AgendaStep
        <5>6. CASE StartBackgroundCreations \/ ScaleInIfNeeded \/ ReleaseScrubbed
          BY <1>a, <2>a, <5>1, <5>2, <5>3, <5>4, <5>6, AgendaStep
        <5> QED BY <2>3, <2>b, <5>5, <5>6 DEF Step, PoppingStep, StayingStep, FailingStep
      <4>3. Head(agenda) # "acquire_retry" BY <2>3, HeadStep
      <4> QED BY <1>3, <1>a, <4>1, <4>2, <4>3 DEF Pops
    <3>2. NoneOverdue(vms, op.now) /\ (OnTheWay \/ Upcoming = "start_creation")
      BY <3>1 DEF WaitInv
    <3>3. Head(agenda) \in Refilling \cup {"start_background_creations", "acquire"}
      <4>1. op.name = "acquire"
        BY <3>1 DEF OrderInv, OwnAgenda, OwnSteps, Refilling, Refreshing
      <4>2. Head(agenda) \in OwnSteps("acquire") BY <1>a, <4>1 DEF OrderInv, OwnAgenda
      <4>3. Head(agenda) # "acquire_wait"
        <5>1. AcquireTimedOut => StepsOf(agenda') = {}
          BY GivingUp, EmptyChain DEF Chain
        <5> QED BY <1>3, <2>b, <5>1, HeadStep
      <4> QED BY <3>1, <4>2, <4>3 , <1>a DEF OwnSteps
    <3>4. CASE Head(agenda) \in Refreshing
      <4>1. UNCHANGED op /\ OnTheWay
        BY <1>a, <2>a, <3>2, <3>4, RefreshingKeepsCall, AtIsUpcoming DEF Refreshing
      <4>2. /\ NoneOverdue(vms, op.now)'
            /\ WarmCount(vms)' + CreatingCount' >= WarmCount(vms) + CreatingCount
            /\ ActiveCount' = ActiveCount
        BY <1>a, <2>a, <3>2, <3>4, RefreshKeeps
      <4>3. \A w, c, ww, cc \in Nat : ww + cc >= w + c /\ (w > 0 \/ c > 0) => ww > 0 \/ cc > 0
        OBVIOUS
      <4> QED BY <4>1, <4>2, <4>3, CountsType DEF OnTheWay
    <3>5. CASE Head(agenda) = "start_creation"
      <4>1. StartCreation BY <2>a, <3>5, HeadStep DEF CreationFails
      <4>2. /\ UNCHANGED op /\ NoneOverdue(vms, op.now)' /\ WarmCount(vms)' = WarmCount(vms)
            /\ \/ /\ CreationRefused
                  /\ CreatingCount' = CreatingCount /\ ActiveCount' = ActiveCount
               \/ CreatingCount' = CreatingCount + 1 /\ ActiveCount' = ActiveCount + 1
        BY <1>a, <2>a, <3>2, <4>1, CreationAdds
      <4> QED BY <4>2, CountsType, SizesAssumption DEF OnTheWay, CreationRefused
    <3>6. CASE Head(agenda) = "start_background_creations"
      <4>1. UNCHANGED <<vms, op>>
        BY <3>6, HeadStep DEF StartBackgroundCreations, poolVars
      <4>2. OnTheWay BY <1>a, <3>2, <3>6, AtIsUpcoming
      <4> QED BY <2>c, <3>2, <4>1, <4>2
    <3>7. Head(agenda) # "acquire" BY <2>3, <2>b, HeadStep
    <3> QED BY <3>3, <3>4, <3>5, <3>6, <3>7 DEF Refilling
  <2> QED BY <2>1, <2>2, <2>3
<1> QED BY <1>1, <1>2, <1>3 DEF WaitInv

(* acquire gives up only when waiting was right: every VM of the pool is     *)
(* leased or would have become ready too late, and one is being created, the *)
(* host is full or the deadline has come.  The theorem assumes what the      *)
(* default configuration and a healthy provider give: a VM that is ready is  *)
(* found healthy, create_timeout is not zero and the pool may keep a warm VM *)
(* at all.                                                                   *)
THEOREM TimedOutAlwaysBusy ==
  ASSUME "health" \notin Faults, CreateTimeout > 0, MaxWarm > 0
  PROVE  Spec => []TimedOutMeansBusy
<1>1. Init => WaitInv
  BY EmptyChain DEF Init, WaitInv, Chain, NoCall
<1>2. ASSUME TypeOK, OrderInv, WaitInv, [Next]_vars PROVE WaitInv'
  <2>1. CASE Step
    BY <1>2, <2>1, WaitInvStep DEF TypeOK, CoreTypeOK, PoolTypeOK, CallTypeOK
  <2>2. CASE Call
    <3>1. op'.now <= op'.deadline /\ op'.result = "ok"
      BY <2>2, TimesAssumption DEF Call, Refill, Acquire, Release, Reap, Begin, Clock
    <3>2. "acquire_wait" \notin StepsOf(agenda')
      <4>1. CASE Acquire BY <2>2, <4>1, CallAgenda
      <4>2. CASE Refill \/ Release \/ Reap
        <5>1. op'.name \in {"refill", "release", "reap"}
          BY <4>2 DEF Refill, Release, Reap, Begin
        <5> QED BY <2>2, <5>1, CallAgenda DEF OwnAgenda, OwnSteps, Refilling, Refreshing
      <4> QED BY <2>2, <4>1, <4>2 DEF Call
    <3> QED BY <3>1, <3>2 DEF WaitInv
  <2>3. CASE Return
    <3>1. op' = NoCall /\ agenda' = <<>> BY <2>3 DEF Return, Finished
    <3> QED BY <3>1, EmptyChain DEF WaitInv, Chain, NoCall
  <2>4. CASE UNCHANGED vars
    BY <1>2, <2>4 DEF vars, WaitInv, StepsOf, NoneOverdue, LimitIn, OnTheWay, Upcoming, First,
       WarmCount, CreatingCount, ActiveCount, InPool, Pending, VmsIn, TimedOutMeansBusy, Finished,
       Idle
  <2> QED BY <1>2, <2>1, <2>2, <2>3, <2>4 DEF Next
<1>3. WaitInv => TimedOutMeansBusy
  BY DEF WaitInv, TimedOutMeansBusy
<1> QED BY <1>1, <1>2, <1>3, AlwaysOrdered, PTL DEF Spec

----------------------------------------------------------------------------
(* Every call comes to an end *)

\* How many entries of s are in S.
Entries(s, S) == {i \in 1..Len(s) : s[i] \in S}
CountOf(s, S) == Cardinality(Entries(s, S))

LEMMA CountType ==
  ASSUME NEW s \in Seq(StepNames), NEW S
  PROVE  IsFiniteSet(Entries(s, S)) /\ CountOf(s, S) \in Nat
<1>1. Len(s) \in Nat BY LenProperties
<1>2. IsFiniteSet(1..Len(s)) BY <1>1, FS_Interval
<1>3. Entries(s, S) \subseteq 1..Len(s) BY DEF Entries
<1> QED BY <1>2, <1>3, FS_Subset, FS_CardinalityType DEF CountOf

\* Taking the first entry off takes it out of the count.
LEMMA CountTail ==
  ASSUME NEW s \in Seq(StepNames), s # <<>>, NEW S
  PROVE  /\ CountOf(Tail(s), S) <= CountOf(s, S)
         /\ Head(s) \in S => CountOf(Tail(s), S) < CountOf(s, S)
<1>1. /\ Tail(s) \in Seq(StepNames) /\ Len(Tail(s)) = Len(s) - 1 /\ Len(s) \in Nat /\ Len(s) # 0
      /\ \A i \in 1..Len(Tail(s)) : Tail(s)[i] = s[i + 1]
      /\ Head(s) = s[1]
  BY HeadTailProperties, LenProperties, EmptySeq
<1> DEFINE from == Entries(s, S) \ {1}
           to == Entries(Tail(s), S)
           shift == [i \in from |-> i - 1]
<1>2. shift \in Surjection(from, to)
  <2>1. ASSUME NEW i \in from PROVE i - 1 \in to
    <3>1. i \in 2..Len(s) /\ s[i] \in S BY <1>1 DEF Entries
    <3>2. i - 1 \in 1..Len(Tail(s)) /\ Tail(s)[i - 1] = s[i] BY <1>1, <3>1
    <3> QED BY <3>1, <3>2 DEF Entries
  <2>2. ASSUME NEW j \in to PROVE \E i \in from : shift[i] = j
    <3>1. j \in 1..Len(Tail(s)) /\ Tail(s)[j] \in S BY DEF Entries
    <3>2. j + 1 \in 1..Len(s) /\ s[j + 1] \in S /\ j + 1 # 1 BY <1>1, <3>1
    <3>3. j + 1 \in from /\ (j + 1) - 1 = j BY <3>1, <3>2 DEF Entries
    <3> QED BY <3>3
  <2> HIDE DEF from, to
  <2>3. shift \in [from -> to] BY <2>1
  <2> HIDE DEF shift
  <2> QED BY <2>2, <2>3 DEF Surjection
<1>3. IsFiniteSet(Entries(s, S)) /\ CountOf(s, S) \in Nat BY CountType
<1>4. from \subseteq Entries(s, S) OBVIOUS
<1>5. IsFiniteSet(from) /\ Cardinality(from) <= CountOf(s, S) BY <1>3, <1>4, FS_Subset DEF CountOf
<1>6. Cardinality(to) <= Cardinality(from) /\ Cardinality(to) \in Nat /\ Cardinality(from) \in Nat
  <2> HIDE DEF from, to, shift
  <2> QED BY <1>2, <1>5, FS_Surjection, FS_CardinalityType
<1>7. Head(s) \in S => Cardinality(from) = CountOf(s, S) - 1
  <2>1. Head(s) \in S => 1 \in Entries(s, S) BY <1>1 DEF Entries
  <2> QED BY <1>3, <2>1, FS_RemoveElement DEF CountOf
<1> QED BY <1>3, <1>5, <1>6, <1>7 DEF CountOf

\* Pushing steps that are not in S does not change the count.
LEMMA CountPush ==
  ASSUME NEW s \in Seq(StepNames), NEW t \in Seq(StepNames), NEW S, StepsOf(s) \cap S = {}
  PROVE  CountOf(s \o t, S) <= CountOf(t, S)
<1>1. /\ Len(s) \in Nat /\ Len(t) \in Nat /\ Len(s \o t) = Len(s) + Len(t)
      /\ \A i \in 1..Len(s \o t) : (s \o t)[i] = IF i <= Len(s) THEN s[i] ELSE t[i - Len(s)]
  BY LenProperties, ConcatProperties
<1> DEFINE from == Entries(t, S)
           to == Entries(s \o t, S)
           shift == [i \in from |-> i + Len(s)]
<1>2. shift \in Surjection(from, to)
  <2>1. ASSUME NEW i \in from PROVE i + Len(s) \in to
    <3>1. i \in 1..Len(t) /\ t[i] \in S BY DEF Entries
    <3>2. i + Len(s) \in 1..Len(s \o t) /\ ~(i + Len(s) <= Len(s)) /\ (i + Len(s)) - Len(s) = i
      BY <1>1, <3>1
    <3>3. (s \o t)[i + Len(s)] = t[i] BY <1>1, <3>2
    <3> QED BY <3>1, <3>2, <3>3 DEF Entries
  <2>2. ASSUME NEW j \in to PROVE \E i \in from : shift[i] = j
    <3>1. j \in 1..Len(s \o t) /\ (s \o t)[j] \in S BY DEF Entries
    <3>2. ~(j <= Len(s))
      <4>1. ASSUME j <= Len(s) PROVE FALSE
        <5>1. j \in 1..Len(s) /\ s[j] \in S BY <1>1, <3>1, <4>1
        <5> QED BY <5>1 DEF StepsOf
      <4> QED BY <4>1
    <3>3. j - Len(s) \in 1..Len(t) /\ t[j - Len(s)] \in S /\ (j - Len(s)) + Len(s) = j
      BY <1>1, <3>1, <3>2
    <3>4. j - Len(s) \in from BY <3>3 DEF Entries
    <3> QED BY <3>3, <3>4
  <2> HIDE DEF from, to
  <2>3. shift \in [from -> to] BY <2>1
  <2> HIDE DEF shift
  <2> QED BY <2>2, <2>3 DEF Surjection
<1>3. IsFiniteSet(from) BY CountType
<1> HIDE DEF from, to, shift
<1>4. Cardinality(to) <= Cardinality(from) BY <1>2, <1>3, FS_Surjection
<1> QED BY <1>4 DEF from, to, CountOf

\* What is still ahead of a call, the most important part first: the time that
\* acquire may let pass, the steps that open a call, wait, start further work,
\* all steps, and the VMs that the loops of the pool may take up.
Opening == {"acquire", "release"}
Waiting == {"acquire_wait"}
Spawning == {"acquire_retry", "start_background_creations", "scale_in_if_needed"}
WorkLeft == <<op.deadline - op.now, CountOf(agenda, Opening), CountOf(agenda, Waiting),
              CountOf(agenda, Spawning), Len(agenda), 2 * Cardinality(Pending) + WarmCount(vms)>>
\* The lexicographic order of the six.
Less(a, b) == \E i \in 1..6 : a[i] < b[i] /\ \A j \in 1..(i - 1) : a[j] <= b[j]

LEMMA WorkType ==
  ASSUME CoreTypeOK, op.now <= op.deadline
  PROVE  /\ WorkLeft \in Nat \X Nat \X Nat \X Nat \X Nat \X Nat
         /\ \A S : CountOf(agenda, S) \in Nat
<1>1. op.deadline - op.now \in Nat BY DEF CoreTypeOK, CallTypeOK
<1>2. \A S : CountOf(agenda, S) \in Nat BY CountType DEF CoreTypeOK
<1>3. Len(agenda) \in Nat BY LenProperties DEF CoreTypeOK
<1>4. 2 * Cardinality(Pending) + WarmCount(vms) \in Nat
  <2>1. Cardinality(Pending) \in Nat BY VmsInFinite DEF Pending
  <2> QED BY <2>1, CountsType
<1> QED BY <1>1, <1>2, <1>3, <1>4 DEF WorkLeft

\* The call's instants stay: then one entry of the tuple that goes down decides.
LEMMA LessByAgenda ==
  ASSUME op'.now = op.now, op'.deadline = op.deadline, CoreTypeOK,
         \/ CountOf(agenda', Opening) < CountOf(agenda, Opening)
         \/ /\ CountOf(agenda', Opening) <= CountOf(agenda, Opening)
            /\ CountOf(agenda', Waiting) < CountOf(agenda, Waiting)
         \/ /\ CountOf(agenda', Opening) <= CountOf(agenda, Opening)
            /\ CountOf(agenda', Waiting) <= CountOf(agenda, Waiting)
            /\ CountOf(agenda', Spawning) < CountOf(agenda, Spawning)
         \/ /\ CountOf(agenda', Opening) <= CountOf(agenda, Opening)
            /\ CountOf(agenda', Waiting) <= CountOf(agenda, Waiting)
            /\ CountOf(agenda', Spawning) <= CountOf(agenda, Spawning)
            /\ Len(agenda') < Len(agenda)
  PROVE  Less(WorkLeft', WorkLeft)
<1> DEFINE a == WorkLeft'
           b == WorkLeft
<1>1. /\ a[1] = b[1] /\ b[1] \in Int
      /\ a[2] = CountOf(agenda', Opening) /\ b[2] = CountOf(agenda, Opening)
      /\ a[3] = CountOf(agenda', Waiting) /\ b[3] = CountOf(agenda, Waiting)
      /\ a[4] = CountOf(agenda', Spawning) /\ b[4] = CountOf(agenda, Spawning)
      /\ a[5] = Len(agenda') /\ b[5] = Len(agenda)
  BY DEF WorkLeft, CoreTypeOK, CallTypeOK
<1> HIDE DEF a, b
<1>2. \/ a[2] < b[2] /\ \A j \in 1..(2 - 1) : a[j] <= b[j]
      \/ a[3] < b[3] /\ \A j \in 1..(3 - 1) : a[j] <= b[j]
      \/ a[4] < b[4] /\ \A j \in 1..(4 - 1) : a[j] <= b[j]
      \/ a[5] < b[5] /\ \A j \in 1..(5 - 1) : a[j] <= b[j]
  BY <1>1
<1>3. Less(a, b) BY <1>2 DEF Less
<1> QED BY <1>3 DEF a, b

LEMMA CountProceed ==
  ASSUME agenda \in Seq(StepNames), agenda # <<>>, NEW steps \in Seq(StepNames), Proceed(steps),
         NEW S, StepsOf(steps) \cap S = {}
  PROVE  /\ CountOf(agenda', S) <= CountOf(agenda, S)
         /\ Head(agenda) \in S => CountOf(agenda', S) < CountOf(agenda, S)
<1>1. Tail(agenda) \in Seq(StepNames) /\ agenda' = steps \o Tail(agenda)
  BY HeadTailProperties DEF Proceed
<1>2. agenda' \in Seq(StepNames) BY ProceedType
<1>3. /\ CountOf(agenda', S) <= CountOf(Tail(agenda), S)
      /\ CountOf(Tail(agenda), S) <= CountOf(agenda, S)
      /\ Head(agenda) \in S => CountOf(Tail(agenda), S) < CountOf(agenda, S)
  BY <1>1, CountPush, CountTail
<1>4. CountOf(agenda', S) \in Nat /\ CountOf(Tail(agenda), S) \in Nat /\ CountOf(agenda, S) \in Nat
  BY <1>1, <1>2, CountType
<1> QED BY <1>3, <1>4

LEMMA CountRestart ==
  ASSUME agenda \in Seq(StepNames), agenda # <<>>, agenda' \in Seq(StepNames),
         NEW S, StepsOf(agenda') \cap S = {}
  PROVE  /\ CountOf(agenda', S) <= CountOf(agenda, S)
         /\ Head(agenda) \in S => CountOf(agenda', S) < CountOf(agenda, S)
<1>1. Entries(agenda', S) = {} BY DEF Entries, StepsOf
<1>2. CountOf(agenda', S) = 0 BY <1>1, FS_EmptySet DEF CountOf
<1>3. Tail(agenda) \in Seq(StepNames) BY HeadTailProperties
<1>4. /\ CountOf(Tail(agenda), S) \in Nat /\ CountOf(agenda, S) \in Nat
      /\ Head(agenda) \in S => CountOf(Tail(agenda), S) < CountOf(agenda, S)
  BY <1>3, CountType, CountTail
<1> QED BY <1>2, <1>4

\* A step that only takes itself off the agenda, or that fails.
LEMMA LessByPop ==
  ASSUME CoreTypeOK, agenda # <<>>, op'.now = op.now, op'.deadline = op.deadline,
         Proceed(<<>>) \/ agenda' = <<>>
  PROVE  Less(WorkLeft', WorkLeft)
<1>1. agenda \in Seq(StepNames) BY DEF CoreTypeOK
<1>2. <<>> \in Seq(StepNames) /\ StepsOf(<<>>) = {} /\ Len(<<>>) = 0 BY EmptyChain, EmptySeq DEF Chain
<1>3. \A S : CountOf(agenda', S) <= CountOf(agenda, S)
  <2> TAKE S
  <2>1. CASE Proceed(<<>>) BY <1>1, <1>2, <2>1, CountProceed
  <2>2. CASE agenda' = <<>> BY <1>1, <1>2, <2>2, CountRestart
  <2> QED BY <2>1, <2>2
<1>4. Len(agenda') < Len(agenda)
  <2>1. /\ Len(Tail(agenda)) = Len(agenda) - 1 /\ Len(agenda) \in Nat /\ Len(agenda) # 0
        /\ Tail(agenda) \in Seq(StepNames)
    BY <1>1, HeadTailProperties, LenProperties, EmptySeq
  <2>2. <<>> \o Tail(agenda) = Tail(agenda) BY <2>1
  <2>3. agenda' \in {Tail(agenda), <<>>} BY <2>2 DEF Proceed
  <2> QED BY <1>2, <2>1, <2>3
<1> QED BY <1>3, <1>4, LessByAgenda

\* A step that stays in its loop takes a VM up.
LEMMA LessByVm ==
  ASSUME CoreTypeOK, UNCHANGED <<op, agenda>>, NEW v \in Vms, NEW w,
         vms' = [vms EXCEPT ![v] = w],
         \/ v \in Pending /\ w.state \in {"Warm", "Absent"}
         \/ vms[v].state = "Warm" /\ w.state = "Absent"
  PROVE  Less(WorkLeft', WorkLeft)
<1> DEFINE C(s) == Cardinality(VmsIn(vms, {s}))
           D(s) == Cardinality(VmsIn(vms', {s}))
<1>1. \A pool : Cardinality(VmsIn(pool, {"Creating", "Draining"}))
                  = Cardinality(VmsIn(pool, {"Creating"})) + Cardinality(VmsIn(pool, {"Draining"}))
  <2> TAKE pool
  <2> DEFINE S == VmsIn(pool, {"Creating"})
             T == VmsIn(pool, {"Draining"})
  <2>1. VmsIn(pool, {"Creating", "Draining"}) = S \cup T /\ S \cap T = {} BY DEF VmsIn
  <2>2. /\ IsFiniteSet(S) /\ IsFiniteSet(T) /\ Cardinality(S) \in Nat /\ Cardinality(T) \in Nat
        /\ Cardinality(S \cap T) = 0
    BY <2>1, VmsInFinite, FS_EmptySet
  <2> HIDE DEF S, T
  <2>3. Cardinality(S \cup T) = Cardinality(S) + Cardinality(T) - Cardinality(S \cap T)
    BY <2>2, FS_Union
  <2>4. Cardinality(S \cup T) = Cardinality(S) + Cardinality(T) BY <2>2, <2>3
  <2> QED BY <2>1, <2>4 DEF S, T
<1>2. /\ \A s : C(s) \in Nat /\ D(s) \in Nat
      /\ Cardinality(Pending) = C("Creating") + C("Draining") /\ WarmCount(vms) = C("Warm")
      /\ Cardinality(Pending') = D("Creating") + D("Draining") /\ WarmCount(vms') = D("Warm")
  BY <1>1, VmsInFinite DEF Pending, WarmCount
<1>3. w.state # vms[v].state BY DEF Pending, VmsIn
<1>4. /\ D(w.state) = C(w.state) + 1 /\ D(vms[v].state) + 1 = C(vms[v].state)
      /\ \A s : s # w.state /\ s # vms[v].state => D(s) = C(s)
  BY <1>3, OneMoves
<1>5. vms[v].state \in {"Creating", "Draining", "Warm"} /\ w.state \in {"Warm", "Absent"}
  BY DEF Pending, VmsIn
<1> HIDE DEF C, D
<1>6. 2 * Cardinality(Pending') + WarmCount(vms') < 2 * Cardinality(Pending) + WarmCount(vms)
  <2>1. CASE vms[v].state = "Creating" BY <1>2, <1>4, <1>5, <2>1
  <2>2. CASE vms[v].state = "Draining" BY <1>2, <1>4, <1>5, <2>2
  <2>3. CASE vms[v].state = "Warm" BY <1>2, <1>3, <1>4, <1>5, <2>3
  <2> QED BY <1>5, <2>1, <2>2, <2>3
<1> DEFINE a == WorkLeft'
           b == WorkLeft
<1>7. /\ \A i \in 1..5 : a[i] = b[i] /\ b[i] \in Int
      /\ a[6] < b[6]
  <2>1. WorkLeft[1] \in Int BY DEF WorkLeft, CoreTypeOK, CallTypeOK
  <2>2. \A S : CountOf(agenda, S) \in Nat BY CountType DEF CoreTypeOK
  <2>3. Len(agenda) \in Nat BY LenProperties DEF CoreTypeOK
  <2>4. \A i \in 1..5 : i \in {1, 2, 3, 4, 5} OBVIOUS
  <2>5. a[6] = 2 * Cardinality(Pending') + WarmCount(vms')
        /\ b[6] = 2 * Cardinality(Pending) + WarmCount(vms)
    BY DEF WorkLeft, WarmCount
  <2> QED BY <1>6, <2>1, <2>2, <2>3, <2>4, <2>5 DEF WorkLeft
<1> HIDE DEF a, b
<1>8. a[6] < b[6] /\ \A j \in 1..(6 - 1) : a[j] <= b[j] BY <1>7
<1>9. Less(a, b) BY <1>8 DEF Less
<1> QED BY <1>9 DEF a, b

\* Every step of a call leaves less to do.
LEMMA StepLessens ==
  ASSUME CoreTypeOK, OrderInv, op.now <= op.deadline, Step
  PROVE  Less(WorkLeft', WorkLeft)
<1>a. agenda # <<>> /\ agenda \in Seq(StepNames) BY AgendaNotEmpty DEF CoreTypeOK
<1>b. "return" \in Follows("update_warm_surplus_marker") BY DEF Follows
<1>c. Fail => op'.now = op.now /\ op'.deadline = op.deadline /\ agenda' = <<>>
  BY DEF Fail, CoreTypeOK, CallTypeOK
<1>d. Fail => Less(WorkLeft', WorkLeft) BY <1>a, <1>c, LessByPop
<1>e. ASSUME NEW steps, NEW h, NEW S, Chain(steps, h, "return", S), Proceed(steps), UNCHANGED op,
             \/ Head(agenda) \in Opening /\ S \cap Opening = {}
             \/ Head(agenda) \in Spawning /\ S \cap (Opening \cup Waiting \cup Spawning) = {}
      PROVE  Less(WorkLeft', WorkLeft)
  <2>1. steps \in Seq(StepNames) /\ StepsOf(steps) = S BY <1>e DEF Chain
  <2>2. CASE Head(agenda) \in Opening /\ S \cap Opening = {}
    <3>1. CountOf(agenda', Opening) < CountOf(agenda, Opening)
      BY <1>a, <1>e, <2>1, <2>2, CountProceed
    <3> QED BY <1>e, <3>1, LessByAgenda
  <2>3. CASE Head(agenda) \in Spawning /\ S \cap (Opening \cup Waiting \cup Spawning) = {}
    <3>1. S \cap Opening = {} /\ S \cap Waiting = {} /\ S \cap Spawning = {} BY <2>3
    <3>2. /\ CountOf(agenda', Opening) <= CountOf(agenda, Opening)
          /\ CountOf(agenda', Waiting) <= CountOf(agenda, Waiting)
          /\ CountOf(agenda', Spawning) < CountOf(agenda, Spawning)
      BY <1>a, <1>e, <2>1, <2>3, <3>1, CountProceed
    <3> QED BY <1>e, <3>2, LessByAgenda
  <2> QED BY <1>e, <2>2, <2>3
<1>f. ASSUME NEW h, NEW S, Chain(agenda', h, "return", S), op'.now = op.now,
             op'.deadline = op.deadline, S \cap (Opening \cup Waiting) = {},
             Head(agenda) \in Opening \cup Waiting
      PROVE  Less(WorkLeft', WorkLeft)
  <2>1. /\ agenda' \in Seq(StepNames) /\ StepsOf(agenda') \cap Opening = {}
        /\ StepsOf(agenda') \cap Waiting = {}
    BY <1>f DEF Chain
  <2>2. /\ CountOf(agenda', Opening) <= CountOf(agenda, Opening)
        /\ CountOf(agenda', Waiting) <= CountOf(agenda, Waiting)
        /\ Head(agenda) \in Opening => CountOf(agenda', Opening) < CountOf(agenda, Opening)
        /\ Head(agenda) \in Waiting => CountOf(agenda', Waiting) < CountOf(agenda, Waiting)
    BY <1>a, <2>1, CountRestart
  <2> QED BY <1>f, <2>2, LessByAgenda
<1> USE DEF At
<1>1. CASE PoppingStep
  <2>1. Proceed(<<>>)
    BY <1>1 DEF PoppingStep, ObserveTime, NoneStale, NoneReady, UpdateWarmSurplusMarker,
         SurplusEvicted, AcquireTimedOut
  <2>2. op'.now = op.now /\ op'.deadline = op.deadline
    BY <1>1 DEF PoppingStep, ObserveTime, NoneStale, NoneReady, UpdateWarmSurplusMarker,
         SurplusEvicted, AcquireTimedOut, CoreTypeOK, CallTypeOK
  <2> QED BY <1>a, <2>1, <2>2, LessByPop
<1>2. CASE FailingStep
  BY <1>2, <1>d DEF FailingStep, RejectPast, CreationFails, ReleaseRejected
<1>3. CASE StartCreation
  <2>1. Fail \/ (Proceed(<<>>) /\ UNCHANGED op) BY <1>3 DEF StartCreation, InsertCreated
  <2> QED BY <1>a, <1>d, <2>1, LessByPop
<1>4. CASE StayingStep
  <2>1. CASE PromoteHealthy
    <3>1. PICK v \in ReadyAt(op.now) :
            vms' = [vms EXCEPT ![v] = [state |-> "Warm", changedAt |-> op.now, readyAt |-> op.now]]
      BY <2>1 DEF PromoteHealthy
    <3> DEFINE w == [state |-> "Warm", changedAt |-> op.now, readyAt |-> op.now]
    <3>2. w.state = "Warm" /\ v \in Pending /\ v \in Vms BY DEF ReadyAt, Pending, VmsIn
    <3>3. UNCHANGED <<op, agenda>> BY <2>1 DEF PromoteHealthy
    <3>4. vms' = [vms EXCEPT ![v] = w] BY <3>1
    <3> HIDE DEF w
    <3> QED BY <3>2, <3>3, <3>4, LessByVm
  <2>2. CASE DiscardStale \/ DiscardUnhealthy \/ EvictSurplus
    <3>1. PICK v \in Vms, failed \in BOOLEAN :
            DiscardVm(v, failed, agenda) /\ (v \in Pending \/ vms[v].state = "Warm")
      BY <2>2 DEF DiscardStale, DiscardUnhealthy, EvictSurplus, StaleAt, ReadyAt, OldestWarm,
         Pending, VmsIn
    <3>2. CASE Fail BY <1>d, <3>2
    <3>3. CASE ~Fail
      <4>1. UNCHANGED <<op, agenda>> /\ vms' = [vms EXCEPT ![v] = AbsentVm] /\ AbsentVm.state = "Absent"
        BY <3>1, <3>3 DEF DiscardVm, AbsentVm
      <4> QED BY <3>1, <4>1, LessByVm
    <3> QED BY <3>2, <3>3
  <2> QED BY <1>4, <2>1, <2>2 DEF StayingStep
<1> USE DEF Opening, Waiting, Spawning
<1>5. CASE StartBackgroundCreations
  <2> DEFINE steps == Creations(BackgroundCreationTarget) \o AdvanceTo
  <2>1. /\ Head(agenda) = "start_background_creations" /\ Proceed(steps) /\ UNCHANGED op
    BY <1>5 DEF StartBackgroundCreations
  <2>2. \/ Chain(steps, "start_creation", "return", Refilling)
        \/ Chain(steps, "observe_time", "return", Refreshing)
    BY <1>b, TargetType, PushedChains
  <2> HIDE DEF steps
  <2> QED BY <1>e, <2>1, <2>2 DEF Refilling, Refreshing
<1>6. CASE ScaleInIfNeeded
  <2>1. /\ Head(agenda) = "scale_in_if_needed" /\ UNCHANGED op
        /\ Proceed(<<"evict_surplus">>) \/ Proceed(<<>>)
    BY <1>6 DEF ScaleInIfNeeded
  <2>2. <<"evict_surplus">> \in Seq(StepNames) /\ StepsOf(<<"evict_surplus">>) = {"evict_surplus"}
    BY PushedChains DEF Chain
  <2>3. CASE Proceed(<<"evict_surplus">>)
    <3>1. /\ CountOf(agenda', Opening) <= CountOf(agenda, Opening)
          /\ CountOf(agenda', Waiting) <= CountOf(agenda, Waiting)
          /\ CountOf(agenda', Spawning) < CountOf(agenda, Spawning)
      BY <1>a, <2>1, <2>2, <2>3, CountProceed
    <3> QED BY <2>1, <3>1, LessByAgenda
  <2>4. CASE Proceed(<<>>) BY <1>a, <2>1, <2>4, LessByPop
  <2> QED BY <2>1, <2>3, <2>4
<1>7. CASE AcquireHit \/ AcquireWaited
  <2>1. /\ agenda' = <<"start_background_creations">> \o AdvanceTo
        /\ Head(agenda) \in {"acquire", "acquire_wait"}
    BY <1>7 DEF AcquireHit, AcquireWaited, LeaseVm
  <2>2. op'.now = op.now /\ op'.deadline = op.deadline
    BY <1>7 DEF AcquireHit, AcquireWaited, LeaseVm, CoreTypeOK, CallTypeOK
  <2>3. Chain(agenda', "start_background_creations", "return",
              Refreshing \cup {"start_background_creations"})
    BY <2>1, PushedChains
  <2> QED BY <1>f, <2>1, <2>2, <2>3 DEF Refreshing
<1>8. CASE AcquireMiss
  <2>1. /\ Head(agenda) = "acquire"
        /\ \/ Fail
           \/ Proceed((<<"start_creation">> \o AdvanceTo) \o <<"acquire_wait">>) /\ UNCHANGED op
           \/ Proceed(<<>> \o <<"acquire_wait">>) /\ UNCHANGED op
    BY <1>8 DEF AcquireMiss
  <2>2. CASE Fail BY <1>d, <2>2
  <2>3. CASE Proceed((<<"start_creation">> \o AdvanceTo) \o <<"acquire_wait">>) /\ UNCHANGED op
    BY <1>e, <2>1, <2>3, PushedChains DEF Refilling, Refreshing
  <2>4. CASE Proceed(<<>> \o <<"acquire_wait">>) /\ UNCHANGED op
    BY <1>e, <2>1, <2>4, PushedChains
  <2> QED BY <2>1, <2>2, <2>3, <2>4
<1>9. CASE AcquireSkipAhead
  <2>1. /\ op'.now > op.now /\ op'.deadline = op.deadline BY <1>9, SkipMovesAhead
  <2>2. op'.now \in Int
    <3>1. Pending # {} /\ op' = [op EXCEPT !.now = NextTransitionReadyAt]
      BY <1>9 DEF AcquireSkipAhead, SomethingInTime
    <3> QED BY <3>1, PendingInstants DEF CoreTypeOK, CallTypeOK
  <2>3. op.deadline \in Int /\ op.now \in Int BY DEF CoreTypeOK, CallTypeOK
  <2> DEFINE a == WorkLeft'
             b == WorkLeft
  <2>4. a[1] = op'.deadline - op'.now /\ b[1] = op.deadline - op.now BY DEF WorkLeft
  <2> HIDE DEF a, b
  <2>5. a[1] < b[1] /\ \A j \in 1..(1 - 1) : a[j] <= b[j] BY <2>1, <2>2, <2>3, <2>4
  <2>6. Less(a, b) BY <2>5 DEF Less
  <2> QED BY <2>6 DEF a, b
<1>10. CASE AcquireRetry
  <2>1. /\ Head(agenda) = "acquire_retry" /\ UNCHANGED op
        /\ Proceed(<<"start_creation">> \o AdvanceTo) \/ Proceed(<<>>)
    BY <1>10 DEF AcquireRetry
  <2>2. CASE Proceed(<<"start_creation">> \o AdvanceTo)
    <3>1. Chain(<<"start_creation">> \o AdvanceTo, "start_creation", "return", Refilling)
      BY <1>b, PushedChains
    <3> QED BY <1>e, <2>1, <2>2, <3>1 DEF Refilling, Refreshing
  <2>3. CASE Proceed(<<>>) BY <1>a, <2>1, <2>3, LessByPop
  <2> QED BY <2>1, <2>2, <2>3
<1>11. CASE ReleaseScrubbed
  <2>1. /\ Head(agenda) = "release"
        /\ \/ Fail
           \/ Proceed(AdvanceTo \o <<"start_background_creations">> \o AdvanceTo) /\ UNCHANGED op
    BY <1>11 DEF ReleaseScrubbed
  <2> QED BY <1>d, <1>e, <2>1, PushedChains DEF Refreshing
<1>12. CASE ReleaseUnscrubbed
  <2>1. /\ Head(agenda) = "release"
        /\ \/ Fail
           \/ /\ agenda' = <<"start_background_creations", "update_warm_surplus_marker">>
              /\ UNCHANGED op
    BY <1>12 DEF ReleaseUnscrubbed, DiscardVm
  <2> QED BY <1>d, <1>f, <2>1, PushedChains
<1> QED BY <1>1, <1>2, <1>3, <1>4, <1>5, <1>6, <1>7, <1>8, <1>9, <1>10, <1>11, <1>12
        DEF Step, PoppingStep, StayingStep, FailingStep

\* While a call is under way nothing but its steps happens.
LEMMA NextLessens ==
  ASSUME TypeOK, OrderInv, op.now <= op.deadline, Next, agenda # <<>>
  PROVE  Less(WorkLeft', WorkLeft)
<1>1. CoreTypeOK BY DEF TypeOK, CoreTypeOK, PoolTypeOK, CallTypeOK
<1>2. ~Return BY DEF Return, Finished
<1>3. ~Call
  <2>1. Call => Idle BY DEF Call, Refill, Acquire, Release, Reap, Begin
  <2> QED BY <1>1, <2>1, IdleHasNoAgenda DEF OrderInv, CoreTypeOK
<1> QED BY <1>1, <1>2, <1>3, StepLessens DEF Next

\* No call looks beyond its deadline.
LEMMA AlwaysInTime == Spec => [](op.now <= op.deadline)
<1> DEFINE InTime == op.now <= op.deadline
<1>1. Init => InTime BY DEF Init, NoCall
<1>2. ASSUME TypeOK, InTime, [Next]_vars PROVE InTime'
  <2>1. CoreTypeOK BY <1>2 DEF TypeOK, CoreTypeOK, PoolTypeOK, CallTypeOK
  <2>2. CASE Step BY <1>2, <2>1, <2>2, DeadlineStep
  <2>3. CASE Call
    BY <2>3, TimesAssumption DEF Call, Refill, Acquire, Release, Reap, Begin, Clock
  <2>4. CASE Return BY <2>4 DEF Return, NoCall
  <2>5. CASE UNCHANGED vars BY <1>2, <2>5 DEF vars
  <2> QED BY <1>2, <2>2, <2>3, <2>4, <2>5 DEF Next
<1> QED BY <1>1, <1>2, AlwaysOrdered, PTL DEF Spec

(***************************************************************************)
(* Every call comes to an end: what is ahead of it is six natural numbers, *)
(* and each step of a call makes them smaller in their lexicographic       *)
(* order, under every fault.  This covers in particular the loop of        *)
(* acquire, whose rounds start VMs and look again: each moves the cursor   *)
(* strictly towards the deadline.  Only that steps are taken at all is     *)
(* left to fairness.                                                       *)
(***************************************************************************)
THEOREM CallsRunDown ==
  Spec => /\ [](WorkLeft \in Nat \X Nat \X Nat \X Nat \X Nat \X Nat)
          /\ [][agenda # <<>> => Less(WorkLeft', WorkLeft)]_vars
<1>1. TypeOK /\ op.now <= op.deadline => WorkLeft \in Nat \X Nat \X Nat \X Nat \X Nat \X Nat
  BY WorkType DEF TypeOK, CoreTypeOK, PoolTypeOK, CallTypeOK
<1>2. TypeOK /\ OrderInv /\ op.now <= op.deadline /\ [Next]_vars
        => [agenda # <<>> => Less(WorkLeft', WorkLeft)]_vars
  BY NextLessens
<1> QED BY <1>1, <1>2, AlwaysOrdered, AlwaysInTime, PTL DEF Spec
=============================================================================
