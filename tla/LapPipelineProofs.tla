-------------------------- MODULE LapPipelineProofs -------------------------
(***************************************************************************)
(* try_claim_fastest_lap, proved for every set of threads and drivers,     *)
(* every set of lap times and every number of claims; and the way of a lap *)
(* through the queue and the consumer to what main reports, for every      *)
(* length of the queue and of the race.                                    *)
(***************************************************************************)
EXTENDS LapPipeline, TLAPS

-----------------------------------------------------------------------------
(* FastestLap *)

\* A thread that is about to compare-and-exchange has a faster lap than the
\* value it expects.
ClaimsImprove ==
    \A t \in Claimers : pc[t] = "cas" => lap_ms[t] < current_best[t]

\* Inside the call the arguments are a driver and a lap time; after a win the
\* recorded time is at most the thread's own.
CallersArguments ==
    \A t \in Claimers :
        /\ pc[t] # "idle" => driver_index[t] \in Drivers /\ lap_ms[t] \in Times
        /\ pc[t] = "store" => Best <= lap_ms[t]

\* What a thread has seen are entries of the modification order.
SeenExists ==
    /\ Len(fastest_lap_ms) \in Nat \ {0}
    /\ \A t \in Claimers : seen[t] \in 1..Len(fastest_lap_ms)

\* The inductive invariant.
IndInv ==
    /\ TypeOK
    /\ SeenExists
    /\ ClaimsImprove
    /\ CallersArguments
    /\ WinsStrictlyImprove
    /\ NoFasterLapLost

\* Lap times, and the initial value, are numbers.
LEMMA TimesAreNumbers == Times \cup {MaxFloat} \subseteq Nat
  BY TimesAssumption

\* No entry is faster than the newest.
LEMMA BestIsLeast ==
    ASSUME IndInv, NEW k \in 1..Newest
    PROVE  Best <= fastest_lap_ms[k] /\ Best \in Nat /\ fastest_lap_ms[k] \in Nat
<1>1. /\ Newest \in 1..Newest /\ Newest \in Nat
      /\ \A i \in 1..Newest : fastest_lap_ms[i] \in Nat
  BY TimesAreNumbers DEF IndInv, TypeOK, SeenExists, Newest
<1>2. k = Newest \/ k < Newest
  BY <1>1
<1> QED
  BY <1>1, <1>2 DEF IndInv, WinsStrictlyImprove, Best

\* A load that ends the call, or goes on to the compare-and-exchange, keeps
\* what the invariant says of the loading thread.
LEMMA JudgeKeeps ==
    ASSUME IndInv,
           NEW t \in Claimers, NEW d \in Drivers, NEW ms \in Times, NEW k \in 1..Newest,
           Judge(t, d, ms, k),
           driver_index' = [driver_index EXCEPT ![t] = d],
           lap_ms' = [lap_ms EXCEPT ![t] = ms],
           claims' \in [Claimers -> 0..MaxClaims],
           UNCHANGED <<fastest_lap_ms, fastest_lap_holder, winners>>
    PROVE  IndInv'
<1>1. fastest_lap_ms[k] \in Times \cup {MaxFloat}
  BY DEF IndInv, TypeOK, SeenExists, Newest
<1>2. TypeOK'
  <2>1. seen' \in [Claimers -> Nat] /\ current_best' \in [Claimers -> Times \cup {MaxFloat}]
    BY <1>1 DEF IndInv, TypeOK, SeenExists, Judge, Newest
  <2>2. /\ pc' \in [Claimers -> {"idle", "cas", "store"}]
        /\ offered' \subseteq [driver : Drivers, ms : Times]
    <3>1. CASE ms < fastest_lap_ms[k]
      BY <3>1 DEF IndInv, TypeOK, Judge
    <3>2. CASE ~(ms < fastest_lap_ms[k])
      <4>1. /\ pc' = [pc EXCEPT ![t] = "idle"]
            /\ offered' = offered \cup {[driver |-> d, ms |-> ms]}
        BY <3>2 DEF Judge
      <4>2. [driver |-> d, ms |-> ms] \in [driver : Drivers, ms : Times]
        OBVIOUS
      <4> QED
        BY <4>1, <4>2 DEF IndInv, TypeOK
    <3> QED
      BY <3>1, <3>2
  <2> QED
    BY <2>1, <2>2 DEF IndInv, TypeOK
<1>3. SeenExists'
  BY DEF IndInv, TypeOK, SeenExists, Judge, Newest
<1>4. ClaimsImprove'
  BY DEF IndInv, TypeOK, ClaimsImprove, Judge
<1>5. CallersArguments'
  BY DEF IndInv, TypeOK, CallersArguments, Judge, Best, Newest
<1>6. WinsStrictlyImprove'
  BY DEF IndInv, WinsStrictlyImprove, Newest
<1>7. NoFasterLapLost'
  <2>1. Best' = Best
    BY DEF Best, Newest
  <2>2. CASE ms < fastest_lap_ms[k]
    BY <2>1, <2>2 DEF IndInv, NoFasterLapLost, Judge
  <2>3. CASE ~(ms < fastest_lap_ms[k])
    <3>1. Best <= ms
      BY <2>3, BestIsLeast, TimesAreNumbers
    <3>2. offered' = offered \cup {[driver |-> d, ms |-> ms]}
      BY <2>3 DEF Judge
    <3> QED
      BY <2>1, <3>1, <3>2 DEF IndInv, NoFasterLapLost
  <2> QED
    BY <2>2, <2>3
<1> QED
  BY <1>2, <1>3, <1>4, <1>5, <1>6, <1>7 DEF IndInv

LEMMA InitInv == Init => IndInv
<1> SUFFICES ASSUME Init PROVE IndInv
  OBVIOUS
<1>1. Newest = 1 /\ Len(fastest_lap_ms) = 1 /\ fastest_lap_ms \in Seq(Times \cup {MaxFloat})
  BY DEF Init, Newest
<1>2. winners \in Seq(Drivers \cup {NoDriver})
  BY DEF Init
<1>3. TypeOK
  BY <1>1, <1>2, ClaimsAssumption DEF Init, TypeOK
<1> QED
  BY <1>1, <1>3 DEF Init, IndInv, SeenExists, ClaimsImprove, CallersArguments,
     WinsStrictlyImprove, NoFasterLapLost

\* A win appends a time that is less than all before it.
LEMMA CasSucceedsKeeps ==
    ASSUME IndInv, NEW t \in Claimers, CasSucceeds(t)
    PROVE  IndInv'
<1> DEFINE n == Len(fastest_lap_ms)
<1>1. /\ n \in Nat \ {0} /\ Len(fastest_lap_ms') = n + 1
      /\ fastest_lap_ms'[n + 1] = lap_ms[t]
      /\ \A i \in 1..n : fastest_lap_ms'[i] = fastest_lap_ms[i]
  BY DEF IndInv, TypeOK, SeenExists, CasSucceeds
<1>2. lap_ms[t] < Best /\ lap_ms[t] \in Times /\ driver_index[t] \in Drivers
  BY DEF IndInv, ClaimsImprove, CallersArguments, CasSucceeds
<1>3. Best' = lap_ms[t] /\ Newest' = n + 1
  BY <1>1 DEF Best, Newest
<1>4. TypeOK'
  <2>1. fastest_lap_ms' \in Seq(Times \cup {MaxFloat})
    BY <1>2 DEF IndInv, TypeOK, CasSucceeds
  <2>2. winners' \in Seq(Drivers \cup {NoDriver})
    BY <1>2 DEF IndInv, TypeOK, CasSucceeds
  <2>3. seen' \in [Claimers -> Nat] /\ pc' \in [Claimers -> {"idle", "cas", "store"}]
    BY <1>1 DEF IndInv, TypeOK, CasSucceeds, Newest
  <2> QED
    BY <2>1, <2>2, <2>3 DEF IndInv, TypeOK, CasSucceeds
<1>5. SeenExists'
  BY <1>1 DEF IndInv, TypeOK, SeenExists, CasSucceeds, Newest
<1>6. ClaimsImprove'
  BY DEF IndInv, TypeOK, ClaimsImprove, CasSucceeds
<1>7. CallersArguments'
  <2>1. ASSUME NEW u \in Claimers, pc'[u] = "store" PROVE Best' <= lap_ms'[u]
    <3>1. CASE u = t
      BY <1>2, <1>3, <3>1, TimesAreNumbers DEF CasSucceeds
    <3>2. CASE u # t
      <4>1. pc[u] = "store" /\ lap_ms'[u] = lap_ms[u]
        BY <2>1, <3>2 DEF IndInv, TypeOK, CasSucceeds
      <4>2. Best <= lap_ms[u] /\ lap_ms[u] \in Times
        BY <4>1 DEF IndInv, CallersArguments
      <4>3. Best \in Nat
        BY <1>1, BestIsLeast DEF Newest
      <4> QED
        BY <1>2, <1>3, <4>1, <4>2, <4>3, TimesAreNumbers
    <3> QED
      BY <3>1, <3>2
  <2>2. ASSUME NEW u \in Claimers, pc'[u] # "idle"
        PROVE  driver_index'[u] \in Drivers /\ lap_ms'[u] \in Times
    BY <1>2, <2>2 DEF IndInv, TypeOK, CallersArguments, CasSucceeds
  <2> QED
    BY <2>1, <2>2 DEF CallersArguments
<1>8. WinsStrictlyImprove'
  <2> SUFFICES ASSUME NEW i \in 1..(n + 1), NEW j \in 1..(n + 1), i < j
               PROVE  fastest_lap_ms'[j] < fastest_lap_ms'[i]
    BY <1>3 DEF WinsStrictlyImprove
  <2>1. i \in 1..n
    BY <1>1
  <2>2. CASE j \in 1..n
    BY <1>1, <2>1, <2>2 DEF IndInv, WinsStrictlyImprove, Newest
  <2>3. CASE j = n + 1
    <3>1. Best <= fastest_lap_ms[i] /\ Best \in Nat /\ fastest_lap_ms[i] \in Nat
      BY <2>1, BestIsLeast DEF Newest
    <3> QED
      BY <1>1, <1>2, <2>1, <2>3, <3>1, TimesAreNumbers
  <2> QED
    BY <1>1, <2>2, <2>3
<1>9. NoFasterLapLost'
  <2> SUFFICES ASSUME NEW c \in offered PROVE Best' <= c.ms
    BY DEF NoFasterLapLost, CasSucceeds
  <2>1. Best <= c.ms /\ c.ms \in Times
    BY DEF IndInv, TypeOK, NoFasterLapLost
  <2>2. Best \in Nat
    BY <1>1, BestIsLeast DEF Newest
  <2> QED
    BY <1>2, <1>3, <2>1, <2>2, TimesAreNumbers
<1> QED
  BY <1>4, <1>5, <1>6, <1>7, <1>8, <1>9 DEF IndInv

\* A winner returns with a lap that the recorded time beats or equals.
LEMMA StoreHolderKeeps ==
    ASSUME IndInv, NEW t \in Claimers, StoreHolder(t)
    PROVE  IndInv'
<1>1. driver_index[t] \in Drivers /\ lap_ms[t] \in Times /\ Best <= lap_ms[t]
  BY DEF IndInv, CallersArguments, StoreHolder
<1>2. Best' = Best /\ Newest' = Newest
  BY DEF StoreHolder, Best, Newest
<1>3. TypeOK'
  BY <1>1 DEF IndInv, TypeOK, StoreHolder
<1>4. SeenExists' /\ ClaimsImprove' /\ CallersArguments'
  BY <1>2 DEF IndInv, TypeOK, SeenExists, ClaimsImprove, CallersArguments, StoreHolder
<1>5. WinsStrictlyImprove'
  BY <1>2 DEF IndInv, WinsStrictlyImprove, StoreHolder
<1>6. NoFasterLapLost'
  BY <1>1, <1>2 DEF IndInv, NoFasterLapLost, StoreHolder
<1> QED
  BY <1>3, <1>4, <1>5, <1>6 DEF IndInv

LEMMA NextKeeps == IndInv /\ [Next]_claimVars => IndInv'
<1> SUFFICES ASSUME IndInv, [Next]_claimVars PROVE IndInv'
  OBVIOUS
<1>1. ASSUME NEW t \in Claimers, NEW k \in seen[t]..Newest PROVE k \in 1..Newest
  BY DEF IndInv, SeenExists, Newest
<1>2. ASSUME NEW t \in Claimers, NEW d \in Drivers, NEW ms \in Times,
             NEW k \in seen[t]..Newest, Claim(t, d, ms, k)
      PROVE  IndInv'
  <2>1. claims' \in [Claimers -> 0..MaxClaims]
    BY <1>2, ClaimsAssumption DEF IndInv, TypeOK, Claim
  <2> QED
    BY <1>1, <1>2, <2>1, JudgeKeeps DEF Claim
<1>3. ASSUME NEW t \in Claimers, CasSucceeds(t) PROVE IndInv'
  BY <1>3, CasSucceedsKeeps
<1>4. ASSUME NEW t \in Claimers, NEW k \in seen[t]..Newest, CasFails(t, k) PROVE IndInv'
  <2>1. driver_index[t] \in Drivers /\ lap_ms[t] \in Times
    BY <1>4 DEF IndInv, CallersArguments, CasFails
  <2>2. /\ driver_index' = [driver_index EXCEPT ![t] = driver_index[t]]
        /\ lap_ms' = [lap_ms EXCEPT ![t] = lap_ms[t]]
        /\ claims' \in [Claimers -> 0..MaxClaims]
    BY <1>4 DEF IndInv, TypeOK, CasFails
  <2> QED
    BY <1>1, <1>4, <2>1, <2>2, JudgeKeeps DEF CasFails
<1>5. ASSUME NEW t \in Claimers, StoreHolder(t) PROVE IndInv'
  BY <1>5, StoreHolderKeeps
<1>6. CASE UNCHANGED claimVars
  BY <1>6 DEF IndInv, TypeOK, SeenExists, ClaimsImprove, CallersArguments,
     WinsStrictlyImprove, NoFasterLapLost, Best, Newest, claimVars
<1> QED
  BY <1>2, <1>3, <1>4, <1>5, <1>6 DEF Next, Step

\* The claims keep their invariant, with any number of claiming threads.
THEOREM Invariance == Spec => []IndInv
  BY InitInv, NextKeeps, PTL DEF Spec

\* Every variable keeps its type.
THEOREM TypeCorrect == Spec => []TypeOK
  BY Invariance, PTL DEF IndInv

\* However the loads of try_claim_fastest_lap are delayed and however often
\* its compare-and-exchange fails, the times that win fall strictly.
THEOREM StrictWins == Spec => []WinsStrictlyImprove
  BY Invariance, PTL DEF IndInv

\* No call of try_claim_fastest_lap returns with a lap faster than the one
\* recorded.
THEOREM FastestKept == Spec => []NoFasterLapLost
  BY Invariance, PTL DEF IndInv

-----------------------------------------------------------------------------
(* One claiming thread *)

\* The holder is the driver of the newest time, except between the exchange
\* of the time and the store of the holder, which names that driver.
HolderFollows(c) ==
    /\ Len(winners) = Newest
    /\ IF pc[c] = "store" THEN driver_index[c] = winners[Newest]
                          ELSE fastest_lap_holder = winners[Newest]

\* The holder follows when nobody else claims.
LEMMA HolderKeeps ==
    ASSUME IndInv, NEW c \in Claimers, HolderFollows(c),
           \/ \E d \in Drivers, ms \in Times, k \in seen[c]..Newest : Claim(c, d, ms, k)
           \/ Step(c)
           \/ UNCHANGED claimVars
    PROVE  HolderFollows(c)'
<1>1. pc \in [Claimers -> {"idle", "cas", "store"}]
  BY DEF IndInv, TypeOK
<1>2. ASSUME NEW d \in Drivers, NEW ms \in Times, NEW k \in seen[c]..Newest,
             Claim(c, d, ms, k)
      PROVE  HolderFollows(c)'
  BY <1>1, <1>2 DEF HolderFollows, Claim, Judge, Newest
<1>3. ASSUME CasSucceeds(c) PROVE HolderFollows(c)'
  <2>1. /\ winners' = Append(winners, driver_index[c]) /\ winners \in Seq(Drivers \cup {NoDriver})
        /\ fastest_lap_ms' = Append(fastest_lap_ms, lap_ms[c])
        /\ fastest_lap_ms \in Seq(Times \cup {MaxFloat})
        /\ driver_index' = driver_index /\ pc'[c] = "store"
    BY <1>1, <1>3 DEF IndInv, TypeOK, CasSucceeds
  <2>2. Len(winners') = Len(winners) + 1 /\ Newest' = Newest + 1 /\ Newest \in Nat
    BY <2>1 DEF Newest
  <2> QED
    BY <2>1, <2>2 DEF HolderFollows
<1>4. ASSUME NEW k \in seen[c]..Newest, CasFails(c, k) PROVE HolderFollows(c)'
  BY <1>1, <1>4 DEF HolderFollows, CasFails, Judge, Newest
<1>5. ASSUME StoreHolder(c) PROVE HolderFollows(c)'
  BY <1>1, <1>5 DEF HolderFollows, StoreHolder, Newest
<1>6. CASE UNCHANGED claimVars
  BY <1>6 DEF HolderFollows, Newest, claimVars
<1> QED
  BY <1>2, <1>3, <1>4, <1>5, <1>6 DEF Step

\* With one claiming thread the holder and the time are always of one lap:
\* what goes wrong between the two stores needs a second thread.
THEOREM OneClaimerKeepsHolder ==
    ASSUME NEW c, Claimers = {c}
    PROVE  Spec => []HolderOwnsBest
<1>1. Init => HolderFollows(c)
  BY DEF Init, HolderFollows, Newest
<1>2. IndInv /\ HolderFollows(c) /\ [Next]_claimVars => HolderFollows(c)'
  BY HolderKeeps DEF Next
<1>3. HolderFollows(c) => HolderOwnsBest
  BY DEF HolderFollows, HolderOwnsBest
<1> QED
  BY <1>1, <1>2, <1>3, Invariance, PTL DEF Spec

-----------------------------------------------------------------------------
(* LapPipeline: who claims *)

\* What a step of the program does to the fastest lap: a claim of the
\* consumer, of a frame that it has popped, or nothing.
LEMMA StepsOfTheClaims ==
    ASSUME [PipelineNext]_vars, put \in Seq(Frames)
    PROVE  \/ \E d \in Drivers, ms \in Times, k \in seen[Consumer]..Newest :
                 Claim(Consumer, d, ms, k)
           \/ Step(Consumer)
           \/ UNCHANGED claimVars
<1>1. CASE ConsumerPop
  <2> DEFINE f == put[Len(got) + 1]
  <2>1. Len(got) + 1 \in 1..Len(put) => f \in Frames
    OBVIOUS
  <2> QED
    BY <1>1, <2>1 DEF ConsumerPop, Queue!Take, Frames
<1>2. CASE ConsumerClaims
  BY <1>2 DEF ConsumerClaims
<1>3. CASE Generator \/ ConsumerSeesStop \/ ConsumerExit \/ Main
  BY <1>3 DEF Generator, GeneratorPush, GeneratorExit, ConsumerSeesStop, ConsumerExit, Main,
              MainStopsGenerator, MainStopsConsumer, MainReports
<1>4. CASE UNCHANGED vars
  BY <1>4 DEF vars
<1> QED
  BY <1>1, <1>2, <1>3, <1>4 DEF PipelineNext, LapTimeConsumer

-----------------------------------------------------------------------------
(* LapPipeline: what main reports *)

\* The frames taken from the queue are the first ones put.
QueueShape ==
    /\ put \in Seq(Frames) /\ got \in Seq(Frames) /\ visible \in Nat
    /\ Len(got) <= Len(put) /\ \A i \in 1..Len(got) : got[i] = put[i]

\* Each stop request finds the threads before it joined, and the drain comes
\* to an end with nothing left.
StopsInOrder ==
    /\ mpc \in {"race", "joinGenerator", "joinConsumer", "done"}
    /\ stopConsumer <=> mpc \in {"joinConsumer", "done"}
    /\ stopConsumer => gpc = "exited" /\ visible = Len(put)
    /\ cpc # "poll" => stopConsumer
    /\ cpc = "exited" => ~Claiming /\ Len(got) = Len(put)
    /\ mpc = "done" => cpc = "exited"

\* The lap of the claim in progress.
InHand ==
    IF Claiming THEN {[driver |-> driver_index[Consumer], ms |-> lap_ms[Consumer]]} ELSE {}

\* The laps claimed are those of the frames taken.
NoLap == [driver : Drivers, ms : {0}]
LapsOffered == offered \cup InHand = {put[i] : i \in 1..Len(got)} \ NoLap

\* What has won was driven.
WinnersDrove ==
    /\ winners[1] = NoDriver /\ fastest_lap_ms[1] = MaxFloat
    /\ \A k \in 2..Newest :
          [driver |-> winners[k], ms |-> fastest_lap_ms[k]] \in offered \cup InHand

\* The inductive invariant of the program, over that of the claims.
PipelineInv ==
    /\ QueueShape /\ StopsInOrder /\ LapsOffered /\ WinnersDrove
    /\ HolderFollows(Consumer) /\ ReportIsFastest

\* The program starts in the invariant.
LEMMA InitPipelineInv == PipelineInit => IndInv /\ PipelineInv
<1> SUFFICES ASSUME PipelineInit PROVE IndInv /\ PipelineInv
  OBVIOUS
<1>1. Init /\ put = <<>> /\ got = <<>>
  BY DEF PipelineInit, Queue!Init
<1>2. Newest = 1 /\ ~Claiming
  BY <1>1, ConsumerAssumption DEF Init, Newest, Claiming
<1>3. QueueShape /\ StopsInOrder /\ ReportIsFastest
  BY <1>1 DEF PipelineInit, QueueShape, StopsInOrder, ReportIsFastest
<1>4. LapsOffered /\ WinnersDrove
  BY <1>1, <1>2 DEF Init, LapsOffered, WinnersDrove, InHand
<1>5. HolderFollows(Consumer)
  BY <1>1, <1>2, ConsumerAssumption DEF Init, HolderFollows
<1> QED
  BY <1>1, <1>3, <1>4, <1>5, InitInv DEF PipelineInv

\* A claim that has begun goes on with the laps it had: what is returned was
\* in hand, and what wins is.
LEMMA StepKeepsLaps ==
    ASSUME IndInv, WinnersDrove, HolderFollows(Consumer), Step(Consumer)
    PROVE  offered' \cup InHand' = offered \cup InHand /\ WinnersDrove'
<1> DEFINE mine == [driver |-> driver_index[Consumer], ms |-> lap_ms[Consumer]]
<1>1. /\ Consumer \in Claimers /\ pc \in [Claimers -> {"idle", "cas", "store"}]
      /\ fastest_lap_ms \in Seq(Times \cup {MaxFloat}) /\ Newest \in Nat \ {0}
      /\ winners \in Seq(Drivers \cup {NoDriver}) /\ Len(winners) = Newest
  BY ConsumerAssumption DEF IndInv, TypeOK, SeenExists, Newest, HolderFollows
<1>2. driver_index'[Consumer] = driver_index[Consumer] /\ lap_ms'[Consumer] = lap_ms[Consumer]
  BY DEF Step, CasSucceeds, CasFails, StoreHolder
<1>3. pc[Consumer] # "idle" /\ InHand = {mine}
  BY DEF Step, CasSucceeds, CasFails, StoreHolder, InHand, Claiming
<1>4. \/ pc'[Consumer] # "idle" /\ offered' = offered
      \/ pc'[Consumer] = "idle" /\ offered' = offered \cup {mine}
  <2>1. CASE CasSucceeds(Consumer)
    BY <1>1, <2>1 DEF CasSucceeds
  <2>2. CASE \E k \in seen[Consumer]..Newest : CasFails(Consumer, k)
    BY <1>1, <2>2 DEF CasFails, Judge
  <2>3. CASE StoreHolder(Consumer)
    BY <1>1, <2>3 DEF StoreHolder
  <2> QED
    BY <2>1, <2>2, <2>3 DEF Step
<1>5. offered' \cup InHand' = offered \cup InHand
  BY <1>2, <1>3, <1>4 DEF InHand, Claiming
<1>6. WinnersDrove'
  <2>1. CASE CasSucceeds(Consumer)
    <3>1. /\ fastest_lap_ms' = Append(fastest_lap_ms, lap_ms[Consumer])
          /\ winners' = Append(winners, driver_index[Consumer])
      BY <2>1 DEF CasSucceeds
    <3>2. /\ Newest' = Newest + 1
          /\ fastest_lap_ms'[Newest + 1] = lap_ms[Consumer]
          /\ winners'[Newest + 1] = driver_index[Consumer]
          /\ \A k \in 1..Newest :
                fastest_lap_ms'[k] = fastest_lap_ms[k] /\ winners'[k] = winners[k]
      BY <1>1, <3>1 DEF Newest
    <3>3. ASSUME NEW k \in 2..(Newest + 1)
          PROVE  [driver |-> winners'[k], ms |-> fastest_lap_ms'[k]] \in offered \cup InHand
      <4>1. CASE k = Newest + 1
        BY <1>3, <3>2, <4>1
      <4>2. CASE k \in 2..Newest
        <5>1. k \in 1..Newest
          BY <1>1, <4>2
        <5> QED
          BY <3>2, <4>2, <5>1 DEF WinnersDrove
      <4> QED
        BY <1>1, <4>1, <4>2
    <3>4. winners'[1] = NoDriver /\ fastest_lap_ms'[1] = MaxFloat
      BY <1>1, <3>2 DEF WinnersDrove
    <3> QED
      BY <1>5, <3>2, <3>3, <3>4 DEF WinnersDrove
  <2>2. CASE ~CasSucceeds(Consumer)
    <3>1. UNCHANGED <<fastest_lap_ms, winners>>
      BY <2>2 DEF Step, CasFails, StoreHolder
    <3> QED
      BY <1>5, <3>1 DEF WinnersDrove, Newest
  <2> QED
    BY <2>1, <2>2
<1> QED
  BY <1>5, <1>6

\* Steps that leave the claims alone leave what is said of them alone.
LEMMA ClaimsAlone ==
    ASSUME UNCHANGED claimVars
    PROVE  /\ InHand' = InHand /\ Claiming' = Claiming
           /\ WinnersDrove => WinnersDrove'
  BY DEF claimVars, InHand, Claiming, WinnersDrove, Newest

\* A frame is put, or dropped.
LEMMA PushKeeps ==
    ASSUME PipelineInv, NEW f \in Frames, GeneratorPush(f)
    PROVE  QueueShape' /\ StopsInOrder' /\ LapsOffered' /\ ReportIsFastest'
<1>1. /\ gpc = "run" /\ UNCHANGED <<got, visible, gpc, cpc, mpc, stopConsumer, report, claimVars>>
      /\ (put' = Append(put, f) \/ put' = put)
  BY DEF GeneratorPush, Queue!Put, queueVars
<1>2. /\ put \in Seq(Frames) /\ got \in Seq(Frames) /\ Len(put) \in Nat /\ Len(got) \in Nat
      /\ Len(got) <= Len(put)
  BY DEF PipelineInv, QueueShape
<1>3. put' \in Seq(Frames) /\ Len(put') >= Len(put) /\ Len(put') \in Nat
      /\ \A i \in 1..Len(put) : put'[i] = put[i]
  <2>1. CASE put' = Append(put, f)
    <3>1. Append(put, f) \in Seq(Frames) /\ Len(Append(put, f)) = Len(put) + 1
      BY <1>2
    <3>2. \A i \in 1..Len(put) : Append(put, f)[i] = put[i]
      BY <1>2
    <3> QED
      BY <1>2, <2>1, <3>1, <3>2
  <2>2. CASE put' = put
    BY <1>2, <2>2
  <2> QED
    BY <1>1, <2>1, <2>2
<1>4. QueueShape'
  BY <1>1, <1>2, <1>3 DEF PipelineInv, QueueShape
<1>5. mpc \notin {"joinConsumer", "done"} /\ ~stopConsumer /\ cpc = "poll"
  BY <1>1 DEF PipelineInv, StopsInOrder
<1>6. StopsInOrder' /\ ReportIsFastest'
  BY <1>1, <1>5 DEF PipelineInv, StopsInOrder, ReportIsFastest
<1>7. LapsOffered'
  <2>1. {put'[i] : i \in 1..Len(got)} = {put[i] : i \in 1..Len(got)}
    BY <1>2, <1>3
  <2>2. offered' \cup InHand' = offered \cup InHand
    BY <1>1, ClaimsAlone DEF claimVars
  <2> QED
    BY <1>1, <2>1, <2>2 DEF PipelineInv, LapsOffered
<1> QED
  BY <1>4, <1>6, <1>7

\* A frame is taken; the lap it completed, if any, is claimed.
LEMMA PopKeeps ==
    ASSUME IndInv, PipelineInv, ConsumerPop
    PROVE  QueueShape' /\ StopsInOrder' /\ LapsOffered' /\ WinnersDrove' /\ ReportIsFastest'
<1> DEFINE f == put[Len(got) + 1]
<1>1. /\ Len(got) < Len(put) /\ got' = Append(got, f) /\ put' = put
      /\ cpc \in {"poll", "drain"} /\ ~Claiming
      /\ UNCHANGED <<visible, gpc, cpc, mpc, stopConsumer, report>>
  BY DEF ConsumerPop, Queue!Take
<1>2. /\ put \in Seq(Frames) /\ got \in Seq(Frames) /\ Len(put) \in Nat /\ Len(got) \in Nat
      /\ Len(got) <= Len(put)
  BY DEF PipelineInv, QueueShape
<1>3. f \in Frames /\ Len(got') = Len(got) + 1
  BY <1>1, <1>2
<1>4. QueueShape'
  <2>1. got' \in Seq(Frames) /\ got'[Len(got) + 1] = f /\ \A i \in 1..Len(got) : got'[i] = got[i]
    BY <1>1, <1>2, <1>3
  <2>2. ASSUME NEW i \in 1..(Len(got) + 1) PROVE got'[i] = put[i]
    BY <1>2, <2>1 DEF PipelineInv, QueueShape
  <2> QED
    BY <1>1, <1>2, <1>3, <2>1, <2>2 DEF PipelineInv, QueueShape
<1>5. StopsInOrder' /\ ReportIsFastest'
  BY <1>1 DEF PipelineInv, StopsInOrder, ReportIsFastest
<1>6. {put'[i] : i \in 1..Len(got')} = {put[i] : i \in 1..Len(got)} \cup {f}
  <2>1. 1..(Len(got) + 1) = (1..Len(got)) \cup {Len(got) + 1}
    BY <1>2
  <2> QED
    BY <1>1, <1>3, <2>1
<1>7. offered = {put[i] : i \in 1..Len(got)} \ NoLap /\ InHand = {}
  BY <1>1 DEF PipelineInv, LapsOffered, InHand
<1>8. CASE f.ms > 0
  <2>1. PICK k \in seen[Consumer]..Newest : Claim(Consumer, f.driver, f.ms, k)
    BY <1>8 DEF ConsumerPop
  <2>2. f \notin NoLap /\ f = [driver |-> f.driver, ms |-> f.ms]
    BY <1>3, <1>8 DEF NoLap, Frames
  <2>3. /\ driver_index'[Consumer] = f.driver /\ lap_ms'[Consumer] = f.ms
        /\ UNCHANGED <<fastest_lap_ms, winners>>
        /\ \/ pc'[Consumer] = "cas" /\ offered' = offered
           \/ pc'[Consumer] = "idle" /\ offered' = offered \cup {f}
    BY <2>1, <2>2, ConsumerAssumption DEF Claim, Judge, IndInv, TypeOK
  <2>4. offered' \cup InHand' = offered \cup {f}
    BY <2>2, <2>3 DEF InHand, Claiming
  <2>5. LapsOffered'
    BY <1>6, <1>7, <2>2, <2>4 DEF LapsOffered
  <2>6. WinnersDrove'
    BY <1>7, <2>3, <2>4 DEF PipelineInv, WinnersDrove, Newest
  <2> QED
    BY <1>4, <1>5, <2>5, <2>6
<1>9. CASE ~(f.ms > 0)
  <2>1. f \in NoLap
    <3>1. f.driver \in Drivers /\ f.ms \in {0} \cup Times /\ f = [driver |-> f.driver, ms |-> f.ms]
      BY <1>3 DEF Frames
    <3>2. f.ms = 0
      BY <1>9, <3>1, TimesAreNumbers
    <3> QED
      BY <3>1, <3>2 DEF NoLap
  <2>2. UNCHANGED claimVars
    BY <1>9 DEF ConsumerPop
  <2>3. offered' \cup InHand' = offered \cup InHand
    BY <2>2, ClaimsAlone DEF claimVars
  <2>4. LapsOffered'
    BY <1>6, <1>7, <2>1, <2>3 DEF LapsOffered
  <2> QED
    BY <1>4, <1>5, <2>2, <2>4, ClaimsAlone DEF PipelineInv
<1> QED
  BY <1>8, <1>9

\* With all frames taken and no claim in progress, what main reads is the
\* fastest of them.
LEMMA ReportOfAll ==
    ASSUME IndInv, PipelineInv, ~Claiming, Len(got) = Len(put)
    PROVE  IsFastest(IF fastest_lap_holder = NoDriver THEN NoReport
                     ELSE [driver |-> fastest_lap_holder, ms |-> Best], put)
<1>1. Consumer \in Claimers /\ put \in Seq(Frames) /\ Newest \in Nat \ {0}
  BY ConsumerAssumption DEF PipelineInv, QueueShape, IndInv, SeenExists, Newest
<1>2. offered = {put[i] : i \in DOMAIN put} \ NoLap
  <2>1. DOMAIN put = 1..Len(got)
    BY <1>1
  <2>2. offered \cup InHand = offered
    BY DEF InHand
  <2> QED
    BY <2>1, <2>2 DEF PipelineInv, LapsOffered
<1>3. fastest_lap_holder = winners[Newest]
  BY <1>1 DEF PipelineInv, HolderFollows, Claiming
<1>4. \A c \in offered : Best <= c.ms /\ c.ms \in Times
  BY DEF IndInv, TypeOK, NoFasterLapLost
<1>5. CASE Newest = 1
  <2>1. fastest_lap_holder = NoDriver /\ Best = MaxFloat
    BY <1>3, <1>5 DEF PipelineInv, WinnersDrove, Best
  <2>2. offered = {}
    <3>1. ASSUME NEW c \in offered PROVE FALSE
      <4>1. MaxFloat <= c.ms /\ c.ms < MaxFloat /\ c.ms \in Nat /\ MaxFloat \in Nat
        BY <1>4, <2>1, TimesAssumption
      <4> QED
        BY <4>1
    <3> QED
      BY <3>1
  <2> QED
    BY <1>2, <2>1, <2>2 DEF IsFastest, NoLap
<1>6. CASE Newest # 1
  <2> DEFINE r == [driver |-> winners[Newest], ms |-> Best]
  <2>1. r \in offered
    <3>1. Newest \in 2..Newest
      BY <1>1, <1>6
    <3> QED
      BY <3>1 DEF PipelineInv, WinnersDrove, InHand, Best
  <2>2. fastest_lap_holder # NoDriver
    <3>1. r.driver \in Drivers
      BY <2>1 DEF IndInv, TypeOK
    <3> QED
      BY <1>3, <3>1, DriversAssumption
  <2>3. \A c \in offered : r.ms <= c.ms
    BY <1>4
  <2> QED
    BY <1>2, <1>3, <2>1, <2>2, <2>3 DEF IsFastest, NoLap
<1> QED
  BY <1>5, <1>6

\* The steps that put and claim nothing: the exits, the stop requests and the
\* joins.
LEMMA StopsKeep ==
    ASSUME IndInv, PipelineInv,
           \/ GeneratorExit \/ ConsumerSeesStop \/ ConsumerExit
           \/ MainStopsGenerator \/ MainStopsConsumer \/ MainReports
    PROVE  QueueShape' /\ StopsInOrder' /\ LapsOffered' /\ WinnersDrove' /\ ReportIsFastest'
<1>1. UNCHANGED <<put, got, claimVars>>
  BY DEF GeneratorExit, ConsumerSeesStop, ConsumerExit, MainStopsGenerator, MainStopsConsumer,
         MainReports, queueVars
<1>2. LapsOffered' /\ WinnersDrove'
  <2>1. offered' = offered /\ InHand' = InHand /\ WinnersDrove'
    BY <1>1, ClaimsAlone DEF PipelineInv, claimVars
  <2> QED
    BY <1>1, <2>1 DEF PipelineInv, LapsOffered
<1>3. Claiming' = Claiming
  BY <1>1, ClaimsAlone
<1>4. put \in Seq(Frames) /\ Len(put) \in Nat /\ Len(got) \in Nat /\ Len(got) <= Len(put)
  BY DEF PipelineInv, QueueShape
<1>5. CASE GeneratorExit \/ ConsumerSeesStop \/ ConsumerExit \/ MainStopsGenerator
  <2>1. QueueShape'
    BY <1>1, <1>5 DEF GeneratorExit, ConsumerSeesStop, ConsumerExit, MainStopsGenerator,
                      PipelineInv, QueueShape
  <2>2. StopsInOrder'
    BY <1>1, <1>3, <1>4, <1>5 DEF GeneratorExit, ConsumerSeesStop, ConsumerExit, MainStopsGenerator,
                      AfterPolling, PipelineInv, StopsInOrder
  <2>3. ReportIsFastest'
    BY <1>1, <1>5 DEF GeneratorExit, ConsumerSeesStop, ConsumerExit, MainStopsGenerator,
                      PipelineInv, ReportIsFastest
  <2> QED
    BY <1>2, <2>1, <2>2, <2>3
<1>6. CASE MainStopsConsumer
  <2>1. QueueShape' /\ StopsInOrder' /\ ReportIsFastest'
    BY <1>1, <1>3, <1>4, <1>6 DEF MainStopsConsumer, PipelineInv, QueueShape, StopsInOrder,
                                  ReportIsFastest
  <2> QED
    BY <1>2, <2>1
<1>7. CASE MainReports
  <2>1. QueueShape' /\ StopsInOrder'
    BY <1>1, <1>3, <1>7 DEF MainReports, ConsumerJoined, PipelineInv, QueueShape, StopsInOrder
  <2>2. ~Claiming /\ Len(got) = Len(put)
    BY <1>7 DEF MainReports, ConsumerJoined, PipelineInv, StopsInOrder
  <2>3. ReportIsFastest'
    BY <1>1, <1>7, <2>2, ReportOfAll DEF MainReports, ReportIsFastest
  <2> QED
    BY <1>2, <2>1, <2>3
<1> QED
  BY <1>5, <1>6, <1>7

\* The inductive invariant of the program holds throughout.
THEOREM PipelineInvariance == PipelineSpec => [](IndInv /\ PipelineInv)
<1>1. ASSUME IndInv, PipelineInv, [PipelineNext]_vars PROVE IndInv' /\ PipelineInv'
  <2>1. \/ \E d \in Drivers, ms \in Times, k \in seen[Consumer]..Newest :
               Claim(Consumer, d, ms, k)
        \/ Step(Consumer)
        \/ UNCHANGED claimVars
    BY <1>1, StepsOfTheClaims DEF PipelineInv, QueueShape
  <2>2. IndInv'
    BY <1>1, <2>1, NextKeeps, ConsumerAssumption DEF Next
  <2>3. HolderFollows(Consumer)'
    BY <1>1, <2>1, HolderKeeps, ConsumerAssumption DEF PipelineInv
  <2>4. QueueShape' /\ StopsInOrder' /\ LapsOffered' /\ WinnersDrove' /\ ReportIsFastest'
    <3>1. ASSUME NEW f \in Frames, GeneratorPush(f) PROVE WinnersDrove'
      BY <1>1, <3>1, ClaimsAlone DEF GeneratorPush, PipelineInv
    <3>2. CASE ConsumerClaims
      <4>1. Claiming /\ UNCHANGED <<put, got, visible, gpc, cpc, mpc, stopConsumer, report>>
        BY <3>2 DEF ConsumerClaims, Claiming, Step, CasSucceeds, CasFails, StoreHolder, queueVars
      <4>2. offered' \cup InHand' = offered \cup InHand /\ WinnersDrove'
        BY <1>1, <3>2, StepKeepsLaps DEF ConsumerClaims, PipelineInv
      <4>3. QueueShape' /\ StopsInOrder' /\ ReportIsFastest'
        BY <1>1, <4>1 DEF PipelineInv, QueueShape, StopsInOrder, ReportIsFastest
      <4> QED
        BY <1>1, <4>1, <4>2, <4>3 DEF PipelineInv, LapsOffered
    <3>3. CASE UNCHANGED vars
      <4>1. UNCHANGED <<put, got, visible, gpc, cpc, mpc, stopConsumer, report, claimVars>>
        BY <3>3 DEF vars, queueVars
      <4>2. InHand' = InHand /\ Claiming' = Claiming /\ WinnersDrove' /\ offered' = offered
        BY <1>1, <4>1, ClaimsAlone DEF PipelineInv, claimVars
      <4> QED
        BY <1>1, <4>1, <4>2 DEF PipelineInv, QueueShape, StopsInOrder, LapsOffered, ReportIsFastest
    <3> QED
      BY <1>1, <3>1, <3>2, <3>3, PushKeeps, PopKeeps, StopsKeep
         DEF PipelineNext, Generator, LapTimeConsumer, Main
  <2> QED
    BY <2>2, <2>3, <2>4 DEF PipelineInv
<1> QED
  BY <1>1, InitPipelineInv, PTL DEF PipelineSpec

\* The driver and the time that main prints belong together and are the fastest
\* lap of all the frames that reached the queue.
THEOREM FastestReported == PipelineSpec => []ReportIsFastest
<1>1. PipelineInv => ReportIsFastest
  BY DEF PipelineInv
<1> QED
  BY <1>1, PipelineInvariance, PTL

\* The consumer does not exit before it has popped every frame.
THEOREM DrainedAll == PipelineSpec => []NothingLeftBehind
<1>1. PipelineInv => NothingLeftBehind
  <2> SUFFICES ASSUME PipelineInv, cpc = "exited" PROVE got = put
    BY DEF NothingLeftBehind
  <2>1. put \in Seq(Frames) /\ got \in Seq(Frames) /\ Len(got) = Len(put)
        /\ \A i \in 1..Len(got) : got[i] = put[i]
    BY DEF PipelineInv, QueueShape, StopsInOrder
  <2> QED
    BY <2>1
<1> QED
  BY <1>1, PipelineInvariance, PTL

\* The program does to the queue what Fifo allows, and to the fastest lap what
\* FastestLap allows: what is proved of the parts holds in the program.
THEOREM UsesTheParts == PipelineSpec => Queue!Spec /\ Spec
<1>1. PipelineInit => Queue!Init /\ Init
  BY DEF PipelineInit
<1>2. ASSUME IndInv, PipelineInv, [PipelineNext]_vars
      PROVE  [Queue!Next]_(Queue!vars) /\ [Next]_claimVars
  <2>1. [Next]_claimVars
    BY <1>2, StepsOfTheClaims, ConsumerAssumption DEF PipelineInv, QueueShape, Next
  <2>2. [Queue!Next]_(Queue!vars)
    <3>1. ASSUME NEW f \in Frames, GeneratorPush(f) PROVE [Queue!Next]_(Queue!vars)
      BY <3>1 DEF GeneratorPush, Queue!Next, Queue!vars, queueVars
    <3>2. CASE ConsumerPop
      BY <3>2 DEF ConsumerPop, Queue!Next
    <3>3. CASE UNCHANGED queueVars
      BY <3>3 DEF Queue!vars, queueVars
    <3>4. CASE GeneratorExit \/ ConsumerSeesStop \/ ConsumerClaims \/ ConsumerExit \/ Main \/ UNCHANGED vars
      <4>1. UNCHANGED queueVars
        BY <3>4 DEF GeneratorExit, ConsumerSeesStop, ConsumerClaims, ConsumerExit, Main,
                    MainStopsGenerator, MainStopsConsumer, MainReports, vars
      <4> QED
        BY <3>3, <4>1
    <3> QED
      BY <1>2, <3>1, <3>2, <3>4 DEF PipelineNext, Generator, LapTimeConsumer
  <2> QED
    BY <2>1, <2>2
<1> QED
  BY <1>1, <1>2, PipelineInvariance, PTL DEF PipelineSpec, Queue!Spec, Spec
=============================================================================
