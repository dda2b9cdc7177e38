----------------------------- MODULE FastestLap -----------------------------
(***************************************************************************)
(* RaceState::try_claim_fastest_lap of common/race_state.h: threads that   *)
(* race to record a lap time, with a load, a weak compare-and-exchange in  *)
(* a loop, and then a separate store of the driver.                        *)
(*                                                                         *)
(* fastest_lap_ms is the modification order of that atomic: entry k is the *)
(* k-th value stored.  A load, and a failed compare-and-exchange, may      *)
(* return any entry not older than one its thread has seen; a successful   *)
(* one reads the newest.                                                   *)
(***************************************************************************)
EXTENDS Naturals, Sequences, FiniteSets

CONSTANTS
    Claimers,       \* threads that call try_claim_fastest_lap
    Drivers,        \* indices into DRIVERS
    NoDriver,       \* -1, "no fastest lap set yet"
    Times,          \* lap times in ms, as ranks
    MaxFloat,       \* numeric_limits<float>::max()
    MaxClaims       \* bound of the model: claims by each thread

ASSUME TimesAssumption ==
    /\ Times \subseteq Nat
    /\ MaxFloat \in Nat
    /\ \A t \in Times : t < MaxFloat

ASSUME DriversAssumption == NoDriver \notin Drivers
ASSUME ClaimsAssumption == MaxClaims \in Nat

VARIABLES
    fastest_lap_ms,         \* modification order
    fastest_lap_holder,
    pc,                     \* claimer -> where it is in try_claim_fastest_lap
    driver_index,           \* claimer -> first argument
    lap_ms,                 \* claimer -> second argument
    current_best,           \* claimer -> the value it last loaded
    seen,                   \* claimer -> the newest entry it has seen
    claims,                 \* claimer -> how many claims it has begun
    winners,                \* history: the driver whose claim stored entry k
    offered                 \* history: the claims that have returned

claimVars == <<fastest_lap_ms, fastest_lap_holder, pc, driver_index, lap_ms,
          current_best, seen, claims, winners, offered>>

Newest == Len(fastest_lap_ms)
Best == fastest_lap_ms[Newest]

Init ==
    /\ fastest_lap_ms = <<MaxFloat>>
    /\ fastest_lap_holder = NoDriver
    /\ pc = [t \in Claimers |-> "idle"]
    /\ driver_index = [t \in Claimers |-> NoDriver]
    /\ lap_ms = [t \in Claimers |-> MaxFloat]
    /\ current_best = [t \in Claimers |-> MaxFloat]
    /\ seen = [t \in Claimers |-> 1]
    /\ claims = [t \in Claimers |-> 0]
    /\ winners = <<NoDriver>>
    /\ offered = {}

\* Thread t has loaded entry k with lap time ms in hand: go on to the
\* compare-and-exchange if that is faster, or return false.
Judge(t, d, ms, k) ==
    /\ seen' = [seen EXCEPT ![t] = k]
    /\ current_best' = [current_best EXCEPT ![t] = fastest_lap_ms[k]]
    /\ IF ms < fastest_lap_ms[k]
       THEN pc' = [pc EXCEPT ![t] = "cas"] /\ UNCHANGED offered
       ELSE /\ pc' = [pc EXCEPT ![t] = "idle"]
            /\ offered' = offered \cup {[driver |-> d, ms |-> ms]}

\* The call, with the acquire load of entry k.
Claim(t, d, ms, k) ==
    /\ pc[t] = "idle"
    /\ claims[t] < MaxClaims
    /\ claims' = [claims EXCEPT ![t] = @ + 1]
    /\ driver_index' = [driver_index EXCEPT ![t] = d]
    /\ lap_ms' = [lap_ms EXCEPT ![t] = ms]
    /\ Judge(t, d, ms, k)
    /\ UNCHANGED <<fastest_lap_ms, fastest_lap_holder, winners>>

\* Mutant of CasSucceeds: a plain store, whatever the newest value is.
StoresBlindly(t) ==
    /\ pc[t] = "cas"
    /\ fastest_lap_ms' = Append(fastest_lap_ms, lap_ms[t])
    /\ winners' = Append(winners, driver_index[t])
    /\ seen' = [seen EXCEPT ![t] = Newest + 1]
    /\ pc' = [pc EXCEPT ![t] = "store"]
    /\ UNCHANGED <<fastest_lap_holder, driver_index, lap_ms, current_best, claims,
                   offered>>

\* compare_exchange_weak succeeds: the newest value is the one expected.
CasSucceeds(t) ==
    /\ pc[t] = "cas"
    /\ Best = current_best[t]
    /\ fastest_lap_ms' = Append(fastest_lap_ms, lap_ms[t])
    /\ winners' = Append(winners, driver_index[t])
    /\ seen' = [seen EXCEPT ![t] = Newest + 1]
    /\ pc' = [pc EXCEPT ![t] = "store"]
    /\ UNCHANGED <<fastest_lap_holder, driver_index, lap_ms, current_best, claims,
                   offered>>

\* Mutant of CasFails: an if in place of the loop.
CasGivesUp(t, k) ==
    /\ pc[t] = "cas"
    /\ seen' = [seen EXCEPT ![t] = k]
    /\ offered' = offered \cup {[driver |-> driver_index[t], ms |-> lap_ms[t]]}
    /\ pc' = [pc EXCEPT ![t] = "idle"]
    /\ UNCHANGED <<fastest_lap_ms, fastest_lap_holder, driver_index, lap_ms,
                   current_best, claims, winners>>

\* It fails, because the value is another one or for no reason, and loads
\* entry k into current_best; the loop tests it again.
CasFails(t, k) ==
    /\ pc[t] = "cas"
    /\ Judge(t, driver_index[t], lap_ms[t], k)
    /\ UNCHANGED <<fastest_lap_ms, fastest_lap_holder, driver_index, lap_ms, claims,
                   winners>>

\* Mutant of StoreHolder: the arguments are mixed up.
StoresTime(t) ==
    /\ pc[t] = "store"
    /\ fastest_lap_holder' = lap_ms[t]
    /\ offered' = offered \cup {[driver |-> driver_index[t], ms |-> lap_ms[t]]}
    /\ pc' = [pc EXCEPT ![t] = "idle"]
    /\ UNCHANGED <<fastest_lap_ms, driver_index, lap_ms, current_best, seen, claims,
                   winners>>

\* fastest_lap_holder.store, then return true.
StoreHolder(t) ==
    /\ pc[t] = "store"
    /\ fastest_lap_holder' = driver_index[t]
    /\ offered' = offered \cup {[driver |-> driver_index[t], ms |-> lap_ms[t]]}
    /\ pc' = [pc EXCEPT ![t] = "idle"]
    /\ UNCHANGED <<fastest_lap_ms, driver_index, lap_ms, current_best, seen, claims,
                   winners>>

Step(t) ==
    \/ CasSucceeds(t)
    \/ \E k \in seen[t]..Newest : CasFails(t, k)
    \/ StoreHolder(t)

Next ==
    \E t \in Claimers :
        \/ \E d \in Drivers, ms \in Times, k \in seen[t]..Newest : Claim(t, d, ms, k)
        \/ Step(t)

Spec == Init /\ [][Next]_claimVars

-----------------------------------------------------------------------------
(* Properties *)

\* Every variable has its type.
TypeOK ==
    /\ fastest_lap_ms \in Seq(Times \cup {MaxFloat})
    /\ fastest_lap_holder \in Drivers \cup {NoDriver}
    /\ pc \in [Claimers -> {"idle", "cas", "store"}]
    /\ driver_index \in [Claimers -> Drivers \cup {NoDriver}]
    /\ lap_ms \in [Claimers -> Times \cup {MaxFloat}]
    /\ current_best \in [Claimers -> Times \cup {MaxFloat}]
    /\ seen \in [Claimers -> Nat]
    /\ claims \in [Claimers -> 0..MaxClaims]
    /\ winners \in Seq(Drivers \cup {NoDriver})
    /\ offered \subseteq [driver : Drivers, ms : Times]

\* Every claim that wins is strictly faster than all that won before, so of
\* claims of one time at most one wins, whatever stale values were loaded.
WinsStrictlyImprove ==
    \A i, j \in 1..Newest : i < j => fastest_lap_ms[j] < fastest_lap_ms[i]

\* No claim that has returned is faster than the recorded time: none was
\* turned away by a value it should have beaten, or overwritten.
NoFasterLapLost == \A c \in offered : Best <= c.ms

\* When no claim is in progress the recorded holder is the driver who drove
\* the recorded time.
HolderOwnsBest ==
    (\A t \in Claimers : pc[t] = "idle") => fastest_lap_holder = winners[Newest]
=============================================================================
