--------------------------- MODULE PenaltyEnforcer ---------------------------
(***************************************************************************)
(* PenaltyEnforcer of race_control/penalty_enforcer.{h,cpp}: the single    *)
(* consumer of the race control queue, which counts track limit warnings   *)
(* and moves a driver NONE -> PENDING on the third, and the two calls that *)
(* move it on to SERVING and SERVED when the driver pits.                  *)
(*                                                                         *)
(* process_events() runs in one thread, other threads push events and call *)
(* driver_entered_pits() and driver_exited_pits() between any two steps of *)
(* it.  The queue is the MpscFifo that MpscQueue implements.  An event is  *)
(* its type and its driver; SOMETHING_ELSE stands for the six types that   *)
(* the enforcer neither counts nor pushes.                                 *)
(***************************************************************************)
EXTENDS Naturals, Sequences, FiniteSets

CONSTANTS
    Drivers,        \* the ids in DRIVERS
    Strangers,      \* other ids an event can carry, for one that of no driver
    Pushers,        \* how many threads push events
    MaxEvents       \* bound of the model: events pushed by them

ASSUME DriversAssumption == Drivers \cap Strangers = {}
ASSUME BoundsAssumption == Pushers \in Nat /\ MaxEvents \in Nat

Ids == Drivers \cup Strangers
Types == {"TRACK_LIMITS", "PENALTY_ISSUED", "SOMETHING_ELSE"}
Events == [type : Types, driver_id : Ids]

TrackLimits(id) == [type |-> "TRACK_LIMITS", driver_id |-> id]

\* Mutant of PenaltyIssued: the driver is not copied.
PenaltyUnnamed(id) == [type |-> "PENALTY_ISSUED"]
PenaltyIssued(id) == [type |-> "PENALTY_ISSUED", driver_id |-> id]

VARIABLES
    put, got, midflight,    \* the queue
    pc,                     \* where process_events is
    batch,                  \* the events popped and not yet processed
    idx,                    \* the driver being penalised
    warnings_,              \* driver -> warnings
    states_,                \* driver -> penalty state
    extra_pit_time_,        \* driver -> extra ticks
    announced               \* history: the positions in put of the events
                            \* that this call of process_events has pushed

queueVars == <<put, got, midflight>>
callVars == <<pc, batch, idx, announced>>
driverVars == <<warnings_, states_, extra_pit_time_>>
vars == <<queueVars, callVars, driverVars>>

Queue == INSTANCE MpscFifo WITH Items <- Events

Init ==
    /\ Queue!Init
    /\ pc = "idle" /\ batch = <<>> /\ announced = {}
    /\ idx \in Ids
    /\ warnings_ = [d \in Drivers |-> 0]
    /\ states_ = [d \in Drivers |-> "NONE"]
    /\ extra_pit_time_ = [d \in Drivers |-> 0]

-----------------------------------------------------------------------------
(* process_events *)

ProcessEvents ==
    /\ pc = "idle"
    /\ pc' = "drain"
    /\ batch' = <<>> /\ announced' = {}
    /\ UNCHANGED <<queueVars, idx, driverVars>>

\* A pop returns an event.
DrainPop ==
    /\ pc = "drain"
    /\ Queue!Take
    /\ batch' = Append(batch, put[Len(got) + 1])
    /\ UNCHANGED <<pc, idx, announced, driverVars>>

\* The positions of the events this thread has pushed itself.
Own == {i \in DOMAIN put : put[i].type = "PENALTY_ISSUED"}

\* A pop returns false and ends the loop: the queue is empty, or a push is
\* mid-flight, or the link it has stored is not visible to this thread yet.
\* The links behind the positions in certain happen-before the pop.
DrainEnd(certain) ==
    /\ pc = "drain"
    /\ Len(got) + 1 \notin certain
    /\ pc' = "process"
    /\ UNCHANGED <<queueVars, batch, idx, announced, driverVars>>

IsWarning(e) == e.type = "TRACK_LIMITS" /\ e.driver_id \in Drivers

\* What continue leaves of the batch.  In its mutant it is a break.
BreakOff(events) == <<>>
Continue(events) == Tail(events)

\* Not a track limit event, or not of a driver: continue.
Skip ==
    /\ pc = "process" /\ batch # <<>>
    /\ ~IsWarning(Head(batch))
    /\ batch' = Continue(batch)
    /\ UNCHANGED <<queueVars, pc, idx, announced, driverVars>>

\* The warning that brings the penalty; its mutants are one off.
OneTooMany(count) == count = 4
OneTooFew(count) == count = 2
Third(count) == count = 3

\* fetch_add; the third warning goes on to the compare-and-exchange.
Count ==
    /\ pc = "process" /\ batch # <<>>
    /\ IsWarning(Head(batch))
    /\ LET d == Head(batch).driver_id IN
          /\ idx' = d
          /\ warnings_' = [warnings_ EXCEPT ![d] = @ + 1]
          /\ pc' = IF Third(warnings_'[d]) THEN "cas" ELSE "process"
    /\ batch' = Tail(batch)
    /\ UNCHANGED <<queueVars, announced, states_, extra_pit_time_>>

\* compare_exchange_strong(NONE, PENDING).
Penalise ==
    /\ pc = "cas"
    /\ IF states_[idx] = "NONE"
       THEN /\ states_' = [states_ EXCEPT ![idx] = "PENDING"]
            /\ pc' = "push"
       ELSE /\ pc' = "process"
            /\ UNCHANGED states_
    /\ UNCHANGED <<queueVars, batch, idx, announced, warnings_, extra_pit_time_>>

\* events_.push of PENALTY_ISSUED, in its two steps.
Announce ==
    /\ pc = "push"
    /\ Queue!Exchange(PenaltyIssued(idx))
    /\ announced' = announced \cup {Len(put')}
    /\ pc' = "link"
    /\ UNCHANGED <<batch, idx, driverVars>>

AnnounceLink ==
    /\ pc = "link"
    /\ \E i \in announced : Queue!Link(i)
    /\ pc' = "extra"
    /\ UNCHANGED <<batch, idx, announced, driverVars>>

AddPitTime ==
    /\ pc = "extra"
    /\ extra_pit_time_' = [extra_pit_time_ EXCEPT ![idx] = 3]
    /\ pc' = "process"
    /\ UNCHANGED <<queueVars, batch, idx, announced, warnings_, states_>>

\* Where the loop over the batch leads.  The mutant is a single loop that
\* pops until the queue is empty.
OnToTheRest == IF Len(got) < Len(put) THEN "drain" ELSE "idle"
Out == "idle"

\* The batch is processed.
Return ==
    /\ pc = "process" /\ batch = <<>>
    /\ pc' = Out
    /\ UNCHANGED <<queueVars, batch, idx, announced, driverVars>>

ProcessStep ==
    \/ Skip \/ Count \/ Penalise
    \/ Announce \/ AnnounceLink \/ AddPitTime \/ Return

-----------------------------------------------------------------------------
(* the other threads *)

\* driver_entered_pits: compare_exchange_strong(PENDING, SERVING).
driver_entered_pits(d) ==
    /\ states_[d] = "PENDING"
    /\ states_' = [states_ EXCEPT ![d] = "SERVING"]
    /\ UNCHANGED <<queueVars, callVars, warnings_, extra_pit_time_>>

\* driver_exited_pits: compare_exchange_strong(SERVING, SERVED).
driver_exited_pits(d) ==
    /\ states_[d] = "SERVING"
    /\ states_' = [states_ EXCEPT ![d] = "SERVED"]
    /\ UNCHANGED <<queueVars, callVars, warnings_, extra_pit_time_>>

\* The positions the other threads are pushing at.
Foreign == midflight \ Own

\* Another thread begins, and completes, the push of an event.
PushBegin(e) ==
    /\ e.type # "PENALTY_ISSUED"
    /\ Cardinality(Foreign) < Pushers
    /\ Cardinality(DOMAIN put \ Own) < MaxEvents
    /\ Queue!Exchange(e)
    /\ UNCHANGED <<callVars, driverVars>>

PushEnd ==
    /\ \E i \in Foreign : Queue!Link(i)
    /\ UNCHANGED <<callVars, driverVars>>

Next ==
    \/ ProcessEvents \/ DrainPop \/ DrainEnd(Own) \/ ProcessStep
    \/ \E d \in Drivers : driver_entered_pits(d) \/ driver_exited_pits(d)
    \/ \E e \in Events : PushBegin(e)
    \/ PushEnd

Spec == Init /\ [][Next]_vars

\* process_events is called again and again and runs on, pushes complete,
\* and a link that is stored becomes visible to the pops.
Fairness ==
    /\ WF_vars(ProcessEvents) /\ WF_vars(DrainEnd(Own) \/ ProcessStep) /\ SF_vars(DrainPop)
    /\ WF_vars(PushEnd)

FairSpec == Spec /\ Fairness

-----------------------------------------------------------------------------
(* Properties *)

\* Every variable has its type.
TypeOK ==
    /\ put \in Seq(Events) /\ got \in Seq(Events)
    /\ midflight \subseteq DOMAIN put
    /\ pc \in {"idle", "drain", "process", "cas", "push", "link", "extra"}
    /\ batch \in Seq(Events)
    /\ idx \in Ids
    /\ warnings_ \in [Drivers -> Nat]
    /\ states_ \in [Drivers -> {"NONE", "PENDING", "SERVING", "SERVED"}]
    /\ extra_pit_time_ \in [Drivers -> {0, 3}]
    /\ announced \subseteq DOMAIN put

\* How many of the first n events are e.
Occurrences(e, n) == Cardinality({i \in 1..n : put[i] = e})

\* Every event taken off the queue is counted once, also when the batch ends
\* at a push that is mid-flight: a driver's warnings are the track limit
\* events processed so far, and no event is lost between two calls.
WarningsCounted ==
    \A d \in Drivers :
        warnings_[d] = Occurrences(TrackLimits(d), Len(got) - Len(batch))

\* A driver with three warnings or more is penalised and announced exactly
\* once, others never, whatever happens to the penalty meanwhile: between
\* two calls a driver has a penalty just if it has three warnings, and then
\* one PENALTY_ISSUED event.
OnePenaltyEach ==
    \A d \in Drivers :
        LET issued == Occurrences(PenaltyIssued(d), Len(put)) IN
        /\ issued <= 1
        /\ pc = "idle" =>
              /\ states_[d] # "NONE" <=> warnings_[d] >= 3
              /\ issued = 1 <=> warnings_[d] >= 3

\* "Anything we push during processing is left in the queue for the NEXT
\* call/consumer": no call pops its own announcement.
OwnAnnouncementsWait == \A i \in announced : pc # "idle" => i > Len(got)

\* Track limit events reach the driver in the end: with three of them the
\* penalty is issued, though pops give up at pushes that are mid-flight.
ThirdWarningPenalises ==
    \A d \in Drivers :
        Occurrences(TrackLimits(d), Len(put)) >= 3 ~> states_[d] # "NONE"
=============================================================================
