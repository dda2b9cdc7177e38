------------------------ MODULE PenaltyEnforcerProofs -----------------------
(***************************************************************************)
(* For any drivers, pushing threads and number of events: every warning is *)
(* counted once, a driver has one penalty from the third on, announced     *)
(* once, and no call of process_events pops what it has announced.         *)
(***************************************************************************)
EXTENDS PenaltyEnforcer, FiniteSetTheorems, TLAPS

\* The steps of process_events at which it has a driver in hand.
Penalising == {"cas", "push", "link", "extra"}

\* The batch is the end of what has been popped; between two calls there is
\* none.
BatchIsPopped ==
    /\ Len(got) <= Len(put) /\ Len(batch) <= Len(got)
    /\ \A j \in 1..Len(batch) : batch[j] = put[(Len(got) - Len(batch)) + j]
    /\ pc = "idle" => batch = <<>>

\* While events are popped nothing has been announced; what is announced
\* later is behind what has been popped.
AnnouncedLater ==
    /\ pc = "drain" => announced = {}
    /\ pc # "idle" => \A i \in announced : i > Len(got)

\* A driver in hand has just got its third warning.
InHand ==
    /\ pc \in Penalising => idx \in Drivers /\ warnings_[idx] >= 3
    /\ pc = "cas" => states_[idx] = "NONE"

\* A driver with three warnings has its penalty, unless it is at the
\* compare-and-exchange, and then its announcement, unless that is to come.
PenaltyFollows ==
    \A d \in Drivers :
        /\ states_[d] # "NONE" <=> warnings_[d] >= 3 /\ ~(pc = "cas" /\ idx = d)
        /\ Occurrences(PenaltyIssued(d), Len(put)) =
               IF warnings_[d] >= 3 /\ ~(pc \in {"cas", "push"} /\ idx = d) THEN 1 ELSE 0

\* The inductive invariant.
IndInv ==
    /\ TypeOK /\ BatchIsPopped /\ AnnouncedLater
    /\ WarningsCounted /\ InHand /\ PenaltyFollows

-----------------------------------------------------------------------------
(* Lemmas *)

\* How many of the first n elements of s are e: Occurrences is Hits in put.
Hits(s, e, n) == Cardinality({i \in 1..n : s[i] = e})

\* Occurrences are counted one position at a time.
LEMMA HitsNext ==
    ASSUME NEW s, NEW e, NEW n \in Nat
    PROVE  /\ Hits(s, e, n) \in Nat
           /\ Hits(s, e, n + 1) = IF s[n + 1] = e THEN Hits(s, e, n) + 1 ELSE Hits(s, e, n)
<1> DEFINE P(m) == {i \in 1..m : s[i] = e}
<1>1. IsFiniteSet(P(n))
  <2>1. IsFiniteSet(1..n)
    BY FS_Interval
  <2> QED
    BY <2>1, FS_Subset
<1>2. Cardinality(P(n)) \in Nat
  BY <1>1, FS_CardinalityType
<1>3. CASE s[n + 1] = e
  <2>1. P(n + 1) = P(n) \cup {n + 1} /\ n + 1 \notin P(n)
    BY <1>3
  <2>2. Cardinality(P(n + 1)) = Cardinality(P(n)) + 1
    <3> HIDE DEF P
    <3> QED
      BY <1>1, <2>1, FS_AddElement
  <2> QED
    BY <1>2, <1>3, <2>2 DEF Hits
<1>4. CASE s[n + 1] # e
  <2>1. P(n + 1) = P(n)
    BY <1>4
  <2> QED
    BY <1>2, <1>4, <2>1 DEF Hits
<1> QED
  BY <1>3, <1>4

LEMMA HitsNone == ASSUME NEW s, NEW e PROVE Hits(s, e, 0) = 0
<1>1. {i \in 1..0 : s[i] = e} = {}
  OBVIOUS
<1> QED
  BY <1>1, FS_EmptySet DEF Hits

\* What is counted up to a position depends on the elements up to there.
LEMMA HitsAgree ==
    ASSUME NEW s, NEW t, NEW e, NEW n \in Nat, \A i \in 1..n : t[i] = s[i]
    PROVE  Hits(t, e, n) = Hits(s, e, n)
<1>1. {i \in 1..n : t[i] = e} = {i \in 1..n : s[i] = e}
  OBVIOUS
<1> QED
  BY <1>1 DEF Hits

\* A push adds itself to what is counted in all.
LEMMA HitsPushed ==
    ASSUME NEW S, NEW s \in Seq(S), NEW v \in S, NEW e
    PROVE  Hits(Append(s, v), e, Len(Append(s, v))) =
               IF v = e THEN Hits(s, e, Len(s)) + 1 ELSE Hits(s, e, Len(s))
<1> DEFINE t == Append(s, v)
<1>1. /\ Len(s) \in Nat /\ Len(t) = Len(s) + 1 /\ t[Len(s) + 1] = v
      /\ \A i \in 1..Len(s) : t[i] = s[i]
  OBVIOUS
<1> HIDE DEF t
<1>2. PICK n \in Nat : n = Len(s)
  BY <1>1
<1>3. Hits(t, e, n) = Hits(s, e, n)
  BY <1>1, <1>2, HitsAgree
<1>4. Hits(t, e, n + 1) = IF t[n + 1] = e THEN Hits(t, e, n) + 1 ELSE Hits(t, e, n)
  BY HitsNext
<1> QED
  BY <1>1, <1>2, <1>3, <1>4 DEF t

LEMMA OccurrencesAreHits == \A e, n : Occurrences(e, n) = Hits(put, e, n)
BY DEF Occurrences, Hits

-----------------------------------------------------------------------------
(* The inductive invariant *)

LEMMA InitIndInv == Init => IndInv
<1> SUFFICES ASSUME Init PROVE IndInv
  OBVIOUS
<1>1. /\ put = <<>> /\ got = <<>> /\ midflight = {}
      /\ pc = "idle" /\ batch = <<>> /\ announced = {} /\ idx \in Ids
      /\ warnings_ = [d \in Drivers |-> 0] /\ states_ = [d \in Drivers |-> "NONE"]
      /\ extra_pit_time_ = [d \in Drivers |-> 0]
  BY DEF Init, Queue!Init
<1>2. Len(put) = 0 /\ Len(got) = 0 /\ Len(batch) = 0
  BY <1>1
<1>3. TypeOK
  BY <1>1 DEF TypeOK
<1>4. \A e : Occurrences(e, 0) = 0
  BY HitsNone, OccurrencesAreHits
<1>5. WarningsCounted
  <2>1. Len(got) - Len(batch) = 0
    BY <1>2
  <2> QED
    BY <1>1, <1>4, <2>1 DEF WarningsCounted
<1>6. PenaltyFollows
  <2> SUFFICES ASSUME NEW d \in Drivers
               PROVE  /\ states_[d] = "NONE" /\ warnings_[d] = 0
                      /\ Occurrences(PenaltyIssued(d), Len(put)) = 0
    BY <1>1 DEF PenaltyFollows
  <2> QED
    BY <1>1, <1>2, <1>4
<1>7. BatchIsPopped
  BY <1>1, <1>2 DEF BatchIsPopped
<1> QED
  BY <1>1, <1>3, <1>5, <1>6, <1>7 DEF IndInv, AnnouncedLater, InHand, Penalising

\* What a step that pushes nothing leaves counted.
LEMMA OccurrencesStay ==
    ASSUME put' = put
    PROVE  \A e : /\ Occurrences(e, Len(put))' = Occurrences(e, Len(put))
                  /\ \A n : Hits(put', e, n) = Hits(put, e, n)
BY DEF Occurrences

LEMMA ProcessEventsIndInv == IndInv /\ ProcessEvents => IndInv'
<1> SUFFICES ASSUME IndInv, ProcessEvents PROVE IndInv'
  OBVIOUS
<1> USE DEF IndInv, ProcessEvents, queueVars, driverVars
<1>1. TypeOK'
  BY DEF TypeOK
<1>2. batch = <<>> /\ batch' = <<>>
  BY DEF BatchIsPopped
<1>3. BatchIsPopped'
  BY <1>2 DEF BatchIsPopped, TypeOK
<1>4. AnnouncedLater' /\ InHand'
  BY DEF AnnouncedLater, InHand, Penalising
<1>5. WarningsCounted'
  BY <1>2 DEF WarningsCounted, Occurrences
<1>6. PenaltyFollows'
  BY OccurrencesStay DEF PenaltyFollows
<1> QED
  BY <1>1, <1>3, <1>4, <1>5, <1>6

LEMMA DrainPopIndInv == IndInv /\ DrainPop => IndInv'
<1> SUFFICES ASSUME IndInv, DrainPop PROVE IndInv'
  OBVIOUS
<1>1. /\ pc = "drain" /\ pc' = pc /\ idx' = idx /\ announced' = announced
      /\ Len(got) < Len(put) /\ got' = Append(got, put[Len(got) + 1])
      /\ put' = put /\ midflight' = midflight
      /\ batch' = Append(batch, put[Len(got) + 1])
      /\ warnings_' = warnings_ /\ states_' = states_ /\ extra_pit_time_' = extra_pit_time_
  BY DEF DrainPop, Queue!Take, driverVars
<1>2. /\ put \in Seq(Events) /\ got \in Seq(Events) /\ batch \in Seq(Events)
      /\ Len(put) \in Nat /\ Len(got) \in Nat /\ Len(batch) \in Nat
  BY DEF IndInv, TypeOK
<1>3. put[Len(got) + 1] \in Events
  BY <1>1, <1>2
<1>4. /\ got' \in Seq(Events) /\ batch' \in Seq(Events)
      /\ Len(got') = Len(got) + 1 /\ Len(batch') = Len(batch) + 1
      /\ batch'[Len(batch) + 1] = put[Len(got) + 1]
      /\ \A j \in 1..Len(batch) : batch'[j] = batch[j]
  BY <1>1, <1>2, <1>3
<1>5. TypeOK'
  BY <1>1, <1>4 DEF IndInv, TypeOK
<1>6. BatchIsPopped'
  <2>1. ASSUME NEW j \in 1..Len(batch')
        PROVE  batch'[j] = put'[(Len(got') - Len(batch')) + j]
    <3>1. Len(got') - Len(batch') = Len(got) - Len(batch)
      BY <1>2, <1>4
    <3>2. CASE j = Len(batch) + 1
      <4>1. (Len(got) - Len(batch)) + j = Len(got) + 1
        BY <1>2, <3>2
      <4> QED
        BY <1>1, <1>4, <3>1, <3>2, <4>1
    <3>3. CASE j # Len(batch) + 1
      <4>1. j \in 1..Len(batch)
        BY <1>2, <1>4, <3>3
      <4> QED
        BY <1>1, <1>4, <3>1, <4>1 DEF IndInv, BatchIsPopped
    <3> QED
      BY <3>2, <3>3
  <2>2. Len(got') <= Len(put') /\ Len(batch') <= Len(got')
    BY <1>1, <1>2, <1>4 DEF IndInv, BatchIsPopped
  <2>3. pc' # "idle"
    BY <1>1
  <2> QED
    BY <2>1, <2>2, <2>3 DEF BatchIsPopped
<1>7. AnnouncedLater' /\ InHand'
  BY <1>1 DEF IndInv, AnnouncedLater, InHand, Penalising
<1>8. WarningsCounted'
  <2>1. Len(got') - Len(batch') = Len(got) - Len(batch)
    BY <1>2, <1>4
  <2> QED
    BY <1>1, <2>1 DEF IndInv, WarningsCounted, Occurrences
<1>9. PenaltyFollows'
  BY <1>1, OccurrencesStay DEF IndInv, PenaltyFollows
<1> QED
  BY <1>5, <1>6, <1>7, <1>8, <1>9 DEF IndInv

\* Steps that leave alone what is counted, and lead to no pop and into no
\* penalty.
LEMMA QuietIndInv ==
    ASSUME IndInv, TypeOK',
           UNCHANGED <<put, got, batch, idx, announced, warnings_>>,
           \A d \in Drivers : states_'[d] = "NONE" <=> states_[d] = "NONE",
           pc' = "drain" => pc = "drain",
           IF pc' = "idle" THEN batch = <<>> ELSE pc # "idle",
           pc' \in Penalising => pc \in Penalising,
           pc' = "cas" <=> pc = "cas", pc' = "push" <=> pc = "push"
    PROVE  IndInv'
<1> USE DEF IndInv
<1>1. BatchIsPopped'
  BY DEF BatchIsPopped
<1>2. AnnouncedLater' /\ InHand'
  BY DEF AnnouncedLater, InHand, Penalising
<1>3. WarningsCounted'
  BY DEF WarningsCounted, Occurrences
<1>4. PenaltyFollows'
  BY OccurrencesStay DEF PenaltyFollows
<1> QED
  BY <1>1, <1>2, <1>3, <1>4

LEMMA DrainEndIndInv == ASSUME IndInv, NEW certain, DrainEnd(certain) PROVE IndInv'
<1>1. TypeOK'
  BY DEF IndInv, TypeOK, DrainEnd, queueVars, driverVars
<1> QED
  BY <1>1, QuietIndInv DEF DrainEnd, queueVars, driverVars, Penalising

LEMMA ReturnIndInv == IndInv /\ Return => IndInv'
<1> SUFFICES ASSUME IndInv, Return PROVE IndInv'
  OBVIOUS
<1>1. TypeOK'
  BY DEF IndInv, TypeOK, Return, Out, queueVars, driverVars
<1> QED
  BY <1>1, QuietIndInv DEF Return, Out, queueVars, driverVars, Penalising

LEMMA AddPitTimeIndInv == IndInv /\ AddPitTime => IndInv'
<1> SUFFICES ASSUME IndInv, AddPitTime PROVE IndInv'
  OBVIOUS
<1>1. TypeOK'
  BY DEF IndInv, TypeOK, AddPitTime, queueVars
<1> QED
  BY <1>1, QuietIndInv DEF AddPitTime, queueVars, Penalising

LEMMA AnnounceLinkIndInv == IndInv /\ AnnounceLink => IndInv'
<1> SUFFICES ASSUME IndInv, AnnounceLink PROVE IndInv'
  OBVIOUS
<1>1. /\ pc = "link" /\ pc' = "extra" /\ put' = put /\ got' = got
      /\ midflight' \subseteq midflight
      /\ UNCHANGED <<batch, idx, announced, driverVars>>
  BY DEF AnnounceLink, Queue!Link
<1>2. TypeOK'
  BY <1>1 DEF IndInv, TypeOK, driverVars
<1> QED
  BY <1>1, <1>2, QuietIndInv DEF driverVars, Penalising

LEMMA PushEndIndInv == IndInv /\ PushEnd => IndInv'
<1> SUFFICES ASSUME IndInv, PushEnd PROVE IndInv'
  OBVIOUS
<1>1. /\ put' = put /\ got' = got /\ midflight' \subseteq midflight
      /\ UNCHANGED <<callVars, driverVars>>
  BY DEF PushEnd, Queue!Link
<1>2. TypeOK'
  BY <1>1 DEF IndInv, TypeOK, callVars, driverVars
<1>3. pc = "idle" => batch = <<>>
  BY DEF IndInv, BatchIsPopped
<1> QED
  BY <1>1, <1>2, <1>3, QuietIndInv DEF callVars, driverVars, Penalising

LEMMA PitsIndInv ==
    ASSUME IndInv, NEW d \in Drivers, driver_entered_pits(d) \/ driver_exited_pits(d)
    PROVE  IndInv'
<1>1. /\ UNCHANGED <<queueVars, callVars, warnings_, extra_pit_time_>>
      /\ states_[d] # "NONE"
      /\ \/ states_' = [states_ EXCEPT ![d] = "SERVING"]
         \/ states_' = [states_ EXCEPT ![d] = "SERVED"]
  BY DEF driver_entered_pits, driver_exited_pits
<1>2. states_ \in [Drivers -> {"NONE", "PENDING", "SERVING", "SERVED"}]
  BY DEF IndInv, TypeOK
<1>3. /\ states_' \in [Drivers -> {"NONE", "PENDING", "SERVING", "SERVED"}]
      /\ \A c \in Drivers : states_'[c] = "NONE" <=> states_[c] = "NONE"
  BY <1>1, <1>2
<1>4. TypeOK'
  BY <1>1, <1>3 DEF IndInv, TypeOK, queueVars, callVars
<1>5. pc = "idle" => batch = <<>>
  BY DEF IndInv, BatchIsPopped
<1> QED
  BY <1>1, <1>3, <1>4, <1>5, QuietIndInv DEF queueVars, callVars

\* The step at which an event leaves the batch.
LEMMA BatchShrinks ==
    ASSUME IndInv, batch # <<>>
    PROVE  /\ Len(batch) \in Nat \ {0} /\ Tail(batch) \in Seq(Events)
           /\ Len(Tail(batch)) = Len(batch) - 1
           /\ Len(got) - Len(batch) \in Nat
           /\ Head(batch) \in Events
           /\ Head(batch) = put[(Len(got) - Len(batch)) + 1]
           /\ \A j \in 1..Len(Tail(batch)) :
                  Tail(batch)[j] = put[(Len(got) - Len(Tail(batch))) + j]
           /\ Len(got) - Len(Tail(batch)) = (Len(got) - Len(batch)) + 1
<1>1. batch \in Seq(Events) /\ Len(got) \in Nat
  BY DEF IndInv, TypeOK
<1>2. /\ Len(batch) \in Nat \ {0} /\ Tail(batch) \in Seq(Events)
      /\ Len(Tail(batch)) = Len(batch) - 1 /\ Head(batch) = batch[1] /\ Head(batch) \in Events
      /\ \A j \in 1..(Len(batch) - 1) : Tail(batch)[j] = batch[j + 1]
  BY <1>1
<1>3. Len(batch) <= Len(got)
  BY DEF IndInv, BatchIsPopped
<1>4. \A j \in 1..Len(batch) : batch[j] = put[(Len(got) - Len(batch)) + j]
  BY DEF IndInv, BatchIsPopped
<1>5. ASSUME NEW j \in 1..Len(Tail(batch))
      PROVE  Tail(batch)[j] = put[(Len(got) - Len(Tail(batch))) + j]
  <2>1. j + 1 \in 1..Len(batch) /\ Tail(batch)[j] = batch[j + 1]
    BY <1>2
  <2>2. (Len(got) - Len(Tail(batch))) + j = (Len(got) - Len(batch)) + (j + 1)
    BY <1>1, <1>2
  <2> QED
    BY <1>4, <2>1, <2>2
<1>6. Head(batch) = put[(Len(got) - Len(batch)) + 1]
  BY <1>2, <1>4
<1> QED
  BY <1>1, <1>2, <1>3, <1>5, <1>6

\* One more event is processed: it is counted if it is a driver's warning.
LEMMA OneMoreProcessed ==
    ASSUME IndInv, batch # <<>>, NEW e
    PROVE  Occurrences(e, Len(got) - Len(Tail(batch))) =
               IF Head(batch) = e THEN Occurrences(e, Len(got) - Len(batch)) + 1
               ELSE Occurrences(e, Len(got) - Len(batch))
<1>1. PICK n \in Nat : n = Len(got) - Len(batch)
  BY BatchShrinks
<1>2. Len(got) - Len(Tail(batch)) = n + 1 /\ Head(batch) = put[n + 1]
  BY <1>1, BatchShrinks
<1>3. Hits(put, e, n + 1) =
          IF put[n + 1] = e THEN Hits(put, e, n) + 1 ELSE Hits(put, e, n)
  BY HitsNext
<1> QED
  BY <1>1, <1>2, <1>3, OccurrencesAreHits

LEMMA SkipIndInv == IndInv /\ Skip => IndInv'
<1> SUFFICES ASSUME IndInv, Skip PROVE IndInv'
  OBVIOUS
<1>1. /\ pc = "process" /\ pc' = pc /\ batch # <<>> /\ batch' = Tail(batch)
      /\ ~IsWarning(Head(batch)) /\ put' = put /\ got' = got /\ midflight' = midflight
      /\ idx' = idx /\ announced' = announced /\ warnings_' = warnings_
      /\ states_' = states_ /\ extra_pit_time_' = extra_pit_time_
  BY DEF Skip, Continue, queueVars, driverVars
<1>2. TypeOK'
  BY <1>1, BatchShrinks DEF IndInv, TypeOK
<1>3. BatchIsPopped'
  <2>1. Len(Tail(batch)) <= Len(got)
    BY <1>1, BatchShrinks DEF IndInv, TypeOK, BatchIsPopped
  <2> QED
    BY <1>1, <2>1, BatchShrinks DEF IndInv, BatchIsPopped
<1>4. AnnouncedLater' /\ InHand'
  BY <1>1 DEF IndInv, AnnouncedLater, InHand, Penalising
<1>5. WarningsCounted'
  <2> SUFFICES ASSUME NEW d \in Drivers
               PROVE  warnings_[d] = Occurrences(TrackLimits(d), Len(got) - Len(Tail(batch)))
    BY <1>1 DEF WarningsCounted, Occurrences
  <2>1. Head(batch) # TrackLimits(d)
    BY <1>1 DEF IsWarning, TrackLimits
  <2> QED
    BY <1>1, <2>1, OneMoreProcessed DEF IndInv, WarningsCounted
<1>6. PenaltyFollows'
  BY <1>1, OccurrencesStay DEF IndInv, PenaltyFollows
<1> QED
  BY <1>2, <1>3, <1>4, <1>5, <1>6 DEF IndInv

LEMMA CountIndInv == IndInv /\ Count => IndInv'
<1> SUFFICES ASSUME IndInv, Count PROVE IndInv'
  OBVIOUS
<1>1. PICK d \in Drivers : d = Head(batch).driver_id
  BY DEF Count, IsWarning
<1>2. /\ pc = "process" /\ batch # <<>> /\ batch' = Tail(batch)
      /\ Head(batch).type = "TRACK_LIMITS"
      /\ put' = put /\ got' = got /\ midflight' = midflight
      /\ idx' = d /\ announced' = announced
      /\ warnings_' = [warnings_ EXCEPT ![d] = @ + 1]
      /\ pc' = IF warnings_'[d] = 3 THEN "cas" ELSE "process"
      /\ states_' = states_ /\ extra_pit_time_' = extra_pit_time_
  BY <1>1 DEF Count, IsWarning, Third, queueVars
<1>3. /\ warnings_ \in [Drivers -> Nat] /\ warnings_' \in [Drivers -> Nat]
      /\ warnings_'[d] = warnings_[d] + 1
      /\ \A c \in Drivers \ {d} : warnings_'[c] = warnings_[c]
  BY <1>2 DEF IndInv, TypeOK
<1>4. TypeOK'
  BY <1>2, <1>3, BatchShrinks DEF IndInv, TypeOK, Ids
<1>5. BatchIsPopped'
  <2>1. Len(Tail(batch)) <= Len(got)
    BY <1>2, BatchShrinks DEF IndInv, TypeOK, BatchIsPopped
  <2>2. pc' # "idle"
    BY <1>2
  <2> QED
    BY <1>2, <2>1, <2>2, BatchShrinks DEF IndInv, BatchIsPopped
<1>6. AnnouncedLater'
  BY <1>2 DEF IndInv, AnnouncedLater
<1>7. WarningsCounted'
  <2> SUFFICES ASSUME NEW c \in Drivers
               PROVE  warnings_'[c] = Occurrences(TrackLimits(c), Len(got) - Len(Tail(batch)))
    BY <1>2 DEF WarningsCounted, Occurrences
  <2>1. warnings_[c] = Occurrences(TrackLimits(c), Len(got) - Len(batch))
    BY DEF IndInv, WarningsCounted
  <2>2. Head(batch) = TrackLimits(c) <=> c = d
    <3>1. Head(batch) \in Events
      BY <1>2, BatchShrinks
    <3> QED
      BY <1>1, <1>2, <3>1 DEF Events, TrackLimits
  <2> QED
    BY <1>2, <1>3, <2>1, <2>2, OneMoreProcessed
<1>8. states_[d] = "NONE" <=> warnings_[d] < 3
  BY <1>2, <1>3 DEF IndInv, PenaltyFollows
<1>9. InHand'
  <2> SUFFICES ASSUME pc' \in Penalising
               PROVE  pc' = "cas" /\ warnings_'[d] >= 3 /\ states_[d] = "NONE"
    BY <1>2 DEF InHand, Penalising
  <2>1. pc' = "cas" /\ warnings_'[d] = 3
    BY <1>2 DEF Penalising
  <2>2. warnings_[d] < 3
    BY <1>3, <2>1
  <2> QED
    BY <1>8, <2>1, <2>2
<1>10. PenaltyFollows'
  <2> SUFFICES ASSUME NEW c \in Drivers
               PROVE  /\ states_[c] # "NONE" <=>
                             warnings_'[c] >= 3 /\ ~(pc' = "cas" /\ d = c)
                      /\ Occurrences(PenaltyIssued(c), Len(put)) =
                             IF warnings_'[c] >= 3 /\ ~(pc' \in {"cas", "push"} /\ d = c)
                             THEN 1 ELSE 0
    BY <1>2, OccurrencesStay DEF PenaltyFollows
  <2>1. /\ states_[c] # "NONE" <=> warnings_[c] >= 3
        /\ Occurrences(PenaltyIssued(c), Len(put)) = IF warnings_[c] >= 3 THEN 1 ELSE 0
    BY <1>2 DEF IndInv, PenaltyFollows
  <2>2. CASE c # d
    BY <1>3, <2>1, <2>2
  <2>3. CASE c = d
    <3>1. pc' = "cas" <=> warnings_[d] + 1 = 3
      BY <1>2, <1>3
    <3>2. pc' # "push"
      BY <1>2
    <3>3. warnings_[d] \in Nat /\ warnings_'[d] = warnings_[d] + 1
      BY <1>3
    <3> QED
      BY <2>1, <2>3, <3>1, <3>2, <3>3
  <2> QED
    BY <2>2, <2>3
<1> QED
  BY <1>4, <1>5, <1>6, <1>7, <1>9, <1>10 DEF IndInv

LEMMA PenaliseIndInv == IndInv /\ Penalise => IndInv'
<1> SUFFICES ASSUME IndInv, Penalise PROVE IndInv'
  OBVIOUS
<1>1. PICK d \in Drivers : d = idx /\ warnings_[d] >= 3 /\ states_[d] = "NONE"
  BY DEF IndInv, InHand, Penalise, Penalising
<1>2. /\ pc = "cas" /\ pc' = "push" /\ states_' = [states_ EXCEPT ![d] = "PENDING"]
      /\ put' = put /\ got' = got /\ midflight' = midflight
      /\ batch' = batch /\ idx' = idx /\ announced' = announced
      /\ warnings_' = warnings_ /\ extra_pit_time_' = extra_pit_time_
  BY <1>1 DEF Penalise, queueVars
<1>3. /\ states_ \in [Drivers -> {"NONE", "PENDING", "SERVING", "SERVED"}]
      /\ states_' \in [Drivers -> {"NONE", "PENDING", "SERVING", "SERVED"}]
      /\ states_'[d] = "PENDING"
      /\ \A c \in Drivers \ {d} : states_'[c] = states_[c]
  BY <1>2 DEF IndInv, TypeOK
<1>4. TypeOK'
  BY <1>2, <1>3 DEF IndInv, TypeOK
<1>5. BatchIsPopped' /\ AnnouncedLater'
  BY <1>2 DEF IndInv, BatchIsPopped, AnnouncedLater
<1>6. InHand'
  BY <1>1, <1>2 DEF IndInv, InHand, Penalising
<1>7. WarningsCounted'
  BY <1>2 DEF IndInv, WarningsCounted, Occurrences
<1>8. PenaltyFollows'
  BY <1>1, <1>2, <1>3, OccurrencesStay DEF IndInv, PenaltyFollows
<1> QED
  BY <1>4, <1>5, <1>6, <1>7, <1>8 DEF IndInv

\* A push, of the enforcer or of another thread, leaves the batch and the
\* warnings as they are.
LEMMA PushKeeps ==
    ASSUME IndInv, NEW v \in Events, Queue!Exchange(v),
           UNCHANGED <<batch, warnings_>>, pc' = "idle" <=> pc = "idle"
    PROVE  /\ put' \in Seq(Events) /\ got' = got /\ midflight' \subseteq DOMAIN put'
           /\ Len(put) \in Nat /\ Len(put') = Len(put) + 1 /\ DOMAIN put \subseteq DOMAIN put'
           /\ BatchIsPopped' /\ WarningsCounted'
           /\ \A e : Occurrences(e, Len(put))' =
                         IF v = e THEN Occurrences(e, Len(put)) + 1
                         ELSE Occurrences(e, Len(put))
<1>1. /\ put' = Append(put, v) /\ got' = got /\ midflight' = midflight \cup {Len(put) + 1}
  BY DEF Queue!Exchange
<1>2. /\ put \in Seq(Events) /\ Len(put) \in Nat /\ DOMAIN put = 1..Len(put)
      /\ Len(got) \in Nat /\ Len(batch) \in Nat /\ midflight \subseteq DOMAIN put
  BY DEF IndInv, TypeOK
<1>3. /\ put' \in Seq(Events) /\ Len(put') = Len(put) + 1 /\ DOMAIN put' = 1..(Len(put) + 1)
      /\ \A i \in 1..Len(put) : put'[i] = put[i]
  BY <1>1, <1>2
<1>4. midflight' \subseteq DOMAIN put' /\ DOMAIN put \subseteq DOMAIN put'
  BY <1>1, <1>2, <1>3
<1>5. Len(got) <= Len(put) /\ Len(batch) <= Len(got)
  BY DEF IndInv, BatchIsPopped
<1>6. BatchIsPopped'
  <2>1. ASSUME NEW j \in 1..Len(batch)
        PROVE  batch[j] = put'[(Len(got) - Len(batch)) + j]
    <3>1. (Len(got) - Len(batch)) + j \in 1..Len(put)
      BY <1>2, <1>5
    <3> QED
      BY <1>3, <3>1 DEF IndInv, BatchIsPopped
  <2>2. Len(got) <= Len(put')
    BY <1>2, <1>3, <1>5
  <2> QED
    BY <1>1, <1>5, <2>1, <2>2 DEF IndInv, BatchIsPopped
<1>7. WarningsCounted'
  <2> SUFFICES ASSUME NEW d \in Drivers
               PROVE  warnings_[d] = Hits(put', TrackLimits(d), Len(got) - Len(batch))
    BY <1>1 DEF WarningsCounted, Occurrences, Hits
  <2>1. Len(got) - Len(batch) \in 0..Len(put)
    BY <1>2, <1>5
  <2>2. PICK n \in 0..Len(put) : n = Len(got) - Len(batch)
    BY <2>1, Zenon
  <2>3. n \in Nat /\ \A i \in 1..n : put'[i] = put[i]
    BY <1>2, <1>3
  <2>4. Hits(put', TrackLimits(d), n) = Hits(put, TrackLimits(d), n)
    BY <2>3, HitsAgree
  <2> QED
    BY <2>2, <2>4, OccurrencesAreHits DEF IndInv, WarningsCounted
<1>8. ASSUME NEW e
      PROVE  Occurrences(e, Len(put))' =
                 IF v = e THEN Occurrences(e, Len(put)) + 1 ELSE Occurrences(e, Len(put))
  <2>1. Hits(put', e, Len(put')) =
            IF v = e THEN Hits(put, e, Len(put)) + 1 ELSE Hits(put, e, Len(put))
    BY <1>1, <1>2, HitsPushed
  <2> QED
    BY <2>1 DEF Occurrences, Hits
<1> QED
  BY <1>1, <1>2, <1>3, <1>4, <1>6, <1>7, <1>8

LEMMA AnnounceIndInv == IndInv /\ Announce => IndInv'
<1> SUFFICES ASSUME IndInv, Announce PROVE IndInv'
  OBVIOUS
<1>1. PICK d \in Drivers : d = idx /\ warnings_[d] >= 3
  BY DEF IndInv, InHand, Announce, Penalising
<1>2. /\ pc = "push" /\ pc' = "link" /\ Queue!Exchange(PenaltyIssued(d))
      /\ announced' = announced \cup {Len(put')}
      /\ batch' = batch /\ idx' = idx
      /\ warnings_' = warnings_ /\ states_' = states_ /\ extra_pit_time_' = extra_pit_time_
  BY <1>1 DEF Announce, driverVars
<1>3. PenaltyIssued(d) \in Events
  BY DEF PenaltyIssued, Events, Types, Ids
<1>4. /\ put' \in Seq(Events) /\ got' = got /\ midflight' \subseteq DOMAIN put'
      /\ Len(put) \in Nat /\ Len(put') = Len(put) + 1 /\ DOMAIN put \subseteq DOMAIN put'
      /\ BatchIsPopped' /\ WarningsCounted'
  BY <1>2, <1>3, PushKeeps
<1>5. \A e : Occurrences(e, Len(put))' =
                 IF PenaltyIssued(d) = e THEN Occurrences(e, Len(put)) + 1
                 ELSE Occurrences(e, Len(put))
  BY <1>2, <1>3, PushKeeps
<1>6. TypeOK'
  <2>1. announced' \subseteq DOMAIN put'
    BY <1>2, <1>4 DEF IndInv, TypeOK
  <2> QED
    BY <1>2, <1>4, <2>1 DEF IndInv, TypeOK
<1>7. AnnouncedLater'
  <2>1. Len(got) <= Len(put) /\ Len(got) \in Nat
    BY DEF IndInv, TypeOK, BatchIsPopped
  <2>2. Len(put') > Len(got)
    BY <1>4, <2>1
  <2> QED
    BY <1>2, <1>4, <2>2 DEF IndInv, AnnouncedLater
<1>8. InHand'
  BY <1>1, <1>2 DEF InHand, Penalising
<1>9. PenaltyFollows'
  <2> SUFFICES ASSUME NEW c \in Drivers
               PROVE  /\ states_[c] # "NONE" <=> warnings_[c] >= 3
                      /\ Occurrences(PenaltyIssued(c), Len(put))' =
                             IF warnings_[c] >= 3 THEN 1 ELSE 0
    BY <1>2 DEF PenaltyFollows
  <2>1. states_[c] # "NONE" <=> warnings_[c] >= 3
    BY <1>2 DEF IndInv, PenaltyFollows
  <2>2. Occurrences(PenaltyIssued(c), Len(put)) =
            IF warnings_[c] >= 3 /\ c # d THEN 1 ELSE 0
    BY <1>1, <1>2 DEF IndInv, PenaltyFollows
  <2>3. PenaltyIssued(d) = PenaltyIssued(c) <=> c = d
    BY DEF PenaltyIssued
  <2>4. Occurrences(PenaltyIssued(c), Len(put))' =
            IF c = d THEN Occurrences(PenaltyIssued(c), Len(put)) + 1
            ELSE Occurrences(PenaltyIssued(c), Len(put))
    BY <1>5, <2>3
  <2> QED
    BY <1>1, <2>1, <2>2, <2>4
<1> QED
  BY <1>4, <1>6, <1>7, <1>8, <1>9 DEF IndInv

LEMMA PushBeginIndInv == ASSUME IndInv, NEW e \in Events, PushBegin(e) PROVE IndInv'
<1>1. /\ Queue!Exchange(e) /\ pc' = pc /\ batch' = batch /\ idx' = idx
      /\ announced' = announced /\ warnings_' = warnings_ /\ states_' = states_
      /\ extra_pit_time_' = extra_pit_time_
  BY DEF PushBegin, callVars, driverVars
<1>2. /\ put' \in Seq(Events) /\ got' = got /\ midflight' \subseteq DOMAIN put'
      /\ DOMAIN put \subseteq DOMAIN put' /\ BatchIsPopped' /\ WarningsCounted'
  BY <1>1, PushKeeps
<1>3. TypeOK'
  <2>1. announced \subseteq DOMAIN put'
    BY <1>2 DEF IndInv, TypeOK
  <2> QED
    BY <1>1, <1>2, <2>1 DEF IndInv, TypeOK
<1>4. AnnouncedLater' /\ InHand'
  BY <1>1, <1>2 DEF IndInv, AnnouncedLater, InHand, Penalising
<1>5. \A c \in Drivers : Occurrences(PenaltyIssued(c), Len(put))' =
                             Occurrences(PenaltyIssued(c), Len(put))
  <2> TAKE c \in Drivers
  <2>1. e # PenaltyIssued(c)
    BY DEF PushBegin, PenaltyIssued
  <2> QED
    BY <1>1, <2>1, PushKeeps
<1>6. PenaltyFollows'
  BY <1>1, <1>5 DEF IndInv, PenaltyFollows
<1> QED
  BY <1>2, <1>3, <1>4, <1>6 DEF IndInv

LEMMA StutterIndInv == IndInv /\ UNCHANGED vars => IndInv'
<1> SUFFICES ASSUME IndInv, UNCHANGED vars PROVE IndInv'
  OBVIOUS
<1>1. TypeOK'
  BY DEF IndInv, TypeOK, vars, queueVars, callVars, driverVars
<1>2. pc = "idle" => batch = <<>>
  BY DEF IndInv, BatchIsPopped
<1> QED
  BY <1>1, <1>2, QuietIndInv DEF vars, queueVars, callVars, driverVars

-----------------------------------------------------------------------------
(* Theorems *)

\* The inductive invariant holds.
THEOREM Invariance == Spec => []IndInv
<1>1. Init => IndInv
  BY InitIndInv
<1>2. IndInv /\ [Next]_vars => IndInv'
  <2> SUFFICES ASSUME IndInv, [Next]_vars PROVE IndInv'
    OBVIOUS
  <2>1. CASE ProcessEvents
    BY <2>1, ProcessEventsIndInv
  <2>2. CASE DrainPop
    BY <2>2, DrainPopIndInv
  <2>3. CASE DrainEnd(Own)
    BY <2>3, DrainEndIndInv
  <2>4. CASE ProcessStep
    BY <2>4, SkipIndInv, CountIndInv, PenaliseIndInv, AnnounceIndInv, AnnounceLinkIndInv,
       AddPitTimeIndInv, ReturnIndInv DEF ProcessStep
  <2>5. CASE \E d \in Drivers : driver_entered_pits(d) \/ driver_exited_pits(d)
    BY <2>5, PitsIndInv
  <2>6. CASE \E e \in Events : PushBegin(e)
    BY <2>6, PushBeginIndInv
  <2>7. CASE PushEnd
    BY <2>7, PushEndIndInv
  <2>8. CASE UNCHANGED vars
    BY <2>8, StutterIndInv
  <2> QED
    BY <2>1, <2>2, <2>3, <2>4, <2>5, <2>6, <2>7, <2>8 DEF Next
<1> QED
  BY <1>1, <1>2, PTL DEF Spec

\* Every variable of the enforcer keeps its type.
THEOREM TypeCorrect == Spec => []TypeOK
<1>1. IndInv => TypeOK
  BY DEF IndInv
<1> QED
  BY <1>1, Invariance, PTL

\* A driver's warnings are the track limit events processed so far: no event
\* taken off the queue by process_events is lost or counted twice, however
\* many calls there are and wherever pops give up.
THEOREM Counted == Spec => []WarningsCounted
<1>1. IndInv => WarningsCounted
  BY DEF IndInv
<1> QED
  BY <1>1, Invariance, PTL

\* A driver with three warnings or more is penalised and announced exactly
\* once, others never, whatever the pits do to the penalty meanwhile.
THEOREM PenalisedOnce == Spec => []OnePenaltyEach
<1>1. IndInv => OnePenaltyEach
  <2> SUFFICES ASSUME IndInv, NEW d \in Drivers
               PROVE  LET issued == Occurrences(PenaltyIssued(d), Len(put)) IN
                      /\ issued <= 1
                      /\ pc = "idle" =>
                            /\ states_[d] # "NONE" <=> warnings_[d] >= 3
                            /\ issued = 1 <=> warnings_[d] >= 3
    BY DEF OnePenaltyEach
  <2> QED
    BY DEF IndInv, PenaltyFollows
<1> QED
  BY <1>1, Invariance, PTL

\* What process_events pushes itself it leaves to the next call.
THEOREM AnnouncementsWait == Spec => []OwnAnnouncementsWait
<1>1. IndInv => OwnAnnouncementsWait
  BY DEF IndInv, AnnouncedLater, OwnAnnouncementsWait
<1> QED
  BY <1>1, Invariance, PTL
=============================================================================
