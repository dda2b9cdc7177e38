---------------------------- MODULE DisplayProofs ---------------------------
(***************************************************************************)
(* For any threads, any size of the standings and any number of updates:   *)
(* Leaderboard implements Board, whole snapshots, of the owner only; and   *)
(* main, which looks at it and at current_lap, prints laps that fit the    *)
(* standings, and at the end those of the last tick.                       *)
(***************************************************************************)
EXTENDS Display, TLAPS

-----------------------------------------------------------------------------
(* Leaderboard *)

\* Readers keep writers out.
Exclusive == sharers # {} => owner = Nobody

\* The writer that writes is the owner; the entries it has not come to are
\* those of the last complete update, and so are all while nobody writes.
Halfway ==
    \A w \in Writers : wpc[w] = "write" =>
        /\ writer_id_ = w
        /\ \A e \in 1..Entries :
              standings_[e] = IF e < wnext[w] THEN <<w, calls[w]>> ELSE latest
Whole == (\A w \in Writers : wpc[w] # "write") => \A e \in 1..Entries : standings_[e] = latest

\* What a reader has copied so far is of the last complete update.
CopiesLatest ==
    \A r \in Readers :
        /\ rpc[r] = "lock" => copy[r] = <<>>
        /\ rpc[r] = "copy" =>
              Len(copy[r]) <= Entries /\ \A e \in DOMAIN copy[r] : copy[r][e] = latest

\* The last complete update is the owner's, and one that it has begun.
LatestIsOwners ==
    /\ latest = NoUpdate \/ latest[1] = writer_id_
    /\ \A w \in Writers :
          /\ latest[1] = w => latest[2] <= calls[w]
          /\ latest[1] = w /\ wpc[w] # "idle" => latest[2] < calls[w]
          /\ wpc[w] # "idle" => calls[w] >= 1

IndInv == TypeOK /\ Exclusive /\ Halfway /\ Whole /\ CopiesLatest /\ LatestIsOwners

-----------------------------------------------------------------------------

\* The leaderboard starts in the inductive invariant.
LEMMA InitIndInv == Init => IndInv
<1> SUFFICES ASSUME Init PROVE IndInv
  OBVIOUS
<1>1. TypeOK
  BY ThreadsAssumption, BoundsAssumption DEF Init, TypeOK, Updates
<1>2. Exclusive /\ Halfway /\ Whole /\ CopiesLatest /\ LatestIsOwners
  BY ThreadsAssumption DEF Init, Exclusive, Halfway, Whole, CopiesLatest, LatestIsOwners, NoUpdate
<1> QED
  BY <1>1, <1>2 DEF IndInv

\* Every step of a writer keeps the inductive invariant.
LEMMA WriterKeeps ==
    ASSUME IndInv, NEW w \in Writers, Writer(w)
    PROVE  IndInv'
<1> USE ThreadsAssumption, BoundsAssumption
        DEF IndInv, TypeOK, Exclusive, Halfway, Whole, CopiesLatest, LatestIsOwners, readerVars
<1>1. CASE UpdateBegin(w)
  <2>1. TypeOK'
    BY <1>1 DEF UpdateBegin
  <2>2. Exclusive' /\ Halfway' /\ Whole' /\ CopiesLatest'
    BY <1>1 DEF UpdateBegin
  <2>3. LatestIsOwners'
    BY <1>1 DEF UpdateBegin, NoUpdate, Updates
  <2> QED
    BY <2>1, <2>2, <2>3
<1>2. CASE UpdateLock(w)
  BY <1>2 DEF UpdateLock, Free
<1>3. CASE UpdateClaim(w)
  <2>1. TypeOK'
    BY <1>3 DEF UpdateClaim
  <2>2. Exclusive' /\ CopiesLatest'
    BY <1>3 DEF UpdateClaim
  <2>3. Halfway' /\ Whole'
    BY <1>3 DEF UpdateClaim
  <2>4. LatestIsOwners'
    <3>1. latest = NoUpdate \/ latest[1] \in Writers
      BY DEF Updates
    <3> QED
      BY <1>3, <3>1 DEF UpdateClaim, NoUpdate
  <2> QED
    BY <2>1, <2>2, <2>3, <2>4
<1>4. CASE UpdateThrow(w)
  BY <1>4 DEF UpdateThrow, Unwound
<1>5. CASE UpdateWrite(w)
  <2>1. TypeOK'
    BY <1>5 DEF UpdateWrite, Updates
  <2>2. Exclusive' /\ CopiesLatest' /\ LatestIsOwners'
    BY <1>5 DEF UpdateWrite
  <2>3. Halfway' /\ Whole'
    <3>1. \A v \in Writers : wpc[v] = "write" => v = w
      BY <1>5 DEF UpdateWrite
    <3>2. ASSUME NEW e \in 1..Entries
          PROVE  standings_'[e] = IF e < wnext'[w] THEN <<w, calls[w]>> ELSE latest
      <4>1. wnext[w] \in 1..Entries /\ wnext'[w] = wnext[w] + 1 /\ wpc[w] = "write"
        BY <1>5 DEF UpdateWrite
      <4>2. standings_'[e] = IF e = wnext[w] THEN <<w, calls[w]>> ELSE standings_[e]
        BY <1>5 DEF UpdateWrite
      <4>3. e < wnext[w] + 1 <=> e = wnext[w] \/ e < wnext[w]
        BY <4>1
      <4> QED
        BY <4>1, <4>2, <4>3
    <3> QED
      BY <1>5, <3>1, <3>2 DEF UpdateWrite
  <2> QED
    BY <2>1, <2>2, <2>3
<1>6. CASE UpdateUnlock(w)
  BY <1>6 DEF UpdateUnlock, Updates
<1> QED
  BY <1>1, <1>2, <1>3, <1>4, <1>5, <1>6 DEF Writer

\* Every step of a reader keeps the inductive invariant.
LEMMA ReaderKeeps ==
    ASSUME IndInv, NEW r \in Readers, Reader(r)
    PROVE  IndInv'
<1> USE ThreadsAssumption, BoundsAssumption
        DEF IndInv, TypeOK, Exclusive, Halfway, Whole, CopiesLatest, LatestIsOwners, writerVars
<1>1. CASE SnapshotBegin(r)
  BY <1>1 DEF SnapshotBegin
<1>2. CASE SnapshotLock(r)
  BY <1>2 DEF SnapshotLock
<1>3. CASE SnapshotCopy(r)
  <2>1. TypeOK'
    BY <1>3 DEF SnapshotCopy
  <2>2. Exclusive' /\ Halfway' /\ Whole' /\ LatestIsOwners'
    BY <1>3 DEF SnapshotCopy
  <2>3. CopiesLatest'
    BY <1>3 DEF SnapshotCopy
  <2> QED
    BY <2>1, <2>2, <2>3
<1>4. CASE SnapshotUnlock(r)
  BY <1>4 DEF SnapshotUnlock
<1> QED
  BY <1>1, <1>2, <1>3, <1>4 DEF Reader

\* The inductive invariant holds throughout.
THEOREM Invariance == Spec => []IndInv
<1>1. ASSUME IndInv, [Next]_boardVars PROVE IndInv'
  <2>1. CASE UNCHANGED boardVars
    BY <1>1, <2>1 DEF IndInv, TypeOK, Exclusive, Halfway, Whole, CopiesLatest, LatestIsOwners,
                      boardVars, writerVars, readerVars
  <2> QED
    BY <1>1, <2>1, WriterKeeps, ReaderKeeps DEF Next
<1> QED
  BY <1>1, InitIndInv, PTL DEF Spec

\* Every variable keeps its type, and the mutex is held by those who think so.
THEOREM TypeCorrect == Spec => []TypeOK
<1>1. IndInv => TypeOK
  BY DEF IndInv
<1> QED
  BY <1>1, Invariance, PTL

-----------------------------------------------------------------------------

\* A step of a writer is a step of the abstract board, or none: the first
\* update claims it, an unlock publishes the update.
LEMMA WriterRefines ==
    ASSUME IndInv, NEW w \in Writers, Writer(w)
    PROVE  [Abstract!Next]_(Abstract!vars)
<1> USE DEF Abstract!vars, readerVars
<1>1. [r \in Readers |-> Given(r)]' = [r \in Readers |-> Given(r)]
  BY DEF Writer, UpdateBegin, UpdateLock, UpdateClaim, UpdateThrow, UpdateWrite, UpdateUnlock,
         Given
<1>2. CASE UpdateClaim(w)
  <2>1. CASE writer_id_ = Nobody
    <3>1. Abstract!Claim(w)
      BY <1>1, <1>2, <2>1 DEF UpdateClaim, Abstract!Claim
    <3> QED
      BY <3>1 DEF Abstract!Next
  <2> QED
    BY <1>1, <1>2, <2>1 DEF UpdateClaim
<1>3. CASE UpdateUnlock(w)
  <2>1. writer_id_ = w /\ calls[w] \in 1..MaxUpdates /\ calls[w] > latest[2]
    BY <1>3, BoundsAssumption
       DEF UpdateUnlock, IndInv, TypeOK, Halfway, LatestIsOwners, NoUpdate
  <2>2. Abstract!Publish(w, calls[w])
    BY <1>1, <1>3, <2>1 DEF UpdateUnlock, Abstract!Publish
  <2> QED
    BY <2>1, <2>2 DEF Abstract!Next
<1>4. CASE UpdateBegin(w) \/ UpdateLock(w) \/ UpdateThrow(w) \/ UpdateWrite(w)
  BY <1>1, <1>4 DEF UpdateBegin, UpdateLock, UpdateThrow, UpdateWrite
<1> QED
  BY <1>2, <1>3, <1>4 DEF Writer

\* A step of a reader is a step of the abstract board, or none: it looks when
\* it unlocks, and what it has copied is then the last complete update.
LEMMA ReaderRefines ==
    ASSUME IndInv, NEW r \in Readers, Reader(r)
    PROVE  [Abstract!Next]_(Abstract!vars)
<1> USE DEF Abstract!vars, writerVars
<1>1. CASE SnapshotBegin(r)
  <2>1. Given(r)' = <<>>
    BY <1>1 DEF SnapshotBegin, Given, IndInv, TypeOK
  <2>2. \A s \in Readers \ {r} : Given(s)' = Given(s)
    BY <1>1 DEF SnapshotBegin, Given, IndInv, TypeOK
  <2>3. Abstract!Call(r)
    BY <1>1, <2>1, <2>2 DEF SnapshotBegin, Abstract!Call
  <2> QED
    BY <2>3 DEF Abstract!Next
<1>2. CASE SnapshotLock(r) \/ SnapshotCopy(r)
  <2>1. rpc[r] # "idle" /\ rpc'[r] # "idle"
    BY <1>2 DEF SnapshotLock, SnapshotCopy, IndInv, TypeOK
  <2>2. \A s \in Readers \ {r} : rpc'[s] = rpc[s] /\ copy'[s] = copy[s]
    BY <1>2 DEF SnapshotLock, SnapshotCopy, IndInv, TypeOK
  <2>3. \A s \in Readers : Given(s)' = Given(s)
    BY <2>1, <2>2 DEF Given
  <2> QED
    BY <1>2, <2>3 DEF SnapshotLock, SnapshotCopy
<1>3. CASE SnapshotUnlock(r)
  <2>1. /\ copy[r] # <<>>
        /\ 1 \in DOMAIN copy[r] /\ \A e \in DOMAIN copy[r] : copy[r][e] = latest
    BY <1>3, BoundsAssumption DEF SnapshotUnlock, IndInv, TypeOK, CopiesLatest
  <2>2. Given(r) = <<>> /\ Given(r)' = latest
    BY <1>3, <2>1 DEF SnapshotUnlock, Given, IndInv, TypeOK
  <2>3. \A s \in Readers \ {r} : Given(s)' = Given(s)
    BY <1>3 DEF SnapshotUnlock, Given, IndInv, TypeOK
  <2>4. Abstract!Look(r)
    BY <1>3, <2>2, <2>3 DEF SnapshotUnlock, Abstract!Look
  <2> QED
    BY <2>4 DEF Abstract!Next
<1> QED
  BY <1>1, <1>2, <1>3 DEF Reader

\* The leaderboard implements the abstract board.
THEOREM Refinement == Spec => ImplementsBoard
<1>1. Init => Abstract!Init
  <2> SUFFICES ASSUME Init PROVE Abstract!Init
    OBVIOUS
  <2>1. \A r \in Readers : Given(r) = <<>>
    BY DEF Init, Given
  <2> QED
    BY <2>1 DEF Init, Abstract!Init, NoUpdate
<1>2. ASSUME IndInv, [Next]_boardVars PROVE [Abstract!Next]_(Abstract!vars)
  <2>1. CASE UNCHANGED boardVars
    BY <2>1 DEF boardVars, writerVars, readerVars, Abstract!vars, Given
  <2> QED
    BY <1>2, <2>1, WriterRefines, ReaderRefines DEF Next
<1> QED
  BY <1>1, <1>2, Invariance, PTL DEF Spec, ImplementsBoard, Abstract!Spec

-----------------------------------------------------------------------------
(* Display: the leaderboard is used in no other way *)

\* A step of the program is a step of the leaderboard, or leaves it alone.
LEMMA StepsOfTheBoard == [DisplayNext]_vars => [Next]_boardVars
<1> SUFFICES ASSUME [DisplayNext]_vars PROVE [Next]_boardVars
  OBVIOUS
<1>1. CASE Tick \/ Update
  BY <1>1, DisplayAssumption DEF Tick, Update, Next, Writer
<1>2. CASE set_lap \/ Exit \/ PrintLap \/ Stop \/ Join \/ PrintStandings
  BY <1>2 DEF set_lap, Exit, PrintLap, Stop, Join, PrintStandings
<1>3. CASE Look \/ Snapshot
  BY <1>3, DisplayAssumption DEF Look, Snapshot, Next, Reader
<1>4. CASE Others
  BY <1>4 DEF Others, Next
<1>5. CASE UNCHANGED vars
  BY <1>5 DEF vars
<1> QED
  BY <1>1, <1>2, <1>3, <1>4, <1>5 DEF DisplayNext

\* What the program does to the leaderboard is what Leaderboard allows, so that
\* all that is proved of Leaderboard holds of it in the program.
THEOREM UsesTheBoard == DisplaySpec => Spec
  BY StepsOfTheBoard, PTL DEF DisplaySpec, DisplayInit, Spec

\* In the program, too, a snapshot is the standings of one update, whole.
THEOREM WholeSnapshots == DisplaySpec => ImplementsBoard
  BY UsesTheBoard, Refinement, PTL

\* In the program every variable of the leaderboard keeps its type.
THEOREM BoardTypes == DisplaySpec => []TypeOK
  BY UsesTheBoard, TypeCorrect, PTL

-----------------------------------------------------------------------------
(* Display: what main prints *)

\* Where the threads are, and the types of what they share.
ThreadTypes ==
    /\ gpc \in {"tick", "update", "set_lap", "exited", "terminated"}
    /\ mpc \in {"race", "look", "join", "report", "final", "done"}
    /\ laps \in Seq(Nat) /\ stored \in Nat
    /\ known \in 0..stored
    /\ line \in [lap : Nat, standings : Updates]

\* Every tick begins an update, and stores the lap when it is over.
OneUpdatePerTick ==
    /\ calls[Generator] = Len(laps)
    /\ wpc[Generator] # "idle" <=> gpc = "update"
    /\ stored = IF gpc \in {"tick", "exited"} THEN Len(laps) ELSE Len(laps) - 1

\* Once its lap is stored the board is the generator's, and its last complete
\* update is that of the last tick, but while the next is on the way.
BoardOfTheTick ==
    /\ stored > 0 => latest[1] = Generator
    /\ gpc \in {"tick", "set_lap", "exited"} /\ laps # <<>> => latest = <<Generator, Len(laps)>>

\* Laps never run backwards, and go on by one.
LapsRise ==
    /\ \A i, j \in 0..Len(laps) : i <= j => Lap(i) <= Lap(j)
    /\ \A i \in 1..Len(laps) : laps[i] <= Lap(i - 1) + 1

\* The store of the lap before that of update u happens-before main.
KnowsOf(u) == u[1] = Generator => u[2] - 1 <= known

\* main is at the leaderboard only inside its two looks, and has learnt from
\* the mutex what comes with the standings it copies.
Looking ==
    /\ mpc \notin {"look", "final"} => rpc[Main] = "idle"
    /\ rpc[Main] = "copy" => KnowsOf(latest)
    /\ mpc \in {"look", "final"} /\ rpc[Main] = "idle" =>
          /\ copy[Main] # <<>> /\ KnowsOf(copy[Main][1])
          /\ copy[Main][1][1] = Generator => copy[Main][1][2] \in 1..Len(laps)

\* The lap that is printed next is not behind the one printed last.
LineIsKnown == line.lap <= Lap(known)

\* After the join nothing changes any more.
AfterJoin ==
    /\ mpc \in {"report", "final", "done"} => gpc = "exited" /\ line.lap = Lap(Len(laps))
    /\ mpc = "final" /\ rpc[Main] = "idle" /\ laps # <<>> =>
          copy[Main][1] = <<Generator, Len(laps)>>
    /\ mpc = "done" /\ laps # <<>> => line.standings = <<Generator, Len(laps)>>

\* The inductive invariant of the program, over that of the leaderboard.
DisplayInv ==
    /\ ThreadTypes /\ OneUpdatePerTick /\ BoardOfTheTick /\ LapsRise
    /\ Looking /\ LineIsKnown /\ AfterJoin

\* A writer publishes only what it has begun, as the owner, and not while main
\* copies; it leaves the readers alone.
LEMMA WriterPublishes ==
    ASSUME IndInv, NEW w \in Writers, Writer(w)
    PROVE  /\ \/ latest' = latest
              \/ /\ wpc[w] = "write" /\ wpc'[w] = "idle" /\ writer_id_ = w
                 /\ latest' = <<w, calls[w]>> /\ rpc[Main] # "copy"
           /\ UNCHANGED readerVars
           /\ \A v \in Writers \ {w} : wpc'[v] = wpc[v] /\ calls'[v] = calls[v]
<1>1. UNCHANGED readerVars
  BY DEF Writer, UpdateBegin, UpdateLock, UpdateClaim, UpdateThrow, UpdateWrite, UpdateUnlock
<1>2. \A v \in Writers \ {w} : wpc'[v] = wpc[v] /\ calls'[v] = calls[v]
  BY DEF Writer, UpdateBegin, UpdateLock, UpdateClaim, UpdateThrow, UpdateWrite, UpdateUnlock,
         IndInv, TypeOK
<1>3. CASE UpdateUnlock(w)
  <2>1. /\ wpc[w] = "write" /\ wpc'[w] = "idle" /\ latest' = <<w, calls[w]>>
    BY <1>3 DEF UpdateUnlock, IndInv, TypeOK
  <2>2. writer_id_ = w
    BY <2>1 DEF IndInv, Halfway
  <2>3. rpc[Main] # "copy"
    BY <2>1, ThreadsAssumption, DisplayAssumption DEF IndInv, TypeOK, Exclusive
  <2> QED
    BY <1>1, <1>2, <2>1, <2>2, <2>3
<1>4. CASE ~UpdateUnlock(w)
  <2>1. latest' = latest
    BY <1>4 DEF Writer, UpdateBegin, UpdateLock, UpdateClaim, UpdateThrow, UpdateWrite
  <2> QED
    BY <1>1, <1>2, <2>1
<1> QED
  BY <1>3, <1>4

\* The program starts in the invariant.
LEMMA InitDisplayInv == DisplayInit => DisplayInv
<1> SUFFICES ASSUME DisplayInit PROVE DisplayInv
  OBVIOUS
<1>1. ThreadTypes /\ OneUpdatePerTick /\ BoardOfTheTick
  BY DisplayAssumption DEF DisplayInit, Init, ThreadTypes, OneUpdatePerTick, BoardOfTheTick, Updates
<1>2. LapsRise
  BY DEF DisplayInit, LapsRise, Lap
<1>3. Looking /\ LineIsKnown /\ AfterJoin
  BY DisplayAssumption DEF DisplayInit, Init, Looking, LineIsKnown, AfterJoin, Lap
<1> QED
  BY <1>1, <1>2, <1>3 DEF DisplayInv

\* The laps stored already stay, and a tick adds one that is the same or the next.
LEMMA LapsGrow ==
    ASSUME DisplayInv, NEW lap \in {Lap(Len(laps)), Lap(Len(laps)) + 1},
           laps' = Append(laps, lap)
    PROVE  /\ laps' \in Seq(Nat) /\ Len(laps') = Len(laps) + 1 /\ LapsRise'
           /\ \A k \in 0..Len(laps) : Lap(k)' = Lap(k)
<1>1. laps \in Seq(Nat) /\ Len(laps) \in Nat /\ \A k \in 0..Len(laps) : Lap(k) \in Nat
  BY DEF DisplayInv, ThreadTypes, Lap
<1>2. /\ laps' \in Seq(Nat) /\ Len(laps') = Len(laps) + 1
      /\ laps'[Len(laps) + 1] = lap /\ \A k \in 1..Len(laps) : laps'[k] = laps[k]
  BY <1>1
<1>3. \A k \in 0..Len(laps) : Lap(k)' = Lap(k)
  BY <1>1, <1>2 DEF Lap
<1>4. /\ \A k \in Nat : k = Len(laps) + 1 => Lap(k)' = lap
      /\ lap \in Nat /\ lap >= Lap(Len(laps)) /\ lap <= Lap(Len(laps)) + 1
  BY <1>1, <1>2 DEF Lap
<1>5. ASSUME NEW i \in 0..(Len(laps) + 1), NEW j \in 0..(Len(laps) + 1), i <= j
      PROVE  Lap(i)' <= Lap(j)'
  <2>1. CASE j \in 0..Len(laps)
    <3>1. i \in 0..Len(laps)
      BY <1>1, <1>5, <2>1
    <3> QED
      BY <1>3, <1>5, <2>1, <3>1 DEF DisplayInv, LapsRise
  <2>2. CASE j = Len(laps) + 1
    <3>1. CASE i = Len(laps) + 1
      BY <1>4, <2>2, <3>1
    <3>2. CASE i \in 0..Len(laps)
      <4>1. Lap(i) <= Lap(Len(laps))
        BY <1>1, <3>2 DEF DisplayInv, LapsRise
      <4> QED
        BY <1>1, <1>3, <1>4, <2>2, <3>2, <4>1
    <3> QED
      BY <1>1, <3>1, <3>2
  <2> QED
    BY <1>1, <2>1, <2>2
<1>6. ASSUME NEW i \in 1..(Len(laps) + 1) PROVE laps'[i] <= Lap(i - 1)' + 1
  <2>1. i - 1 \in 0..Len(laps)
    BY <1>1
  <2>2. CASE i \in 1..Len(laps)
    BY <1>2, <1>3, <2>1, <2>2 DEF DisplayInv, LapsRise
  <2>3. CASE i = Len(laps) + 1
    BY <1>1, <1>2, <1>3, <1>4, <2>1, <2>3
  <2> QED
    BY <1>1, <2>2, <2>3
<1>7. LapsRise'
  BY <1>2, <1>5, <1>6 DEF LapsRise
<1> QED
  BY <1>2, <1>3, <1>7

\* The tick, with the begin of the update.
LEMMA TickKeeps == ASSUME IndInv, DisplayInv, Tick PROVE DisplayInv'
<1> PICK lap \in {Lap(Len(laps)), Lap(Len(laps)) + 1} : laps' = Append(laps, lap)
  BY DEF Tick
<1>1. /\ laps' \in Seq(Nat) /\ Len(laps') = Len(laps) + 1 /\ LapsRise'
      /\ \A k \in 0..Len(laps) : Lap(k)' = Lap(k)
  BY LapsGrow
<1>2. /\ gpc = "tick" /\ gpc' = "update" /\ UNCHANGED <<stored, mainVars, readerVars, latest>>
      /\ calls'[Generator] = calls[Generator] + 1 /\ wpc'[Generator] = "lock"
  BY DisplayAssumption DEF Tick, UpdateBegin, IndInv, TypeOK
<1>3. laps \in Seq(Nat) /\ Len(laps) \in Nat /\ stored = Len(laps) /\ known \in 0..stored
  BY <1>2 DEF DisplayInv, ThreadTypes, OneUpdatePerTick
<1>4. ThreadTypes' /\ OneUpdatePerTick'
  BY <1>1, <1>2, <1>3 DEF DisplayInv, ThreadTypes, OneUpdatePerTick, mainVars
<1>5. BoardOfTheTick'
  BY <1>2 DEF DisplayInv, BoardOfTheTick
<1>6. Looking'
  BY <1>1, <1>2, <1>3 DEF DisplayInv, Looking, KnowsOf, mainVars, readerVars
<1>7. LineIsKnown'
  BY <1>1, <1>2, <1>3 DEF DisplayInv, LineIsKnown, mainVars
<1>8. AfterJoin'
  BY <1>2 DEF DisplayInv, AfterJoin, mainVars
<1> QED
  BY <1>1, <1>4, <1>5, <1>6, <1>7, <1>8 DEF DisplayInv

\* The steps of the update: it ends with the generator's update complete, or
\* the process.
LEMMA UpdateKeeps == ASSUME IndInv, DisplayInv, Update PROVE DisplayInv'
<1>1. Writer(Generator) /\ Generator \in Writers
  BY DisplayAssumption DEF Update, Writer
<1>2. /\ gpc = "update" /\ UNCHANGED <<laps, stored, mainVars, readerVars>>
      /\ calls'[Generator] = calls[Generator]
  <2>1. UNCHANGED readerVars
    BY <1>1, WriterPublishes
  <2>2. calls' = calls
    BY DEF Update, UpdateLock, UpdateClaim, UpdateThrow, UpdateWrite, UpdateUnlock
  <2> QED
    BY <2>1, <2>2 DEF Update
<1>3. \/ wpc'[Generator] # "idle" /\ gpc' = "update" /\ latest' = latest
      \/ wpc'[Generator] = "idle" /\ gpc' = "terminated" /\ latest' = latest
      \/ /\ wpc'[Generator] = "idle" /\ gpc' = "set_lap"
         /\ latest' = <<Generator, calls[Generator]>>
  BY <1>1, <1>2 DEF Update, UpdateLock, UpdateClaim, UpdateWrite, UpdateThrow, UpdateUnlock,
                    IndInv, TypeOK
<1>4. \/ latest' = latest
      \/ /\ wpc[Generator] = "write" /\ wpc'[Generator] = "idle"
         /\ latest' = <<Generator, calls[Generator]>> /\ rpc[Main] # "copy"
  BY <1>1, WriterPublishes
<1>5. laps \in Seq(Nat) /\ Len(laps) \in Nat /\ stored = Len(laps) - 1
      /\ calls[Generator] = Len(laps)
  BY <1>2 DEF DisplayInv, ThreadTypes, OneUpdatePerTick
<1>6. gpc' \in {"update", "set_lap", "terminated"}
  BY <1>3
<1>7. ThreadTypes' /\ OneUpdatePerTick'
  BY <1>2, <1>3, <1>5, <1>6 DEF DisplayInv, ThreadTypes, OneUpdatePerTick, mainVars
<1>8. BoardOfTheTick'
  BY <1>2, <1>3, <1>4, <1>5, <1>6 DEF DisplayInv, BoardOfTheTick
<1>9. LapsRise' /\ LineIsKnown'
  BY <1>2 DEF DisplayInv, LapsRise, LineIsKnown, Lap, mainVars
<1>10. Looking'
  BY <1>2, <1>4 DEF DisplayInv, Looking, KnowsOf, mainVars, readerVars
<1>11. AfterJoin'
  BY <1>2 DEF DisplayInv, AfterJoin, mainVars
<1> QED
  BY <1>7, <1>8, <1>9, <1>10, <1>11 DEF DisplayInv

\* The other steps of the generator.
LEMMA GeneratorKeeps == ASSUME IndInv, DisplayInv, set_lap \/ Exit PROVE DisplayInv'
<1>1. /\ gpc \in {"tick", "set_lap"} /\ gpc' \in {"tick", "exited"}
      /\ UNCHANGED <<boardVars, laps, mainVars>>
      /\ stored' = IF gpc = "set_lap" THEN stored + 1 ELSE stored
  BY DEF set_lap, Exit
<1>2. laps \in Seq(Nat) /\ Len(laps) \in Nat /\ stored \in Nat
      /\ stored = IF gpc = "tick" THEN Len(laps) ELSE Len(laps) - 1
  BY <1>1 DEF DisplayInv, ThreadTypes, OneUpdatePerTick
<1>3. ThreadTypes' /\ OneUpdatePerTick'
  BY <1>1, <1>2 DEF DisplayInv, ThreadTypes, OneUpdatePerTick, mainVars, boardVars, writerVars
<1>4. BoardOfTheTick'
  <2>1. laps # <<>> => latest = <<Generator, Len(laps)>>
    BY <1>1 DEF DisplayInv, BoardOfTheTick
  <2>2. stored' > 0 => laps # <<>>
    BY <1>1, <1>2
  <2> QED
    BY <1>1, <2>1, <2>2 DEF BoardOfTheTick, boardVars, writerVars
<1>5. LapsRise' /\ LineIsKnown'
  BY <1>1 DEF DisplayInv, LapsRise, LineIsKnown, Lap, mainVars
<1>6. Looking'
  BY <1>1 DEF DisplayInv, Looking, KnowsOf, mainVars, boardVars, writerVars, readerVars
<1>7. AfterJoin'
  BY <1>1 DEF DisplayInv, AfterJoin, mainVars, boardVars, writerVars, readerVars
<1> QED
  BY <1>3, <1>4, <1>5, <1>6, <1>7 DEF DisplayInv

\* A complete update of the generator is one whose lap, or the lap before,
\* has been stored.
LEMMA LatestIsStored ==
    ASSUME IndInv, DisplayInv, latest[1] = Generator
    PROVE  latest[2] \in 1..Len(laps) /\ latest[2] - 1 \in 0..stored
<1>1. latest[2] \in Nat \ {0} /\ latest[2] <= calls[Generator]
  BY BoundsAssumption, ThreadsAssumption, DisplayAssumption
     DEF IndInv, TypeOK, Updates, NoUpdate, LatestIsOwners
<1>2. calls[Generator] = Len(laps) /\ Len(laps) \in Nat /\ stored \in Nat
      /\ (stored = Len(laps) \/ stored = Len(laps) - 1)
  BY DEF DisplayInv, ThreadTypes, OneUpdatePerTick
<1> QED
  BY <1>1, <1>2

\* main's own steps that leave the leaderboard alone.
LEMMA MainKeeps ==
    ASSUME IndInv, DisplayInv, PrintLap \/ Stop \/ Join \/ PrintStandings
    PROVE  DisplayInv'
<1>1. UNCHANGED <<boardVars, callbackVars>>
  BY DEF PrintLap, Stop, Join, PrintStandings
<1>2. OneUpdatePerTick' /\ BoardOfTheTick' /\ LapsRise'
  BY <1>1 DEF DisplayInv, OneUpdatePerTick, BoardOfTheTick, LapsRise, Lap, callbackVars, boardVars,
              writerVars
<1>3. laps \in Seq(Nat) /\ stored \in Nat /\ known \in 0..stored /\ stored <= Len(laps)
      /\ Len(laps) \in Nat /\ line \in [lap : Nat, standings : Updates]
      /\ \A k \in 0..Len(laps) : Lap(k) \in Nat
  BY DEF DisplayInv, ThreadTypes, OneUpdatePerTick, Lap
<1>4. CASE PrintLap
  <2>1. /\ mpc = "look" /\ mpc' = "race" /\ rpc[Main] = "idle" /\ copy[Main] # <<>>
    BY <1>4 DEF PrintLap, DisplayInv, Looking
  <2>2. copy[Main][1] \in Updates
    BY <2>1, DisplayAssumption DEF IndInv, TypeOK
  <2>3. CASE UNCHANGED <<known, line>>
    <3>1. ThreadTypes' /\ LineIsKnown' /\ AfterJoin'
      BY <1>1, <2>1, <2>3 DEF DisplayInv, ThreadTypes, LineIsKnown, AfterJoin, Lap, callbackVars
    <3>2. Looking'
      BY <1>1, <2>1, <2>3 DEF Looking, KnowsOf, callbackVars, boardVars, readerVars
    <3> QED
      BY <1>2, <3>1, <3>2 DEF DisplayInv
  <2>4. CASE \E k \in known..stored :
                known' = k /\ line' = [lap |-> Lap(k), standings |-> copy[Main][1]]
    <3> PICK k \in known..stored :
               known' = k /\ line' = [lap |-> Lap(k), standings |-> copy[Main][1]]
      BY <2>4
    <3>1. k \in 0..stored /\ k \in 0..Len(laps) /\ Lap(k) \in Nat /\ Lap(k)' = Lap(k)
      BY <1>1, <1>3 DEF Lap, callbackVars
    <3>2. ThreadTypes' /\ AfterJoin'
      BY <1>1, <2>1, <2>2, <3>1 DEF DisplayInv, ThreadTypes, AfterJoin, callbackVars
    <3>3. LineIsKnown'
      <4>1. line'.lap = Lap(k)
        OBVIOUS
      <4>2. Lap(known)' = Lap(k)
        BY <1>1 DEF Lap, callbackVars
      <4> QED
        BY <3>1, <4>1, <4>2 DEF LineIsKnown
    <3>4. Looking'
      BY <1>1, <2>1 DEF Looking, boardVars, readerVars
    <3> QED
      BY <1>2, <3>2, <3>3, <3>4 DEF DisplayInv
  <2> QED
    BY <1>4, <2>3, <2>4 DEF PrintLap
<1>5. CASE Stop
  <2>1. ThreadTypes' /\ LineIsKnown' /\ AfterJoin'
    BY <1>1, <1>5 DEF Stop, DisplayInv, ThreadTypes, LineIsKnown, AfterJoin, Lap, callbackVars
  <2>2. Looking'
    BY <1>1, <1>5 DEF Stop, DisplayInv, Looking, KnowsOf, callbackVars, boardVars, readerVars
  <2> QED
    BY <1>2, <2>1, <2>2 DEF DisplayInv
<1>6. CASE Join
  <2>1. /\ mpc = "join" /\ mpc' = "report" /\ known' = stored /\ rpc[Main] = "idle"
        /\ gpc = "exited" /\ stored = Len(laps) /\ line' = [line EXCEPT !.lap = Lap(stored)]
    BY <1>6 DEF Join, Joined, DisplayInv, Looking, OneUpdatePerTick
  <2>2. line' \in [lap : Nat, standings : Updates] /\ line'.lap = Lap(Len(laps))
    BY <1>3, <2>1
  <2>3. Lap(known)' = Lap(Len(laps)) /\ Lap(Len(laps))' = Lap(Len(laps))
    BY <1>1, <2>1 DEF Lap, callbackVars
  <2>4. ThreadTypes' /\ LineIsKnown' /\ AfterJoin'
    BY <1>1, <1>3, <2>1, <2>2, <2>3 DEF DisplayInv, ThreadTypes, LineIsKnown, AfterJoin, callbackVars
  <2>5. Looking'
    BY <1>1, <2>1 DEF Looking, boardVars, readerVars
  <2> QED
    BY <1>2, <2>4, <2>5 DEF DisplayInv
<1>7. CASE PrintStandings
  <2>1. /\ mpc = "final" /\ mpc' = "done" /\ rpc[Main] = "idle" /\ known' = known
        /\ copy[Main] # <<>> /\ line' = [line EXCEPT !.standings = copy[Main][1]]
    BY <1>7 DEF PrintStandings, DisplayInv, Looking
  <2>2. copy[Main][1] \in Updates
    BY <2>1, DisplayAssumption DEF IndInv, TypeOK
  <2>3. line' \in [lap : Nat, standings : Updates] /\ line'.lap = line.lap
        /\ line'.standings = copy[Main][1]
    BY <1>3, <2>1, <2>2
  <2>4. ThreadTypes' /\ LineIsKnown'
    BY <1>1, <2>1, <2>3 DEF DisplayInv, ThreadTypes, LineIsKnown, Lap, callbackVars
  <2>5. AfterJoin'
    BY <1>1, <2>1, <2>3 DEF DisplayInv, AfterJoin, Lap, callbackVars
  <2>6. Looking'
    BY <1>1, <2>1 DEF Looking, boardVars, readerVars
  <2> QED
    BY <1>2, <2>4, <2>5, <2>6 DEF DisplayInv
<1> QED
  BY <1>4, <1>5, <1>6, <1>7

\* main's steps at the leaderboard.
LEMMA LookKeeps == ASSUME IndInv, DisplayInv, Look \/ Snapshot PROVE DisplayInv'
<1>1. UNCHANGED <<writerVars, callbackVars, stop, line>>
  BY DEF Look, Snapshot, SnapshotBegin, SnapshotLock, SnapshotCopy, SnapshotUnlock
<1>2. OneUpdatePerTick' /\ BoardOfTheTick' /\ LapsRise'
  BY <1>1 DEF DisplayInv, OneUpdatePerTick, BoardOfTheTick, LapsRise, Lap, callbackVars, writerVars
<1>3. laps \in Seq(Nat) /\ Len(laps) \in Nat /\ stored \in Nat /\ known \in 0..stored
      /\ stored <= Len(laps) /\ line.lap \in Nat /\ \A k \in 0..Len(laps) : Lap(k) \in Nat
  BY DEF DisplayInv, ThreadTypes, OneUpdatePerTick, Lap
<1>4. CASE Look
  <2>1. /\ mpc \in {"race", "report"} /\ rpc'[Main] = "lock" /\ known' = known
        /\ mpc' = IF mpc = "race" THEN "look" ELSE "final"
    BY <1>4, DisplayAssumption DEF Look, SnapshotBegin, IndInv, TypeOK
  <2>2. ThreadTypes' /\ LineIsKnown'
    BY <1>1, <2>1 DEF DisplayInv, ThreadTypes, LineIsKnown, Lap, callbackVars
  <2>3. Looking'
    BY <2>1 DEF Looking
  <2>4. AfterJoin'
    BY <1>1, <2>1 DEF DisplayInv, AfterJoin, Lap, callbackVars
  <2> QED
    BY <1>2, <2>2, <2>3, <2>4 DEF DisplayInv
<1>5. CASE Snapshot /\ SnapshotLock(Main)
  <2>1. rpc[Main] = "lock" /\ rpc'[Main] = "copy" /\ mpc' = mpc
    BY <1>5, DisplayAssumption DEF Snapshot, SnapshotLock, SnapshotCopy, SnapshotUnlock, IndInv, TypeOK
  <2>2. known' = IF Learn > known THEN Learn ELSE known
    BY <1>5, <2>1 DEF Snapshot, SnapshotCopy, SnapshotUnlock
  <2>3. Learn \in 0..stored /\ (latest[1] = Generator => Learn = latest[2] - 1)
    BY <1>3, LatestIsStored DEF Learn
  <2>4. known' \in known..stored /\ known' >= Learn
    BY <1>3, <2>2, <2>3
  <2>5. ThreadTypes'
    BY <1>1, <1>3, <2>1, <2>4 DEF DisplayInv, ThreadTypes, callbackVars
  <2>6. Looking'
    <3>1. KnowsOf(latest)'
      BY <1>1, <2>3, <2>4 DEF KnowsOf, writerVars
    <3> QED
      BY <2>1, <3>1 DEF DisplayInv, Looking
  <2>7. LineIsKnown'
    <3>1. \A k \in 0..Len(laps) : Lap(k)' = Lap(k)
      BY <1>1 DEF Lap, callbackVars
    <3>2. PICK k \in 0..Len(laps) : k = known' /\ known <= k
      BY <1>3, <2>4
    <3>3. Lap(known) <= Lap(k) /\ Lap(known) \in Nat /\ Lap(k) \in Nat
      BY <1>3, <3>2 DEF DisplayInv, LapsRise
    <3>4. Lap(known)' = Lap(k)
      BY <1>1, <3>2 DEF Lap, callbackVars
    <3>5. line.lap <= Lap(known)
      BY DEF DisplayInv, LineIsKnown
    <3> QED
      BY <1>1, <1>3, <3>3, <3>4, <3>5 DEF LineIsKnown
  <2>8. AfterJoin'
    BY <1>1, <2>1 DEF DisplayInv, AfterJoin, Lap, callbackVars
  <2> QED
    BY <1>2, <2>5, <2>6, <2>7, <2>8 DEF DisplayInv
<1>6. CASE Snapshot /\ (SnapshotCopy(Main) \/ SnapshotUnlock(Main))
  <2>1. rpc[Main] = "copy" /\ mpc' = mpc /\ known' = known
    BY <1>6 DEF Snapshot, SnapshotLock, SnapshotCopy, SnapshotUnlock
  <2>2. \/ rpc'[Main] = "copy"
        \/ /\ rpc'[Main] = "idle" /\ copy' = copy /\ copy[Main] # <<>> /\ copy[Main][1] = latest
    <3>1. CASE SnapshotCopy(Main)
      BY <2>1, <3>1 DEF SnapshotCopy
    <3>2. CASE SnapshotUnlock(Main)
      <4>1. copy[Main] # <<>> /\ 1 \in DOMAIN copy[Main]
        BY <3>2, BoundsAssumption, DisplayAssumption DEF SnapshotUnlock, IndInv, TypeOK
      <4>2. copy[Main][1] = latest
        BY <2>1, <4>1, DisplayAssumption DEF IndInv, CopiesLatest
      <4> QED
        BY <3>2, <4>1, <4>2, DisplayAssumption DEF SnapshotUnlock, IndInv, TypeOK
    <3> QED
      BY <1>6, <3>1, <3>2
  <2>3. ThreadTypes' /\ LineIsKnown'
    BY <1>1, <2>1 DEF DisplayInv, ThreadTypes, LineIsKnown, Lap, callbackVars
  <2>4. Looking'
    <3>1. KnowsOf(latest) /\ KnowsOf(latest)' /\ mpc \in {"look", "final"}
      BY <1>1, <2>1 DEF DisplayInv, ThreadTypes, Looking, KnowsOf, writerVars
    <3>2. latest[1] = Generator => latest[2] \in 1..Len(laps)
      BY LatestIsStored
    <3> QED
      BY <1>1, <2>1, <2>2, <3>1, <3>2 DEF Looking, KnowsOf, callbackVars
  <2>5. AfterJoin'
    <3>1. gpc = "exited" /\ laps # <<>> => latest = <<Generator, Len(laps)>>
      BY DEF DisplayInv, BoardOfTheTick
    <3> QED
      BY <1>1, <2>1, <2>2, <3>1 DEF DisplayInv, AfterJoin, Lap, callbackVars
  <2> QED
    BY <1>2, <2>3, <2>4, <2>5 DEF DisplayInv
<1> QED
  BY <1>4, <1>5, <1>6 DEF Snapshot

\* The other threads: none publishes in the generator's place, or while main
\* copies.
LEMMA OthersKeep == ASSUME IndInv, DisplayInv, Others PROVE DisplayInv'
<1>1. UNCHANGED <<callbackVars, mainVars>>
  BY DEF Others
<1>2. /\ wpc'[Generator] = wpc[Generator] /\ calls'[Generator] = calls[Generator]
      /\ rpc'[Main] = rpc[Main] /\ copy'[Main] = copy[Main]
      /\ \/ latest' = latest
         \/ /\ rpc[Main] # "copy" /\ writer_id_ \notin {Nobody, Generator}
            /\ latest'[1] # Generator
  <2>1. CASE \E w \in Writers \ {Generator} : Writer(w)
    <3> PICK w \in Writers \ {Generator} : Writer(w)
      BY <2>1
    <3>1. w # Nobody /\ Generator \in Writers \ {w}
      BY ThreadsAssumption, DisplayAssumption
    <3> QED
      BY <3>1, WriterPublishes DEF readerVars
  <2>2. CASE \E r \in Readers \ {Main} : Reader(r)
    <3> PICK r \in Readers \ {Main} : Reader(r)
      BY <2>2
    <3>1. UNCHANGED writerVars
      BY DEF Reader, SnapshotBegin, SnapshotLock, SnapshotCopy, SnapshotUnlock
    <3>2. rpc'[Main] = rpc[Main] /\ copy'[Main] = copy[Main]
      BY DisplayAssumption
         DEF Reader, SnapshotBegin, SnapshotLock, SnapshotCopy, SnapshotUnlock, IndInv, TypeOK
    <3> QED
      BY <3>1, <3>2 DEF writerVars
  <2> QED
    BY <2>1, <2>2 DEF Others
<1>3. ThreadTypes' /\ OneUpdatePerTick' /\ LapsRise' /\ LineIsKnown'
  BY <1>1, <1>2 DEF DisplayInv, ThreadTypes, OneUpdatePerTick, LapsRise, LineIsKnown, Lap,
                    callbackVars, mainVars
<1>4. BoardOfTheTick'
  <2>1. CASE latest' = latest
    BY <1>1, <2>1 DEF DisplayInv, BoardOfTheTick, callbackVars
  <2>2. CASE latest' # latest
    <3>1. latest[1] # Generator
      BY <1>2, <2>2, ThreadsAssumption, DisplayAssumption DEF IndInv, LatestIsOwners, NoUpdate
    <3>2. stored = 0 /\ ~(gpc \in {"tick", "set_lap", "exited"} /\ laps # <<>>)
      BY <3>1 DEF DisplayInv, ThreadTypes, BoardOfTheTick
    <3> QED
      BY <1>1, <3>2 DEF BoardOfTheTick, callbackVars
  <2> QED
    BY <2>1, <2>2
<1>5. Looking' /\ AfterJoin'
  BY <1>1, <1>2 DEF DisplayInv, Looking, AfterJoin, KnowsOf, Lap, callbackVars, mainVars
<1> QED
  BY <1>3, <1>4, <1>5 DEF DisplayInv

\* The inductive invariant of the program holds throughout.
THEOREM DisplayInvariance == DisplaySpec => [](IndInv /\ DisplayInv)
<1>1. DisplaySpec => []IndInv
  BY UsesTheBoard, Invariance, PTL
<1>2. ASSUME IndInv, DisplayInv, [DisplayNext]_vars PROVE DisplayInv'
  <2>1. CASE UNCHANGED vars
    BY <1>2, <2>1 DEF DisplayInv, ThreadTypes, OneUpdatePerTick, BoardOfTheTick, LapsRise, Looking,
         LineIsKnown, AfterJoin, KnowsOf, Lap, vars, callbackVars, mainVars, boardVars, writerVars,
         readerVars
  <2>2. CASE DisplayNext
    BY <1>2, <2>2, TickKeeps, UpdateKeeps, GeneratorKeeps, MainKeeps, LookKeeps, OthersKeep
       DEF DisplayNext
  <2> QED
    BY <1>2, <2>1, <2>2
<1> QED
  BY <1>1, <1>2, InitDisplayInv, PTL DEF DisplaySpec

\* A lap that is printed over standings is not older than theirs by more than
\* one, and printed laps never run backwards, though the lap is loaded relaxed
\* and after the standings were copied.
THEOREM LapLines == DisplaySpec => LapLineIsRecent
<1> DEFINE Recent == mpc' = "race" /\ line' # line =>
                         /\ line'.lap >= line.lap
                         /\ line'.standings[1] = Generator =>
                                line'.lap >= laps[line'.standings[2]] - 1
<1>1. ASSUME IndInv, DisplayInv, [DisplayNext]_vars PROVE [Recent]_vars
  <2> SUFFICES ASSUME mpc' = "race", line' # line
               PROVE  /\ line'.lap >= line.lap
                      /\ line'.standings[1] = Generator =>
                             line'.lap >= laps[line'.standings[2]] - 1
    OBVIOUS
  <2>1. PrintLap
    <3>1. DisplayNext
      BY <1>1 DEF vars, mainVars
    <3>2. ~(Tick \/ Update \/ set_lap \/ Exit \/ Others)
      BY DEF Tick, Update, set_lap, Exit, Others, mainVars
    <3>3. ~(Look \/ Snapshot \/ Stop \/ Join \/ PrintStandings)
      BY DEF Look, Snapshot, Stop, Join, PrintStandings
    <3> QED
      BY <3>1, <3>2, <3>3 DEF DisplayNext
  <2>2. PICK k \in known..stored :
               known' = k /\ line' = [lap |-> Lap(k), standings |-> copy[Main][1]]
    BY <2>1 DEF PrintLap
  <2>3. /\ laps \in Seq(Nat) /\ k \in 0..Len(laps) /\ known \in 0..Len(laps) /\ known <= k
        /\ \A i \in 0..Len(laps) : Lap(i) \in Nat
    BY <1>1, <2>2 DEF DisplayInv, ThreadTypes, OneUpdatePerTick, Lap
  <2>4. line'.lap >= line.lap
    <3>1. line.lap <= Lap(known) /\ Lap(known) <= Lap(k) /\ line.lap \in Nat
      BY <1>1, <2>3 DEF DisplayInv, ThreadTypes, LineIsKnown, LapsRise
    <3> QED
      BY <2>2, <2>3, <3>1
  <2>5. ASSUME copy[Main][1][1] = Generator
        PROVE  Lap(k) >= laps[copy[Main][1][2]] - 1
    <3>1. PICK n \in 1..Len(laps) : n = copy[Main][1][2] /\ n - 1 <= known
      BY <1>1, <2>1, <2>5 DEF PrintLap, DisplayInv, Looking, KnowsOf
    <3>2. n - 1 \in 0..Len(laps) /\ n - 1 <= k
      <4>1. k \in Nat /\ known \in Nat /\ known <= k /\ k <= Len(laps) /\ Len(laps) \in Nat
        BY <2>3
      <4>2. n \in Nat /\ n >= 1 /\ n - 1 <= known
        BY <3>1, <4>1
      <4>3. n - 1 <= k
        BY <4>1, <4>2
      <4> QED
        BY <4>1, <4>2, <4>3
    <3>3. laps[n] <= Lap(n - 1) + 1 /\ Lap(n - 1) <= Lap(k)
      BY <1>1, <2>3, <3>2 DEF DisplayInv, LapsRise
    <3>4. laps[n] \in Nat /\ Lap(n - 1) \in Nat /\ Lap(k) \in Nat
      BY <2>3, <3>2
    <3>5. Lap(k) >= laps[n] - 1
      BY <3>3, <3>4
    <3> QED
      BY <3>1, <3>5
  <2> QED
    BY <2>2, <2>4, <2>5
<1>2. DisplaySpec => [][Recent]_vars
  BY <1>1, DisplayInvariance, PTL DEF DisplaySpec
<1> QED
  BY <1>2 DEF LapLineIsRecent

\* The report is of the last tick: its lap and its standings.
THEOREM FinalReport == DisplaySpec => []ReportIsFinal
<1>1. DisplayInv => ReportIsFinal
  BY DEF DisplayInv, AfterJoin, ReportIsFinal
<1> QED
  BY <1>1, DisplayInvariance, PTL
=============================================================================
