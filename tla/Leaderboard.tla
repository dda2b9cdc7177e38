----------------------------- MODULE Leaderboard -----------------------------
(***************************************************************************)
(* Leaderboard of common/leaderboard.h: standings under a shared_mutex,    *)
(* one thread that may update them, and readers that are given copies.     *)
(*                                                                         *)
(* Standings are as many entries as there are drivers; an update writes    *)
(* them, and a reader copies them, one by one, so that only the locks keep *)
(* the copy from being a mixture.  An entry is the update it comes from:   *)
(* the thread that called it and which of its calls it was.                *)
(***************************************************************************)
EXTENDS Naturals, Sequences, FiniteSets

CONSTANTS
    Writers,        \* threads that call update
    Readers,        \* threads that call snapshot, size, at_position, ...
    Nobody,         \* std::thread::id{}
    Entries,        \* how many entries standings have
    MaxUpdates      \* bound of the model: updates by each writer

ASSUME ThreadsAssumption == Writers \cap Readers = {} /\ Nobody \notin Writers
ASSUME BoundsAssumption == Entries \in Nat \ {0} /\ MaxUpdates \in Nat

NoUpdate == <<Nobody, 0>>
Updates == (Writers \X (1..MaxUpdates)) \cup {NoUpdate}

VARIABLES
    owner,          \* the writer that holds mutex_ exclusively
    sharers,        \* the readers that hold it shared
    writer_id_,
    standings_,     \* entry -> the update it comes from
    wpc,            \* writer -> where it is in update
    calls,          \* writer -> how many updates it has begun
    wnext,          \* writer -> the entry it writes next
    rpc,            \* reader -> where it is
    copy,           \* reader -> the entries it has copied
    latest          \* history: the last update that was complete

writerVars == <<writer_id_, standings_, wpc, calls, wnext, latest>>
readerVars == <<rpc, copy>>
boardVars == <<owner, sharers, writerVars, readerVars>>

Init ==
    /\ owner = Nobody /\ sharers = {}
    /\ writer_id_ = Nobody
    /\ standings_ = [e \in 1..Entries |-> NoUpdate]
    /\ wpc = [w \in Writers |-> "idle"]
    /\ calls = [w \in Writers |-> 0]
    /\ wnext = [w \in Writers |-> 1]
    /\ rpc = [r \in Readers |-> "idle"]
    /\ copy = [r \in Readers |-> <<>>]
    /\ latest = NoUpdate

-----------------------------------------------------------------------------
(* update *)

UpdateBegin(w) ==
    /\ wpc[w] = "idle" /\ calls[w] < MaxUpdates
    /\ calls' = [calls EXCEPT ![w] = @ + 1]
    /\ wpc' = [wpc EXCEPT ![w] = "lock"]
    /\ UNCHANGED <<owner, sharers, writer_id_, standings_, wnext, latest, readerVars>>

\* A unique_lock can be had: nobody holds the mutex in either way.  Its mutant
\* looks for writers only.
NoWriter == owner = Nobody
Free == owner = Nobody /\ sharers = {}

UpdateLock(w) ==
    /\ wpc[w] = "lock" /\ Free
    /\ owner' = w
    /\ wpc' = [wpc EXCEPT ![w] = "check"]
    /\ UNCHANGED <<sharers, writer_id_, standings_, calls, wnext, latest, readerVars>>

\* The first writer claims the leaderboard; the owner goes on.
UpdateClaim(w) ==
    /\ wpc[w] = "check"
    /\ writer_id_ \in {Nobody, w}
    /\ writer_id_' = w
    /\ wnext' = [wnext EXCEPT ![w] = 1]
    /\ wpc' = [wpc EXCEPT ![w] = "write"]
    /\ UNCHANGED <<owner, sharers, standings_, calls, latest, readerVars>>

\* Who holds the mutex when an exception has left update of w.  In its mutant
\* it is not unlocked.
LeftLocked(w) == w
Unwound(w) == Nobody

\* Another thread has claimed it: throw std::logic_error.
UpdateThrow(w) ==
    /\ wpc[w] = "check"
    /\ writer_id_ \notin {Nobody, w}
    /\ owner' = Unwound(w)
    /\ wpc' = [wpc EXCEPT ![w] = "idle"]
    /\ UNCHANGED <<sharers, writer_id_, standings_, calls, wnext, latest, readerVars>>

\* standings_ = std::move(sorted_standings), an entry of it.
UpdateWrite(w) ==
    /\ wpc[w] = "write" /\ wnext[w] <= Entries
    /\ standings_' = [standings_ EXCEPT ![wnext[w]] = <<w, calls[w]>>]
    /\ wnext' = [wnext EXCEPT ![w] = @ + 1]
    /\ UNCHANGED <<owner, sharers, writer_id_, wpc, calls, latest, readerVars>>

UpdateUnlock(w) ==
    /\ wpc[w] = "write" /\ wnext[w] > Entries
    /\ owner' = Nobody
    /\ latest' = <<w, calls[w]>>
    /\ wpc' = [wpc EXCEPT ![w] = "idle"]
    /\ UNCHANGED <<sharers, writer_id_, standings_, calls, wnext, readerVars>>

-----------------------------------------------------------------------------
(* snapshot; the other readers look at the entries in the same way *)

SnapshotBegin(r) ==
    /\ rpc[r] = "idle"
    /\ copy' = [copy EXCEPT ![r] = <<>>]
    /\ rpc' = [rpc EXCEPT ![r] = "lock"]
    /\ UNCHANGED <<owner, sharers, writerVars>>

\* The shared_lock: no writer holds the mutex.
SnapshotLock(r) ==
    /\ rpc[r] = "lock"
    /\ owner = Nobody
    /\ sharers' = sharers \cup {r}
    /\ rpc' = [rpc EXCEPT ![r] = "copy"]
    /\ UNCHANGED <<owner, copy, writerVars>>

SnapshotCopy(r) ==
    /\ rpc[r] = "copy" /\ Len(copy[r]) < Entries
    /\ copy' = [copy EXCEPT ![r] = Append(@, standings_[Len(@) + 1])]
    /\ UNCHANGED <<owner, sharers, rpc, writerVars>>

SnapshotUnlock(r) ==
    /\ rpc[r] = "copy" /\ Len(copy[r]) = Entries
    /\ sharers' = sharers \ {r}
    /\ rpc' = [rpc EXCEPT ![r] = "idle"]
    /\ UNCHANGED <<owner, copy, writerVars>>

Writer(w) ==
    \/ UpdateBegin(w) \/ UpdateLock(w) \/ UpdateClaim(w) \/ UpdateThrow(w)
    \/ UpdateWrite(w) \/ UpdateUnlock(w)

Reader(r) ==
    SnapshotBegin(r) \/ SnapshotLock(r) \/ SnapshotCopy(r) \/ SnapshotUnlock(r)

Next == (\E w \in Writers : Writer(w)) \/ (\E r \in Readers : Reader(r))

Spec == Init /\ [][Next]_boardVars

-----------------------------------------------------------------------------
(* Properties *)

\* Every variable has its type, and the mutex is held by the threads that
\* are where it is held, exclusively or shared.
TypeOK ==
    /\ owner \in Writers \cup {Nobody} /\ sharers \subseteq Readers
    /\ writer_id_ \in Writers \cup {Nobody}
    /\ standings_ \in [1..Entries -> Updates] /\ latest \in Updates
    /\ wpc \in [Writers -> {"idle", "lock", "check", "write"}]
    /\ calls \in [Writers -> 0..MaxUpdates] /\ wnext \in [Writers -> 1..(Entries + 1)]
    /\ rpc \in [Readers -> {"idle", "lock", "copy"}]
    /\ copy \in [Readers -> Seq(Updates)]
    /\ \A w \in Writers : wpc[w] \in {"check", "write"} <=> owner = w
    /\ \A r \in Readers : rpc[r] = "copy" <=> r \in sharers

\* What reader r was given: the standings of one update, or a mixture.
Given(r) ==
    IF rpc[r] # "idle" \/ copy[r] = <<>> THEN <<>>
    ELSE IF \A e \in DOMAIN copy[r] : copy[r][e] = copy[r][1] THEN copy[r][1]
    ELSE copy[r]

Abstract == INSTANCE Board WITH
    NoView <- <<>>, Numbers <- 1..MaxUpdates,
    writer <- writer_id_, value <- latest, view <- [r \in Readers |-> Given(r)]

\* A snapshot is the standings of one update, whole, of the one thread that
\* owns the leaderboard whoever else has tried to update it: the last update
\* complete at a moment between the call and the return.
ImplementsBoard == Abstract!Spec
=============================================================================
