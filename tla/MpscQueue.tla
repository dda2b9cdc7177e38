----------------------------- MODULE MpscQueue ------------------------------
(***************************************************************************)
(* MpscQueue<T> of concurrency/mpsc_queue.h: an unbounded linked queue.    *)
(* Producers swap a new node into head_ and only then link it behind the   *)
(* previous one; the consumer walks the links from tail_, a sentinel, and  *)
(* deletes what it leaves behind.                                          *)
(*                                                                         *)
(* Nodes are addresses: a deleted one may be given out again by the next   *)
(* allocation.  What is ordered by the C++ memory model is tracked by      *)
(* events: <<n, "built">> is the construction of node n and <<n, "linked">>*)
(* the store to its next.  known[t] are the events that happen-before the  *)
(* next step of thread t; a release store publishes what its thread knows, *)
(* and an acquire load of the value learns it.                             *)
(***************************************************************************)
EXTENDS Naturals, Sequences, FiniteSets

CONSTANTS
    Producers,      \* threads that push
    Consumer,       \* the thread that pops, and destroys the queue in the end
    Nodes,          \* addresses the allocator can give out
    Null,           \* nullptr
    NoItem,         \* a default-constructed, or moved-from, T
    MaxPushes       \* bound of the model: pushes by each producer

ASSUME ThreadsAssumption == Consumer \notin Producers
ASSUME NullAssumption == Null \notin Nodes
ASSUME PushesAssumption == MaxPushes \in Nat

\* The k-th item pushed by producer p.
Items == Producers \X (1..MaxPushes)

ASSUME NoItemAssumption == NoItem \notin Items

VARIABLES
    heap,       \* the nodes allocated and not deleted
    data,       \* node -> its data
    next,       \* node -> its next, the newest value
    head_,      \* the insertion point
    tail_,      \* the consumption point, the sentinel
    ppc,        \* producer -> where it is inside push
    pushed,     \* producer -> how many pushes it has begun
    new_node,   \* producer -> the node it is pushing
    prev_head,  \* producer -> what the exchange returned to it
    cpc,        \* where the consumer is inside pop
    taken,      \* next, as pop loaded it; old_tail once tail_ has advanced
    dying,      \* the destructor has begun
    known,      \* thread -> the events that happen-before its next step
    headRel,    \* the events published with the value of head_
    linkRel,    \* node -> the events published with its next
    chain,      \* history: the nodes from tail_ to head_ in exchange order
    put,        \* history: the items in exchange order
    got         \* history: the items popped

producerVars == <<head_, ppc, pushed, new_node, prev_head, headRel, put>>
consumerVars == <<tail_, cpc, taken, dying, got>>
vars == <<heap, data, next, known, linkRel, chain, producerVars, consumerVars>>

Threads == Producers \cup {Consumer}
Events == Nodes \X {"built", "linked"}

Init ==
    \E sentinel \in Nodes :
        /\ heap = {sentinel}
        /\ data = [n \in Nodes |-> NoItem]
        /\ next = [n \in Nodes |-> Null]
        /\ head_ = sentinel /\ tail_ = sentinel
        /\ ppc = [p \in Producers |-> "idle"]
        /\ pushed = [p \in Producers |-> 0]
        /\ new_node = [p \in Producers |-> Null]
        /\ prev_head = [p \in Producers |-> Null]
        /\ cpc = "idle" /\ taken = Null /\ dying = FALSE
        \* the threads start after the constructor
        /\ known = [t \in Threads |-> {<<sentinel, "built">>}]
        /\ headRel = {<<sentinel, "built">>}
        /\ linkRel = [n \in Nodes |-> {}]
        /\ chain = <<sentinel>>
        /\ put = <<>> /\ got = <<>>

-----------------------------------------------------------------------------
(* push *)

\* No event of a fresh node has happened yet, whoever used its address before.
Forget(events, n) == {e \in events : e[1] # n}

\* new Node{std::move(value)}
Allocate(p, n) ==
    /\ ppc[p] = "idle" /\ ~dying
    /\ pushed[p] < MaxPushes
    /\ n \notin heap
    /\ heap' = heap \cup {n}
    /\ pushed' = [pushed EXCEPT ![p] = @ + 1]
    /\ data' = [data EXCEPT ![n] = <<p, pushed[p] + 1>>]
    /\ next' = [next EXCEPT ![n] = Null]
    /\ new_node' = [new_node EXCEPT ![p] = n]
    /\ known' = [t \in Threads |-> Forget(known[t], n) \cup
                                   IF t = p THEN {<<n, "built">>} ELSE {}]
    /\ headRel' = Forget(headRel, n)
    /\ linkRel' = [m \in Nodes |-> Forget(linkRel[m], n)]
    /\ ppc' = [ppc EXCEPT ![p] = "exchange"]
    /\ UNCHANGED <<head_, prev_head, put, chain, consumerVars>>

\* head_.exchange, acquire and release: the push takes its place in the order.
Exchange(p) ==
    /\ ppc[p] = "exchange"
    /\ prev_head' = [prev_head EXCEPT ![p] = head_]
    /\ head_' = new_node[p]
    /\ known' = [known EXCEPT ![p] = @ \cup headRel]
    /\ headRel' = headRel \cup known[p]
    /\ chain' = Append(chain, new_node[p])
    /\ put' = Append(put, data[new_node[p]])
    /\ ppc' = [ppc EXCEPT ![p] = "link"]
    /\ UNCHANGED <<heap, data, next, linkRel, pushed, new_node, consumerVars>>

\* The node that p links its own behind.  In the mutant it is the head of now,
\* not the one replaced.
HeadOfNow(p) == head_
Behind(p) == prev_head[p]

\* What the store to next publishes: nothing, in the mutant with a relaxed one.
PublishedRelaxed(p) == {}
Published(p) == known[p] \cup {<<Behind(p), "linked">>}

\* prev_head->next.store, release: the consumer can reach the node now.
Link(p) ==
    /\ ppc[p] = "link"
    /\ next' = [next EXCEPT ![Behind(p)] = new_node[p]]
    /\ known' = [known EXCEPT ![p] = @ \cup {<<Behind(p), "linked">>}]
    /\ linkRel' = [linkRel EXCEPT ![Behind(p)] = Published(p)]
    /\ new_node' = [new_node EXCEPT ![p] = Null]
    /\ prev_head' = [prev_head EXCEPT ![p] = Null]
    /\ ppc' = [ppc EXCEPT ![p] = "idle"]
    /\ UNCHANGED <<heap, data, head_, headRel, pushed, put, chain, consumerVars>>

-----------------------------------------------------------------------------
(* pop, and the destructor, whose loop calls pop *)

\* There is a node behind the sentinel.  In the mutant the newest is kept back.
LinkedTwice == next[tail_] # Null /\ next[tail_] # head_
Linked == next[tail_] # Null

\* The acquire load of tail_->next finds the link.
PopLoad ==
    /\ cpc = "idle"
    /\ Linked
    /\ taken' = next[tail_]
    /\ known' = [known EXCEPT ![Consumer] = @ \cup linkRel[tail_]]
    /\ cpc' = "take"
    /\ UNCHANGED <<heap, data, next, linkRel, chain, producerVars, tail_, dying, got>>

\* What the destructor deletes after its loop, and, in the mutant, does not.
LeftOver == {}
Sentinel == {tail_}

\* The load returns nullptr and pop returns false: there is no link yet, or
\* the store to it is not visible to this thread.  The polling pop changes
\* nothing; for the destructor, which runs when every producer has been
\* joined, it is the end of the loop: it deletes the sentinel.
DestroySentinel ==
    /\ cpc = "idle" /\ dying
    /\ next[tail_] = Null
    /\ heap' = heap \ Sentinel
    /\ chain' = <<>>
    /\ cpc' = "destroyed"
    /\ UNCHANGED <<data, next, known, linkRel, producerVars, tail_, taken, dying, got>>

\* The node whose data is returned, and the one tail_ advances to.  The mutants
\* take the data of the sentinel, and go one node too far.
FromSentinel == tail_
Source == taken
OneTooFar == next[taken]
NewTail == taken

\* out = std::move(next->data); tail_ = next
PopTake ==
    /\ cpc = "take"
    /\ got' = Append(got, data[Source])
    /\ data' = [data EXCEPT ![Source] = NoItem]
    /\ tail_' = NewTail
    /\ taken' = tail_
    /\ chain' = Tail(chain)
    /\ cpc' = "delete"
    /\ UNCHANGED <<heap, next, known, linkRel, producerVars, dying>>

\* delete old_tail, which taken now holds.
PopDelete ==
    /\ cpc = "delete"
    /\ heap' = heap \ {taken}
    /\ taken' = Null
    /\ cpc' = "idle"
    /\ UNCHANGED <<data, next, known, linkRel, chain, producerVars, tail_, dying, got>>

\* The destructor is called when no other thread uses the queue any more:
\* all that the producers did happens-before it.
Destroy ==
    /\ cpc = "idle" /\ ~dying
    /\ \A p \in Producers : ppc[p] = "idle"
    /\ dying' = TRUE
    /\ known' = [known EXCEPT ![Consumer] = UNION {known[t] : t \in Threads}]
    /\ UNCHANGED <<heap, data, next, linkRel, chain, producerVars, tail_, cpc, taken, got>>

-----------------------------------------------------------------------------

Push(p) == (\E n \in Nodes : Allocate(p, n)) \/ Exchange(p) \/ Link(p)

Pop == PopLoad \/ PopTake \/ PopDelete

Next ==
    \/ \E p \in Producers : Push(p)
    \/ Pop
    \/ Destroy
    \/ DestroySentinel

Spec == Init /\ [][Next]_vars

\* A push that has begun runs on, the consumer polls for ever (a link is
\* visible to its loads in a finite time), and a destructor runs on.  Nobody
\* need push, or destroy the queue.
Fairness ==
    /\ \A p \in Producers : WF_vars(Exchange(p) \/ Link(p))
    /\ WF_vars(Pop)
    /\ WF_vars(DestroySentinel)

FairSpec == Spec /\ Fairness

-----------------------------------------------------------------------------
(* Properties *)

\* Every variable has its type.
TypeOK ==
    /\ heap \subseteq Nodes
    /\ data \in [Nodes -> Items \cup {NoItem}]
    /\ next \in [Nodes -> Nodes \cup {Null}]
    /\ head_ \in Nodes /\ tail_ \in Nodes
    /\ ppc \in [Producers -> {"idle", "exchange", "link"}]
    /\ pushed \in [Producers -> 0..MaxPushes]
    /\ new_node \in [Producers -> Nodes \cup {Null}]
    /\ prev_head \in [Producers -> Nodes \cup {Null}]
    /\ cpc \in {"idle", "take", "delete", "destroyed"}
    /\ taken \in Nodes \cup {Null}
    /\ dying \in BOOLEAN
    /\ known \in [Threads -> SUBSET Events]
    /\ headRel \subseteq Events
    /\ linkRel \in [Nodes -> SUBSET Events]
    /\ chain \in Seq(Nodes)
    /\ put \in Seq(Items) /\ got \in Seq(Items)

\* No thread touches a deleted node: not the producer that links behind the
\* node it replaced, however long ago that was, nor the consumer.  And every
\* access is ordered after those of other threads it conflicts with: a link
\* after the construction of the node it is stored in, the move out of data
\* after the construction of that node, a delete after the construction of the
\* node and the store to its next.
MemorySafe ==
    /\ \A p \in Producers :
          /\ ppc[p] = "exchange" => new_node[p] \in heap
          /\ ppc[p] = "link" => /\ prev_head[p] \in heap
                                /\ <<prev_head[p], "built">> \in known[p]
    /\ cpc # "destroyed" => tail_ \in heap
    /\ cpc \in {"take", "delete"} =>
          taken \in heap /\ <<taken, "built">> \in known[Consumer]
    /\ cpc = "delete" => <<taken, "linked">> \in known[Consumer]

\* "Returns false if the queue is empty or a push is mid-flight": when there
\* is no link behind the sentinel though an item has been put, some push has
\* swapped head_ and has not linked yet, and it is the push of that item.
EmptyOrMidFlight ==
    (cpc = "idle" /\ next[tail_] = Null) =>
        \/ Len(put) = Len(got)
        \/ \E p \in Producers :
              /\ ppc[p] = "link" /\ prev_head[p] = tail_
              /\ data[new_node[p]] = put[Len(got) + 1]

\* No node is lost: each one allocated is on the way from tail_ to head_, is
\* being pushed, or is about to be deleted; none is left after destruction.
NothingLeaks ==
    heap = {chain[i] : i \in DOMAIN chain}
             \cup {new_node[p] : p \in {q \in Producers : ppc[q] = "exchange"}}
             \cup (IF cpc = "delete" THEN {taken} ELSE {})

\* The queue is an unbounded FIFO in the order of the exchanges, from which
\* an item cannot be taken while its push, or an earlier one, is mid-flight.
Abstract == INSTANCE MpscFifo WITH
    midflight <- {i \in DOMAIN put :
                     \E p \in Producers : ppc[p] = "link" /\ put[i] = <<p, pushed[p]>>}

ImplementsFifo == Abstract!Spec

\* Every item put is popped by a consumer that keeps polling (or, once it
\* has begun, by the destructor).
AllDelivered ==
    \A n \in 1..Cardinality(Items) : Len(put) >= n ~> Len(got) >= n
=============================================================================
