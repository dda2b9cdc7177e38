-------------------------- MODULE MpscQueueProofs ---------------------------
(***************************************************************************)
(* For any producers, addresses and number of pushes: the queue never      *)
(* touches a deleted node, races on none and loses none, and it is the     *)
(* FIFO MpscFifo.                                                          *)
(*                                                                         *)
(* What makes it true is the chain: the nodes from tail_ to head_ in the   *)
(* order of the exchanges, each linked to the next or waiting for just the *)
(* one producer that will link it.                                         *)
(***************************************************************************)
EXTENDS MpscQueue, TLAPS

\* The chain runs from tail_ to head_ without meeting a node twice, and the
\* nodes behind the sentinel hold the items not yet popped.
ChainShape ==
    /\ cpc # "destroyed" =>
          /\ Len(put) = Len(got) + (Len(chain) - 1) /\ Len(chain) \in Nat \ {0}
          /\ chain[1] = tail_ /\ chain[Len(chain)] = head_
          /\ next[head_] = Null
    /\ cpc = "destroyed" => chain = <<>>
    /\ \A i \in 1..Len(chain) : chain[i] \in heap
    /\ \A i, j \in 1..Len(chain) : chain[i] = chain[j] => i = j
    /\ \A i \in 2..Len(chain) : data[chain[i]] = put[Len(got) + (i - 1)]

\* Producer p is about to link the node at position i + 1 behind the one at i.
LinksAt(p, i) ==
    /\ prev_head[p] = chain[i] /\ new_node[p] = chain[i + 1]
    /\ next[chain[i]] = Null
    /\ put[Len(got) + i] = <<p, pushed[p]>>
    /\ <<chain[i], "built">> \in known[p] /\ <<chain[i + 1], "built">> \in known[p]

\* A producer past its exchange links at one position of the chain.
Linkers ==
    \A p \in Producers : ppc[p] = "link" => \E i \in 1..(Len(chain) - 1) : LinksAt(p, i)

\* A node of the chain is linked to the next one, which publishes what the
\* consumer needs, or a producer is about to link it.
LinkedOrPending ==
    \A i \in 1..(Len(chain) - 1) :
        \/ /\ next[chain[i]] = chain[i + 1]
           /\ <<chain[i + 1], "built">> \in linkRel[chain[i]]
           /\ <<chain[i], "linked">> \in linkRel[chain[i]]
        \/ \E p \in Producers : ppc[p] = "link" /\ prev_head[p] = chain[i]

\* A node not exchanged yet is of one producer alone.
Fresh ==
    \A p \in Producers : ppc[p] = "exchange" =>
        /\ new_node[p] \in heap /\ next[new_node[p]] = Null
        /\ data[new_node[p]] = <<p, pushed[p]>> /\ pushed[p] > 0
        /\ <<new_node[p], "built">> \in known[p]
        /\ \A i \in 1..Len(chain) : chain[i] # new_node[p]
        /\ \A q \in Producers : ppc[q] = "exchange" /\ new_node[q] = new_node[p] => q = p

\* The consumer has loaded a link, or is about to delete a node that nobody
\* else can reach.
Popping ==
    /\ cpc # "destroyed" => <<tail_, "built">> \in known[Consumer]
    /\ cpc = "take" =>
          /\ Len(chain) > 1 /\ taken = chain[2] /\ next[chain[1]] = chain[2]
          /\ <<taken, "built">> \in known[Consumer]
          /\ <<tail_, "linked">> \in known[Consumer]
    /\ cpc = "delete" =>
          /\ taken \in heap
          /\ \A i \in 1..Len(chain) : chain[i] # taken
          /\ \A p \in Producers : ppc[p] = "exchange" => new_node[p] # taken
          /\ <<taken, "built">> \in known[Consumer]
          /\ <<taken, "linked">> \in known[Consumer]

\* The head is published with its construction.
HeadPublished == cpc # "destroyed" => <<head_, "built">> \in headRel

\* Every item is put once, and only by a push that has made its exchange.
PutOnce ==
    /\ \A i, j \in 1..Len(put) : put[i] = put[j] => i = j
    /\ \A i \in 1..Len(put), p \in Producers :
          put[i][1] = p => IF ppc[p] = "exchange" THEN put[i][2] < pushed[p]
                                                  ELSE put[i][2] <= pushed[p]

\* The destructor runs alone.
DyingAlone ==
    /\ dying => \A p \in Producers : ppc[p] = "idle"
    /\ cpc = "destroyed" => dying

\* The inductive invariant.
IndInv ==
    /\ TypeOK /\ ChainShape /\ Linkers /\ LinkedOrPending /\ Fresh /\ Popping
    /\ HeadPublished /\ PutOnce /\ DyingAlone /\ NothingLeaks

-----------------------------------------------------------------------------
(* Lemmas *)

LEMMA AppendFacts ==
    ASSUME NEW S, NEW s \in Seq(S), NEW e \in S
    PROVE  /\ Append(s, e) \in Seq(S) /\ Len(Append(s, e)) = Len(s) + 1
           /\ \A i \in 1..Len(s) : Append(s, e)[i] = s[i]
           /\ Append(s, e)[Len(s) + 1] = e
OBVIOUS

LEMMA TailFacts ==
    ASSUME NEW S, NEW s \in Seq(S), Len(s) > 0
    PROVE  /\ Tail(s) \in Seq(S) /\ Len(Tail(s)) = Len(s) - 1
           /\ \A i \in 1..(Len(s) - 1) : Tail(s)[i] = s[i + 1]
OBVIOUS

\* The lengths are numbers, and the nodes of the chain are nodes.
LEMMA Lengths ==
    ASSUME IndInv
    PROVE  /\ Len(chain) \in Nat /\ Len(put) \in Nat /\ Len(got) \in Nat
           /\ \A i \in 1..Len(chain) : chain[i] \in Nodes
           /\ \A i \in 1..Len(put) : put[i] \in Items
BY DEF IndInv, TypeOK

LEMMA InitIndInv == Init => IndInv
<1> SUFFICES ASSUME Init PROVE IndInv
  OBVIOUS
<1> USE DEF Init
<1>1. PICK sentinel \in Nodes :
        /\ heap = {sentinel} /\ head_ = sentinel /\ tail_ = sentinel
        /\ known = [t \in Threads |-> {<<sentinel, "built">>}]
        /\ headRel = {<<sentinel, "built">>}
        /\ chain = <<sentinel>>
  OBVIOUS
<1>2. /\ data = [n \in Nodes |-> NoItem] /\ next = [n \in Nodes |-> Null]
      /\ ppc = [p \in Producers |-> "idle"] /\ pushed = [p \in Producers |-> 0]
      /\ new_node = [p \in Producers |-> Null] /\ prev_head = [p \in Producers |-> Null]
      /\ cpc = "idle" /\ taken = Null /\ dying = FALSE
      /\ linkRel = [n \in Nodes |-> {}] /\ put = <<>> /\ got = <<>>
  OBVIOUS
<1> HIDE DEF Init
<1>3. Len(chain) = 1 /\ chain[1] = sentinel /\ Len(put) = 0 /\ Len(got) = 0
  BY <1>1, <1>2
<1>4. TypeOK
  <2>1. /\ known \in [Threads -> SUBSET Events] /\ headRel \subseteq Events
        /\ linkRel \in [Nodes -> SUBSET Events]
    BY <1>1, <1>2 DEF Events
  <2>2. /\ chain \in Seq(Nodes) /\ put \in Seq(Items) /\ got \in Seq(Items)
    BY <1>1, <1>2
  <2>3. /\ data \in [Nodes -> Items \cup {NoItem}] /\ next \in [Nodes -> Nodes \cup {Null}]
        /\ ppc \in [Producers -> {"idle", "exchange", "link"}]
        /\ pushed \in [Producers -> 0..MaxPushes]
        /\ new_node \in [Producers -> Nodes \cup {Null}]
        /\ prev_head \in [Producers -> Nodes \cup {Null}]
    BY <1>2, PushesAssumption
  <2>4. heap \subseteq Nodes /\ head_ \in Nodes /\ tail_ \in Nodes
    BY <1>1
  <2>5. cpc \in {"idle", "take", "delete", "destroyed"} /\ taken \in Nodes \cup {Null}
    BY <1>2
  <2>6. dying \in BOOLEAN
    BY <1>2
  <2> QED
    BY <2>1, <2>2, <2>3, <2>4, <2>5, <2>6 DEF TypeOK
<1>5. ChainShape
  BY <1>1, <1>2, <1>3 DEF ChainShape
<1>6. Linkers /\ LinkedOrPending /\ Fresh /\ PutOnce /\ DyingAlone
  BY <1>2, <1>3 DEF Linkers, LinkedOrPending, Fresh, PutOnce, DyingAlone
<1>7. Popping /\ HeadPublished
  BY <1>1, <1>2 DEF Popping, HeadPublished, Threads
<1>8. NothingLeaks
  BY <1>1, <1>2 DEF NothingLeaks
<1> QED
  BY <1>4, <1>5, <1>6, <1>7, <1>8 DEF IndInv

LEMMA AllocateInv ==
    ASSUME IndInv, NEW p \in Producers, NEW n \in Nodes, Allocate(p, n)
    PROVE  IndInv'
<1>1. /\ ppc[p] = "idle" /\ ~dying /\ n \notin heap /\ pushed[p] \in 0..MaxPushes
      /\ pushed[p] < MaxPushes /\ <<p, pushed[p] + 1>> \in Items
  BY PushesAssumption DEF Allocate, IndInv, TypeOK, Items
<1>2. /\ heap' = heap \cup {n}
      /\ pushed' = [pushed EXCEPT ![p] = @ + 1]
      /\ data' = [data EXCEPT ![n] = <<p, pushed[p] + 1>>]
      /\ next' = [next EXCEPT ![n] = Null]
      /\ new_node' = [new_node EXCEPT ![p] = n]
      /\ ppc' = [ppc EXCEPT ![p] = "exchange"]
      /\ UNCHANGED <<head_, prev_head, put, chain, tail_, cpc, taken, dying, got>>
  BY DEF Allocate, consumerVars
<1>3. /\ known' = [t \in Threads |-> Forget(known[t], n) \cup
                                     IF t = p THEN {<<n, "built">>} ELSE {}]
      /\ headRel' = Forget(headRel, n)
      /\ linkRel' = [m \in Nodes |-> Forget(linkRel[m], n)]
  BY DEF Allocate
<1>4. TypeOK'
  <2>1. /\ heap' \subseteq Nodes /\ data' \in [Nodes -> Items \cup {NoItem}]
        /\ next' \in [Nodes -> Nodes \cup {Null}]
    BY <1>1, <1>2 DEF IndInv, TypeOK
  <2>2. pushed' \in [Producers -> 0..MaxPushes]
    BY <1>1, <1>2, PushesAssumption DEF IndInv, TypeOK
  <2>3. /\ ppc' \in [Producers -> {"idle", "exchange", "link"}]
        /\ new_node' \in [Producers -> Nodes \cup {Null}]
    BY <1>2 DEF IndInv, TypeOK
  <2>4. /\ known' \in [Threads -> SUBSET Events] /\ headRel' \subseteq Events
        /\ linkRel' \in [Nodes -> SUBSET Events]
    BY <1>3 DEF IndInv, TypeOK, Forget, Events
  <2> QED
    BY <1>2, <2>1, <2>2, <2>3, <2>4 DEF IndInv, TypeOK
\* The nodes in use are others, and what was known of them still is.
<1>5. /\ \A m \in heap : m # n /\ m \in Nodes /\ data'[m] = data[m] /\ next'[m] = next[m]
      /\ data'[n] = <<p, pushed[p] + 1>> /\ next'[n] = Null
  BY <1>1, <1>2 DEF IndInv, TypeOK
<1>6. /\ \A t \in Threads, m \in heap, x \in {"built", "linked"} :
            <<m, x>> \in known[t] => <<m, x>> \in known'[t]
      /\ \A m \in heap, x \in {"built", "linked"} : <<m, x>> \in headRel => <<m, x>> \in headRel'
      /\ \A l, m \in heap, x \in {"built", "linked"} :
            <<m, x>> \in linkRel[l] => <<m, x>> \in linkRel'[l]
      /\ <<n, "built">> \in known'[p]
  BY <1>3, <1>5 DEF Forget, Threads
<1>7. /\ \A q \in Producers : q # p => /\ ppc'[q] = ppc[q] /\ pushed'[q] = pushed[q]
                                       /\ new_node'[q] = new_node[q]
      /\ ppc'[p] = "exchange" /\ new_node'[p] = n /\ pushed'[p] = pushed[p] + 1
      /\ pushed[p] \in Nat
  BY <1>1, <1>2 DEF IndInv, TypeOK
<1>8. \A i \in 1..Len(chain) : chain[i] \in heap
  BY DEF IndInv, ChainShape
<1>9. ChainShape'
  <2>1. cpc # "destroyed" => head_ \in heap
    BY <1>8 DEF IndInv, ChainShape
  <2>2. \A i \in 2..Len(chain) : data'[chain[i]] = data[chain[i]]
    BY <1>5, <1>8, Lengths
  <2> QED
    BY <1>2, <1>5, <2>1, <2>2 DEF IndInv, ChainShape
<1>10. Linkers'
  <2> SUFFICES ASSUME NEW q \in Producers, ppc'[q] = "link"
               PROVE  \E i \in 1..(Len(chain) - 1) : LinksAt(q, i)'
    BY <1>2 DEF Linkers
  <2>1. q # p /\ ppc[q] = "link" /\ q \in Threads
    BY <1>7 DEF Threads
  <2>2. PICK i \in 1..(Len(chain) - 1) : LinksAt(q, i)
    BY <2>1 DEF IndInv, Linkers
  <2>3. chain[i] \in heap /\ chain[i + 1] \in heap
    BY <1>8, Lengths
  <2>4. LinksAt(q, i)'
    BY <1>2, <1>5, <1>6, <1>7, <2>1, <2>2, <2>3 DEF LinksAt
  <2> QED
    BY <2>4
<1>11. LinkedOrPending'
  <2> SUFFICES ASSUME NEW i \in 1..(Len(chain) - 1)
               PROVE  \/ /\ next'[chain[i]] = chain[i + 1]
                         /\ <<chain[i + 1], "built">> \in linkRel'[chain[i]]
                         /\ <<chain[i], "linked">> \in linkRel'[chain[i]]
                      \/ \E q \in Producers : ppc'[q] = "link" /\ prev_head'[q] = chain[i]
    BY <1>2 DEF LinkedOrPending
  <2>1. chain[i] \in heap /\ chain[i + 1] \in heap
    BY <1>8, Lengths
  <2>2. \A q \in Producers : ppc[q] = "link" => ppc'[q] = "link"
    BY <1>1, <1>7
  <2> QED
    BY <1>2, <1>5, <1>6, <2>1, <2>2 DEF IndInv, LinkedOrPending
<1>12. Fresh'
  <2> SUFFICES ASSUME NEW q \in Producers, ppc'[q] = "exchange"
               PROVE  /\ new_node'[q] \in heap' /\ next'[new_node'[q]] = Null
                      /\ data'[new_node'[q]] = <<q, pushed'[q]>> /\ pushed'[q] > 0
                      /\ <<new_node'[q], "built">> \in known'[q]
                      /\ \A i \in 1..Len(chain) : chain[i] # new_node'[q]
                      /\ \A r \in Producers :
                            ppc'[r] = "exchange" /\ new_node'[r] = new_node'[q] => r = q
    BY <1>2 DEF Fresh
  <2>1. \A r \in Producers : r # p /\ ppc'[r] = "exchange" =>
            /\ new_node'[r] = new_node[r] /\ new_node[r] \in heap /\ new_node[r] # n
            /\ ppc[r] = "exchange"
    BY <1>5, <1>7 DEF IndInv, Fresh
  <2>2. CASE q = p
    BY <1>2, <1>5, <1>6, <1>7, <1>8, <2>1, <2>2
  <2>3. CASE q # p
    <3>1. q \in Threads
      BY DEF Threads
    <3>2. /\ new_node'[q] = new_node[q] /\ new_node[q] \in heap /\ ppc[q] = "exchange"
          /\ pushed'[q] = pushed[q]
      BY <1>7, <2>1, <2>3
    <3>3. /\ next[new_node[q]] = Null /\ data[new_node[q]] = <<q, pushed[q]>> /\ pushed[q] > 0
          /\ <<new_node[q], "built">> \in known[q]
          /\ \A i \in 1..Len(chain) : chain[i] # new_node[q]
          /\ \A r \in Producers : ppc[r] = "exchange" /\ new_node[r] = new_node[q] => r = q
      BY <3>2 DEF IndInv, Fresh
    <3>4. \A r \in Producers : ppc'[r] = "exchange" /\ new_node'[r] = new_node'[q] => r = q
      BY <1>5, <1>7, <2>1, <3>2, <3>3
    <3>5. new_node'[q] \in heap'
      BY <1>2, <3>2
    <3>6. next'[new_node[q]] = Null /\ data'[new_node[q]] = <<q, pushed[q]>>
      BY <1>5, <3>2, <3>3
    <3>7. <<new_node[q], "built">> \in known'[q]
      BY <1>6, <3>1, <3>2, <3>3
    <3> QED
      BY <3>2, <3>3, <3>4, <3>5, <3>6, <3>7
  <2> QED
    BY <2>2, <2>3
<1>13. Popping'
  <2>1. Consumer \in Threads
    BY DEF Threads
  <2>2. cpc # "destroyed" => tail_ \in heap
    BY <1>8 DEF IndInv, ChainShape
  <2>3. cpc = "take" => taken \in heap /\ chain[1] \in heap
    BY <1>8, Lengths DEF IndInv, Popping
  <2>4. cpc \in {"take", "delete"} => cpc # "destroyed"
    OBVIOUS
  <2>5. cpc = "delete" => taken \in heap /\ taken # n
    BY <1>5 DEF IndInv, Popping
  <2> QED
    BY <1>2, <1>5, <1>6, <1>7, <2>1, <2>2, <2>3, <2>5 DEF IndInv, Popping
<1>14. HeadPublished'
  <2>1. cpc # "destroyed" => head_ \in heap
    BY <1>8 DEF IndInv, ChainShape
  <2> QED
    BY <1>2, <1>6, <2>1 DEF IndInv, HeadPublished
<1>15. PutOnce'
  BY <1>1, <1>2, <1>7, Lengths DEF IndInv, PutOnce, Items
<1>16. DyingAlone'
  BY <1>1, <1>2 DEF IndInv, DyingAlone
<1>17. NothingLeaks'
  <2>1. {new_node'[q] : q \in {r \in Producers : ppc'[r] = "exchange"}} =
            {new_node[q] : q \in {r \in Producers : ppc[r] = "exchange"}} \cup {n}
    BY <1>1, <1>7
  <2> QED
    BY <1>2, <2>1 DEF IndInv, NothingLeaks
<1> QED
  BY <1>4, <1>9, <1>10, <1>11, <1>12, <1>13, <1>14, <1>15, <1>16, <1>17 DEF IndInv

LEMMA ExchangeInv ==
    ASSUME IndInv, NEW p \in Producers, Exchange(p)
    PROVE  IndInv'
<1> DEFINE nn == new_node[p]
           L  == Len(chain)
<1>1. /\ ppc[p] = "exchange" /\ nn \in heap /\ nn \in Nodes /\ next[nn] = Null
      /\ data[nn] = <<p, pushed[p]>> /\ <<nn, "built">> \in known[p]
      /\ \A i \in 1..L : chain[i] # nn
      /\ \A q \in Producers : ppc[q] = "exchange" /\ new_node[q] = nn => q = p
      /\ p \in Threads
  BY DEF Exchange, IndInv, Fresh, TypeOK, Threads
<1>2. cpc # "destroyed" /\ ~dying
  BY <1>1 DEF IndInv, DyingAlone
<1>3. /\ L \in Nat \ {0} /\ Len(put) \in Nat /\ Len(got) \in Nat
      /\ Len(put) = Len(got) + (L - 1)
      /\ chain[1] = tail_ /\ chain[L] = head_ /\ next[head_] = Null
      /\ \A i \in 1..L : chain[i] \in Nodes
  BY <1>2, Lengths DEF IndInv, ChainShape
<1>4. /\ prev_head' = [prev_head EXCEPT ![p] = head_]
      /\ head_' = nn
      /\ known' = [known EXCEPT ![p] = @ \cup headRel]
      /\ headRel' = headRel \cup known[p]
      /\ chain' = Append(chain, nn)
      /\ put' = Append(put, <<p, pushed[p]>>)
      /\ ppc' = [ppc EXCEPT ![p] = "link"]
      /\ UNCHANGED <<heap, data, next, linkRel, pushed, new_node, tail_, cpc, taken, dying, got>>
  BY <1>1 DEF Exchange, consumerVars
<1>5. <<p, pushed[p]>> \in Items
  <2>1. pushed[p] \in 0..MaxPushes /\ pushed[p] > 0
    BY <1>1 DEF IndInv, TypeOK, Fresh
  <2> QED
    BY <2>1, PushesAssumption DEF Items
<1>6. /\ chain' \in Seq(Nodes) /\ Len(chain') = L + 1
      /\ \A i \in 1..L : chain'[i] = chain[i]
      /\ chain'[L + 1] = nn
  BY <1>1, <1>4, AppendFacts DEF IndInv, TypeOK
<1>7. /\ put' \in Seq(Items) /\ Len(put') = Len(put) + 1
      /\ \A i \in 1..Len(put) : put'[i] = put[i]
      /\ put'[Len(put) + 1] = <<p, pushed[p]>>
  BY <1>4, <1>5, AppendFacts DEF IndInv, TypeOK
<1>8. /\ \A q \in Producers : q # p => ppc'[q] = ppc[q] /\ prev_head'[q] = prev_head[q]
      /\ ppc'[p] = "link" /\ prev_head'[p] = head_
      /\ \A t \in Threads : known[t] \subseteq known'[t]
      /\ headRel \subseteq known'[p]
  BY <1>1, <1>4 DEF IndInv, TypeOK
<1>9. TypeOK'
  <2>1. /\ ppc' \in [Producers -> {"idle", "exchange", "link"}]
        /\ prev_head' \in [Producers -> Nodes \cup {Null}]
        /\ head_' \in Nodes
    BY <1>1, <1>4 DEF IndInv, TypeOK
  <2>2. known' \in [Threads -> SUBSET Events] /\ headRel' \subseteq Events
    BY <1>1, <1>4 DEF IndInv, TypeOK
  <2> QED
    BY <1>4, <1>6, <1>7, <2>1, <2>2 DEF IndInv, TypeOK
<1>10. ChainShape'
  <2>1. \A i \in 1..Len(chain') : chain'[i] \in heap'
    BY <1>1, <1>3, <1>4, <1>6 DEF IndInv, ChainShape
  <2>2. \A i, j \in 1..Len(chain') : chain'[i] = chain'[j] => i = j
    <3>1. \A i, j \in 1..L : chain[i] = chain[j] => i = j
      BY DEF IndInv, ChainShape
    <3>2. \A i \in 1..(L + 1) : i \in 1..L \/ i = L + 1
      BY <1>3
    <3> QED
      BY <1>1, <1>6, <3>1, <3>2
  <2>3. \A i \in 2..Len(chain') : data'[chain'[i]] = put'[Len(got') + (i - 1)]
    <3> SUFFICES ASSUME NEW i \in 2..(L + 1)
                 PROVE  data[chain'[i]] = put'[Len(got) + (i - 1)]
      BY <1>4, <1>6
    <3>1. CASE i = L + 1
      <4>1. Len(got) + (i - 1) = Len(put) + 1
        BY <1>3, <3>1
      <4> QED
        BY <1>1, <1>6, <1>7, <3>1, <4>1
    <3>2. CASE i \in 2..L
      <4>1. Len(got) + (i - 1) \in 1..Len(put) /\ i \in 1..L
        BY <1>3, <3>2
      <4>2. data[chain[i]] = put[Len(got) + (i - 1)]
        BY <3>2 DEF IndInv, ChainShape
      <4> QED
        BY <1>6, <1>7, <4>1, <4>2
    <3> QED
      BY <1>3, <3>1, <3>2
  <2>4. /\ Len(put') = Len(got') + (Len(chain') - 1) /\ Len(chain') \in Nat \ {0}
        /\ chain'[1] = tail_' /\ chain'[Len(chain')] = head_' /\ next'[head_'] = Null
    BY <1>1, <1>3, <1>4, <1>6, <1>7
  <2>5. cpc' # "destroyed"
    BY <1>2, <1>4
  <2> QED
    BY <2>1, <2>2, <2>3, <2>4, <2>5 DEF ChainShape
<1>11. Linkers'
  <2> SUFFICES ASSUME NEW q \in Producers, ppc'[q] = "link"
               PROVE  \E i \in 1..(Len(chain') - 1) : LinksAt(q, i)'
    BY DEF Linkers
  <2>1. CASE q = p
    \* not L itself, which the step changes
    <3>1. PICK k \in Nat : k = L
      BY <1>3
    <3>2. /\ k \in 1..(Len(chain') - 1) /\ chain'[k] = head_ /\ chain'[k + 1] = nn
          /\ Len(got) + k = Len(put) + 1
      BY <1>3, <1>6, <3>1
    <3>3. <<head_, "built">> \in known'[p] /\ <<nn, "built">> \in known'[p]
      BY <1>1, <1>2, <1>8 DEF IndInv, HeadPublished
    <3>4. prev_head'[p] = chain'[k] /\ new_node'[p] = chain'[k + 1] /\ next'[chain'[k]] = Null
      BY <1>3, <1>4, <1>8, <3>2
    <3>5. put'[Len(got') + k] = <<p, pushed'[p]>>
      BY <1>4, <1>7, <3>2
    <3>6. LinksAt(p, k)'
      BY <3>2, <3>3, <3>4, <3>5 DEF LinksAt
    <3> QED
      BY <2>1, <3>2, <3>6
  <2>2. CASE q # p
    <3>1. ppc[q] = "link" /\ prev_head'[q] = prev_head[q] /\ q \in Threads
      BY <1>8, <2>2 DEF Threads
    <3>2. PICK i \in 1..(L - 1) : LinksAt(q, i)
      BY <3>1 DEF IndInv, Linkers
    <3>3. /\ i \in 1..L /\ i + 1 \in 1..L /\ Len(got) + i \in 1..Len(put)
          /\ i \in 1..(Len(chain') - 1)
      BY <1>3, <1>6
    <3>4. /\ chain'[i] = chain[i] /\ chain'[i + 1] = chain[i + 1]
          /\ put'[Len(got) + i] = put[Len(got) + i]
      BY <1>6, <1>7, <3>3
    <3>5. LinksAt(q, i)'
      BY <1>4, <1>8, <3>1, <3>2, <3>4 DEF LinksAt
    <3> QED
      BY <3>3, <3>5
  <2> QED
    BY <2>1, <2>2
<1>12. LinkedOrPending'
  <2> SUFFICES ASSUME NEW i \in 1..(Len(chain') - 1)
               PROVE  \/ /\ next[chain'[i]] = chain'[i + 1]
                         /\ <<chain'[i + 1], "built">> \in linkRel[chain'[i]]
                         /\ <<chain'[i], "linked">> \in linkRel[chain'[i]]
                      \/ \E q \in Producers : ppc'[q] = "link" /\ prev_head'[q] = chain'[i]
    BY <1>4 DEF LinkedOrPending
  <2>1. CASE i = L
    BY <1>3, <1>6, <1>8, <2>1
  <2>2. CASE i \in 1..(L - 1)
    <3>1. chain'[i] = chain[i] /\ chain'[i + 1] = chain[i + 1]
      BY <1>3, <1>6, <2>2
    <3>2. \A q \in Producers :
              ppc[q] = "link" => ppc'[q] = "link" /\ prev_head'[q] = prev_head[q]
      BY <1>1, <1>8
    <3> QED
      BY <2>2, <3>1, <3>2 DEF IndInv, LinkedOrPending
  <2> QED
    BY <1>3, <1>6, <2>1, <2>2
<1>13. Fresh'
  <2>1. \A q \in Producers : ppc'[q] = "exchange" => q # p /\ ppc[q] = "exchange" /\ q \in Threads
    BY <1>8 DEF Threads
  <2>2. \A q \in Producers : ppc'[q] = "exchange" =>
            \A i \in 1..Len(chain') : chain'[i] # new_node[q]
    <3>1. \A i \in 1..Len(chain') : i \in 1..L \/ i = L + 1
      BY <1>3, <1>6
    <3>2. \A q \in Producers, i \in 1..L : ppc[q] = "exchange" => chain[i] # new_node[q]
      BY DEF IndInv, Fresh
    <3> QED
      BY <1>1, <1>6, <2>1, <3>1, <3>2
  <2> QED
    BY <1>4, <1>8, <2>1, <2>2 DEF IndInv, Fresh
<1>14. Popping'
  <2>1. Consumer \in Threads /\ \A q \in Producers : ppc'[q] = "exchange" => ppc[q] = "exchange"
    BY <1>8 DEF Threads
  <2>2. cpc = "take" => Len(chain') > 1 /\ chain'[1] = chain[1] /\ chain'[2] = chain[2]
    BY <1>3, <1>6 DEF IndInv, Popping
  <2>3. cpc = "delete" => \A i \in 1..Len(chain') : chain'[i] # taken
    BY <1>1, <1>3, <1>6 DEF IndInv, Popping
  <2> QED
    BY <1>4, <1>8, <2>1, <2>2, <2>3 DEF IndInv, Popping
<1>15. HeadPublished'
  BY <1>1, <1>4 DEF HeadPublished
<1>16. PutOnce'
  <2>1. \A i \in 1..Len(put) : put[i] # <<p, pushed[p]>>
    <3> SUFFICES ASSUME NEW i \in 1..Len(put), put[i] = <<p, pushed[p]>>
                 PROVE  FALSE
      OBVIOUS
    <3>1. put[i][1] = p /\ put[i][2] = pushed[p] /\ pushed[p] \in Nat
      BY PushesAssumption DEF IndInv, TypeOK
    <3> QED
      BY <1>1, <3>1 DEF IndInv, PutOnce
  <2>2. \A i \in 1..Len(put') : i \in 1..Len(put) \/ i = Len(put) + 1
    BY <1>3, <1>7
  <2>3. \A i, j \in 1..Len(put') : put'[i] = put'[j] => i = j
    BY <1>7, <2>1, <2>2 DEF IndInv, PutOnce
  <2>4. ASSUME NEW i \in 1..Len(put'), NEW q \in Producers, put'[i][1] = q
        PROVE  IF ppc'[q] = "exchange" THEN put'[i][2] < pushed[q]
                                       ELSE put'[i][2] <= pushed[q]
    <3>1. pushed[q] \in Nat
      BY PushesAssumption DEF IndInv, TypeOK
    <3>2. CASE i = Len(put) + 1
      BY <1>7, <1>8, <2>4, <3>1, <3>2
    <3>3. CASE i \in 1..Len(put)
      <4>1. put'[i] = put[i] /\ put[i][2] \in Nat
        BY <1>7, <3>3, Lengths, PushesAssumption DEF Items
      <4>2. CASE q = p
        BY <1>1, <1>8, <2>4, <3>1, <3>3, <4>1, <4>2 DEF IndInv, PutOnce
      <4>3. CASE q # p
        BY <1>8, <2>4, <3>3, <4>1, <4>3 DEF IndInv, PutOnce
      <4> QED
        BY <4>2, <4>3
    <3> QED
      BY <2>2, <3>2, <3>3
  <2> QED
    BY <1>4, <2>3, <2>4 DEF PutOnce
<1>17. DyingAlone'
  BY <1>2, <1>4 DEF DyingAlone
<1>18. NothingLeaks'
  <2>1. {chain'[i] : i \in DOMAIN chain'} = {chain[i] : i \in DOMAIN chain} \cup {nn}
    <3>1. DOMAIN chain = 1..L /\ DOMAIN chain' = 1..(L + 1)
      BY <1>6 DEF IndInv, TypeOK
    <3>2. \A i \in 1..(L + 1) : i \in 1..L \/ i = L + 1
      BY <1>3
    <3>3. 1..L \subseteq 1..(L + 1) /\ L + 1 \in 1..(L + 1)
      BY <1>3
    <3> QED
      BY <1>6, <3>1, <3>2, <3>3
  <2>2. {new_node[q] : q \in {r \in Producers : ppc[r] = "exchange"}} =
            {new_node[q] : q \in {r \in Producers : ppc'[r] = "exchange"}} \cup {nn}
    BY <1>1, <1>8
  <2> QED
    BY <1>4, <2>1, <2>2 DEF IndInv, NothingLeaks
<1> QED
  BY <1>9, <1>10, <1>11, <1>12, <1>13, <1>14, <1>15, <1>16, <1>17, <1>18 DEF IndInv

\* Two producers do not link at one position.
LEMMA OneLinker ==
    ASSUME IndInv, NEW p \in Producers, NEW q \in Producers, NEW i, LinksAt(p, i), LinksAt(q, i)
    PROVE  p = q
BY DEF LinksAt

LEMMA LinkInv ==
    ASSUME IndInv, NEW p \in Producers, Link(p)
    PROVE  IndInv'
<1> DEFINE nn == new_node[p]
           b  == prev_head[p]
           L  == Len(chain)
<1>1. ppc[p] = "link" /\ p \in Threads
  BY DEF Link, Threads
<1>2. PICK i \in 1..(L - 1) : LinksAt(p, i)
  BY <1>1 DEF IndInv, Linkers
<1>3. /\ L \in Nat /\ Len(got) \in Nat /\ i \in 1..L /\ i + 1 \in 1..L
      /\ b = chain[i] /\ nn = chain[i + 1] /\ next[b] = Null
      /\ b \in Nodes /\ nn \in Nodes
      /\ <<b, "built">> \in known[p] /\ <<nn, "built">> \in known[p]
  BY <1>2, Lengths DEF LinksAt
<1>4. cpc # "destroyed" /\ ~dying
  BY <1>1 DEF IndInv, DyingAlone
<1>5. /\ next' = [next EXCEPT ![b] = nn]
      /\ known' = [known EXCEPT ![p] = @ \cup {<<b, "linked">>}]
      /\ linkRel' = [linkRel EXCEPT ![b] = known[p] \cup {<<b, "linked">>}]
      /\ new_node' = [new_node EXCEPT ![p] = Null]
      /\ prev_head' = [prev_head EXCEPT ![p] = Null]
      /\ ppc' = [ppc EXCEPT ![p] = "idle"]
      /\ UNCHANGED <<heap, data, head_, headRel, pushed, put, chain, tail_, cpc, taken, dying, got>>
  BY DEF Link, Behind, Published, consumerVars
<1>6. /\ \A q \in Producers : q # p => /\ ppc'[q] = ppc[q] /\ prev_head'[q] = prev_head[q]
                                       /\ new_node'[q] = new_node[q]
      /\ ppc'[p] = "idle"
      /\ \A t \in Threads : known[t] \subseteq known'[t]
      /\ \A m \in Nodes : m # b => next'[m] = next[m] /\ linkRel'[m] = linkRel[m]
      /\ next'[b] = nn /\ linkRel'[b] = known[p] \cup {<<b, "linked">>}
  BY <1>1, <1>3, <1>5 DEF IndInv, TypeOK
\* The other nodes of the chain are not b.
<1>7. \A j \in 1..L : chain[j] \in Nodes /\ (j # i => chain[j] # b)
  BY <1>3, Lengths DEF IndInv, ChainShape
<1>8. TypeOK'
  <2>1. b \in Nodes /\ <<b, "linked">> \in Events
    BY <1>3 DEF Events
  <2>2. next' \in [Nodes -> Nodes \cup {Null}]
    BY <1>3, <1>5 DEF IndInv, TypeOK
  <2>3. known' \in [Threads -> SUBSET Events] /\ linkRel' \in [Nodes -> SUBSET Events]
    BY <1>1, <1>5, <2>1 DEF IndInv, TypeOK
  <2>4. /\ ppc' \in [Producers -> {"idle", "exchange", "link"}]
        /\ new_node' \in [Producers -> Nodes \cup {Null}]
        /\ prev_head' \in [Producers -> Nodes \cup {Null}]
    BY <1>5 DEF IndInv, TypeOK
  <2> QED
    BY <1>5, <2>2, <2>3, <2>4 DEF IndInv, TypeOK
<1>9. ChainShape'
  <2>1. head_ = chain[L] /\ L \in 1..L /\ L # i
    BY <1>2, <1>3, <1>4 DEF IndInv, ChainShape
  <2>2. next'[head_] = next[head_]
    BY <1>6, <1>7, <2>1
  <2> QED
    BY <1>4, <1>5, <2>2 DEF IndInv, ChainShape
<1>10. Linkers'
  <2> SUFFICES ASSUME NEW q \in Producers, ppc'[q] = "link"
               PROVE  \E j \in 1..(L - 1) : LinksAt(q, j)'
    BY <1>5 DEF Linkers
  <2>1. q # p /\ ppc[q] = "link" /\ q \in Threads
    BY <1>6 DEF Threads
  <2>2. PICK j \in 1..(L - 1) : LinksAt(q, j)
    BY <2>1 DEF IndInv, Linkers
  <2>3. j # i /\ j \in 1..L
    BY <1>2, <1>3, <2>1, <2>2, OneLinker
  <2>4. next'[chain[j]] = next[chain[j]]
    BY <1>6, <1>7, <2>3
  <2>5. LinksAt(q, j)'
    BY <1>5, <1>6, <2>1, <2>2, <2>4 DEF LinksAt
  <2> QED
    BY <2>5
<1>11. LinkedOrPending'
  <2>0. chain' = chain
    BY <1>5
  <2> SUFFICES ASSUME NEW j \in 1..(L - 1)
               PROVE  \/ /\ next'[chain[j]] = chain[j + 1]
                         /\ <<chain[j + 1], "built">> \in linkRel'[chain[j]]
                         /\ <<chain[j], "linked">> \in linkRel'[chain[j]]
                      \/ \E q \in Producers : ppc'[q] = "link" /\ prev_head'[q] = chain[j]
    BY <2>0 DEF LinkedOrPending
  <2>1. CASE j = i
    BY <1>3, <1>6, <2>1
  <2>2. CASE j # i
    <3>1. j \in 1..L /\ chain[j] \in Nodes /\ chain[j] # b
      BY <1>3, <1>7, <2>2
    <3>2. \A q \in Producers : ppc[q] = "link" /\ prev_head[q] = chain[j] =>
              ppc'[q] = "link" /\ prev_head'[q] = chain[j]
      BY <1>6, <3>1
    <3>3. next'[chain[j]] = next[chain[j]] /\ linkRel'[chain[j]] = linkRel[chain[j]]
      BY <1>6, <3>1
    <3>4. \/ /\ next[chain[j]] = chain[j + 1]
             /\ <<chain[j + 1], "built">> \in linkRel[chain[j]]
             /\ <<chain[j], "linked">> \in linkRel[chain[j]]
          \/ \E q \in Producers : ppc[q] = "link" /\ prev_head[q] = chain[j]
      BY DEF IndInv, LinkedOrPending
    <3> QED
      BY <3>2, <3>3, <3>4
  <2> QED
    BY <2>1, <2>2
<1>12. Fresh'
  <2> SUFFICES ASSUME NEW q \in Producers, ppc'[q] = "exchange"
               PROVE  /\ new_node'[q] \in heap /\ next'[new_node'[q]] = Null
                      /\ data[new_node'[q]] = <<q, pushed[q]>> /\ pushed[q] > 0
                      /\ <<new_node'[q], "built">> \in known'[q]
                      /\ \A j \in 1..L : chain[j] # new_node'[q]
                      /\ \A r \in Producers :
                            ppc'[r] = "exchange" /\ new_node'[r] = new_node'[q] => r = q
    BY <1>5 DEF Fresh
  <2>1. /\ q # p /\ ppc[q] = "exchange" /\ q \in Threads /\ new_node'[q] = new_node[q]
        /\ \A r \in Producers :
              ppc'[r] = "exchange" => ppc[r] = "exchange" /\ new_node'[r] = new_node[r]
    BY <1>6 DEF Threads
  <2>2. new_node[q] \in heap /\ new_node[q] \in Nodes /\ new_node[q] # b
    <3>1. /\ new_node[q] \in heap
          /\ \A j \in 1..L : chain[j] # new_node[q]
      BY <2>1 DEF IndInv, Fresh
    <3>2. new_node[q] \in Nodes
      BY <3>1 DEF IndInv, TypeOK
    <3> QED
      BY <1>3, <3>1, <3>2
  <2>3. next'[new_node[q]] = Null
    BY <1>6, <2>1, <2>2 DEF IndInv, Fresh
  <2>4. <<new_node[q], "built">> \in known'[q]
    BY <1>6, <2>1 DEF IndInv, Fresh
  <2>5. /\ data[new_node[q]] = <<q, pushed[q]>> /\ pushed[q] > 0
        /\ \A j \in 1..L : chain[j] # new_node[q]
        /\ \A r \in Producers : ppc[r] = "exchange" /\ new_node[r] = new_node[q] => r = q
    BY <2>1 DEF IndInv, Fresh
  <2> QED
    BY <2>1, <2>2, <2>3, <2>4, <2>5
<1>13. Popping'
  <2>1. Consumer \in Threads /\ \A q \in Producers : ppc'[q] = "exchange" =>
            ppc[q] = "exchange" /\ new_node'[q] = new_node[q]
    BY <1>6 DEF Threads
  <2>2. cpc = "take" => next'[chain[1]] = next[chain[1]]
    <3> SUFFICES ASSUME cpc = "take" PROVE next'[chain[1]] = next[chain[1]]
      OBVIOUS
    <3>1. 1 \in 1..L /\ 2 \in 1..L /\ next[chain[1]] = chain[2]
      BY <1>3 DEF IndInv, Popping
    <3>2. next[chain[1]] # Null
      BY <1>7, <3>1, NullAssumption
    <3>3. chain[1] # b
      BY <1>3, <3>2
    <3> QED
      BY <1>6, <1>7, <3>1, <3>3
  <2> QED
    BY <1>5, <1>6, <2>1, <2>2 DEF IndInv, Popping
<1>14. HeadPublished' /\ DyingAlone'
  BY <1>4, <1>5 DEF IndInv, HeadPublished, DyingAlone
<1>15. PutOnce'
  <2>1. \A q \in Producers : (ppc'[q] = "exchange") = (ppc[q] = "exchange")
    BY <1>1, <1>6
  <2> QED
    BY <1>5, <2>1 DEF IndInv, PutOnce
<1>16. NothingLeaks'
  <2>1. {new_node'[q] : q \in {r \in Producers : ppc'[r] = "exchange"}} =
            {new_node[q] : q \in {r \in Producers : ppc[r] = "exchange"}}
    BY <1>1, <1>6
  <2> QED
    BY <1>5, <2>1 DEF IndInv, NothingLeaks
<1> QED
  BY <1>8, <1>9, <1>10, <1>11, <1>12, <1>13, <1>14, <1>15, <1>16 DEF IndInv

\* A link that the consumer sees leads to the next node of the chain, and
\* nobody is linking there any more.
LEMMA FirstLink ==
    ASSUME IndInv, cpc # "destroyed", next[tail_] # Null
    PROVE  /\ Len(chain) > 1 /\ chain[1] = tail_ /\ next[tail_] = chain[2]
           /\ <<chain[2], "built">> \in linkRel[tail_]
           /\ <<tail_, "linked">> \in linkRel[tail_]
<1>1. Len(chain) \in Nat \ {0} /\ chain[1] = tail_ /\ chain[Len(chain)] = head_ /\ next[head_] = Null
  BY DEF IndInv, ChainShape
<1>2. Len(chain) > 1
  BY <1>1
<1>3. 1 \in 1..(Len(chain) - 1) /\ 1 \in 1..Len(chain)
  BY <1>1, <1>2
<1>4. ASSUME NEW q \in Producers, ppc[q] = "link", prev_head[q] = chain[1]
      PROVE  FALSE
  <2>1. PICK j \in 1..(Len(chain) - 1) : LinksAt(q, j)
    BY <1>4 DEF IndInv, Linkers
  <2>2. next[prev_head[q]] = Null
    BY <2>1 DEF LinksAt
  <2> QED
    BY <1>1, <1>4, <2>2
<1>5. /\ next[chain[1]] = chain[1 + 1]
      /\ <<chain[1 + 1], "built">> \in linkRel[chain[1]]
      /\ <<chain[1], "linked">> \in linkRel[chain[1]]
  BY <1>3, <1>4 DEF IndInv, LinkedOrPending
<1> QED
  BY <1>1, <1>2, <1>5

LEMMA PopLoadInv ==
    ASSUME IndInv, PopLoad
    PROVE  IndInv'
<1>1. /\ cpc = "idle" /\ next[tail_] # Null /\ cpc' = "take" /\ taken' = next[tail_]
      /\ known' = [known EXCEPT ![Consumer] = @ \cup linkRel[tail_]]
      /\ UNCHANGED <<heap, data, next, linkRel, chain, head_, ppc, pushed, new_node,
                     prev_head, headRel, put, tail_, dying, got>>
  BY DEF PopLoad, Linked, producerVars
<1>2. /\ Len(chain) > 1 /\ chain[1] = tail_ /\ next[tail_] = chain[2]
      /\ <<chain[2], "built">> \in linkRel[tail_] /\ <<tail_, "linked">> \in linkRel[tail_]
  BY <1>1, FirstLink
<1>3. /\ \A t \in Threads : known[t] \subseteq known'[t]
      /\ linkRel[tail_] \subseteq known'[Consumer]
  BY <1>1 DEF IndInv, TypeOK, Threads
<1>4. TypeOK'
  <2>1. known' \in [Threads -> SUBSET Events] /\ taken' \in Nodes \cup {Null}
    BY <1>1 DEF IndInv, TypeOK
  <2> QED
    BY <1>1, <2>1 DEF IndInv, TypeOK
<1>5. /\ ChainShape' /\ LinkedOrPending'
      /\ HeadPublished' /\ PutOnce' /\ DyingAlone' /\ NothingLeaks'
  <2>1. ChainShape'
    BY <1>1 DEF IndInv, ChainShape
  <2>2. LinkedOrPending'
    BY <1>1 DEF IndInv, LinkedOrPending
  <2>3. HeadPublished' /\ PutOnce' /\ DyingAlone'
    BY <1>1 DEF IndInv, HeadPublished, PutOnce, DyingAlone
  <2>4. NothingLeaks'
    BY <1>1 DEF IndInv, NothingLeaks
  <2> QED
    BY <2>1, <2>2, <2>3, <2>4
<1>6. Linkers'
  BY <1>1, <1>3 DEF IndInv, Linkers, LinksAt, Threads
<1>7. Fresh'
  BY <1>1, <1>3 DEF IndInv, Fresh, Threads
<1>8. Popping'
  BY <1>1, <1>2, <1>3 DEF IndInv, Popping, Threads
<1> QED
  BY <1>4, <1>5, <1>6, <1>7, <1>8 DEF IndInv

LEMMA PopTakeInv ==
    ASSUME IndInv, PopTake
    PROVE  IndInv'
<1> DEFINE L == Len(chain)
<1>1. /\ cpc = "take" /\ cpc' = "delete" /\ tail_' = taken /\ taken' = tail_
      /\ got' = Append(got, data[taken])
      /\ data' = [data EXCEPT ![taken] = NoItem]
      /\ chain' = Tail(chain)
      /\ UNCHANGED <<heap, next, known, linkRel, head_, ppc, pushed, new_node, prev_head,
                     headRel, put, dying>>
  BY DEF PopTake, Source, NewTail, producerVars
<1>2. /\ L \in Nat /\ L > 1 /\ Len(put) \in Nat /\ Len(got) \in Nat
      /\ Len(put) = Len(got) + (L - 1)
      /\ chain[1] = tail_ /\ chain[2] = taken /\ next[tail_] = taken /\ chain[L] = head_
      /\ \A i \in 1..L : chain[i] \in Nodes
      /\ 1 \in 1..L /\ 2 \in 1..L
  BY <1>1, Lengths DEF IndInv, ChainShape, Popping
<1>3. /\ chain' \in Seq(Nodes) /\ Len(chain') = L - 1
      /\ \A i \in 1..(L - 1) : chain'[i] = chain[i + 1] /\ i + 1 \in 1..L
  BY <1>1, <1>2, TailFacts DEF IndInv, TypeOK
<1>4. data[taken] = put[Len(got) + 1] /\ data[taken] \in Items
  <2>1. 2 \in 2..L /\ Len(got) + 1 \in 1..Len(put)
    BY <1>2
  <2>2. data[chain[2]] = put[Len(got) + (2 - 1)]
    BY <2>1 DEF IndInv, ChainShape
  <2> QED
    BY <1>2, <2>1, <2>2, Lengths
<1>5. got' \in Seq(Items) /\ Len(got') = Len(got) + 1
  BY <1>1, <1>4, AppendFacts DEF IndInv, TypeOK
<1>6. \A i, j \in 1..L : chain[i] = chain[j] => i = j
  BY DEF IndInv, ChainShape
<1>7. \A m \in Nodes : m # taken => data'[m] = data[m]
  BY <1>1 DEF IndInv, TypeOK
<1>8. TypeOK'
  <2>1. data' \in [Nodes -> Items \cup {NoItem}]
    BY <1>1 DEF IndInv, TypeOK
  <2>2. tail_' \in Nodes /\ taken' \in Nodes
    BY <1>1, <1>2
  <2> QED
    BY <1>1, <1>3, <1>5, <2>1, <2>2 DEF IndInv, TypeOK
<1>9. ChainShape'
  <2>1. /\ Len(put) = Len(got') + (Len(chain') - 1) /\ Len(chain') \in Nat \ {0}
        /\ chain'[1] = taken /\ chain'[Len(chain')] = head_ /\ next[head_] = Null
    <3>1. 1 \in 1..(L - 1) /\ L - 1 \in 1..(L - 1) /\ L - 1 + 1 = L /\ L - 1 \in Nat \ {0}
      BY <1>2
    <3>2. next[head_] = Null
      BY <1>1 DEF IndInv, ChainShape
    <3> QED
      BY <1>2, <1>3, <1>5, <3>1, <3>2
  <2>2. \A i \in 1..Len(chain') : chain'[i] \in heap
    <3>1. \A i \in 1..L : chain[i] \in heap
      BY DEF IndInv, ChainShape
    <3> QED
      BY <1>3, <3>1
  <2>3. ASSUME NEW i \in 1..Len(chain'), NEW j \in 1..Len(chain'), chain'[i] = chain'[j]
        PROVE  i = j
    <3>1. chain[i + 1] = chain[j + 1] /\ i + 1 \in 1..L /\ j + 1 \in 1..L
      BY <1>3, <2>3
    <3>2. i + 1 = j + 1
      BY <1>6, <3>1
    <3> QED
      BY <1>2, <1>3, <3>2
  <2>4. ASSUME NEW i \in 2..Len(chain')
        PROVE  data'[chain'[i]] = put[Len(got') + (i - 1)]
    <3>1. i + 1 \in 2..L /\ i + 1 \in 1..L /\ i + 1 # 2 /\ i \in 1..(L - 1)
      BY <1>2, <1>3
    <3>2. chain'[i] = chain[i + 1] /\ chain[i + 1] \in Nodes
      BY <1>2, <1>3, <3>1
    <3>3. chain[i + 1] # taken
      BY <1>2, <1>6, <3>1
    <3>4. data[chain[i + 1]] = put[Len(got) + ((i + 1) - 1)]
      BY <3>1 DEF IndInv, ChainShape
    <3>5. Len(got) + ((i + 1) - 1) = Len(got') + (i - 1)
      BY <1>2, <1>5, <3>1
    <3> QED
      BY <1>7, <3>2, <3>3, <3>4, <3>5
  <2> QED
    BY <1>1, <2>1, <2>2, <2>3, <2>4 DEF ChainShape
<1>10. Linkers'
  <2> SUFFICES ASSUME NEW q \in Producers, ppc[q] = "link"
               PROVE  \E i \in 1..(Len(chain') - 1) : LinksAt(q, i)'
    BY <1>1 DEF Linkers
  <2>1. PICK j \in 1..(L - 1) : LinksAt(q, j)
    BY DEF IndInv, Linkers
  <2>2. j # 1
    BY <1>2, <2>1, NullAssumption DEF LinksAt
  <2>3. PICK i \in 1..(Len(chain') - 1) : j = i + 1
    <3>1. j - 1 \in 1..(Len(chain') - 1) /\ j = (j - 1) + 1
      BY <1>2, <1>3, <2>2
    <3> QED
      BY <3>1
  <2>4. /\ chain'[i] = chain[j] /\ chain'[i + 1] = chain[j + 1]
        /\ Len(got') + i = Len(got) + j
    BY <1>2, <1>3, <1>5, <2>3
  <2>5. LinksAt(q, i)'
    BY <1>1, <2>1, <2>4 DEF LinksAt
  <2> QED
    BY <2>5
<1>11. LinkedOrPending'
  <2> SUFFICES ASSUME NEW i \in 1..(Len(chain') - 1)
               PROVE  \/ /\ next[chain'[i]] = chain'[i + 1]
                         /\ <<chain'[i + 1], "built">> \in linkRel[chain'[i]]
                         /\ <<chain'[i], "linked">> \in linkRel[chain'[i]]
                      \/ \E q \in Producers : ppc[q] = "link" /\ prev_head[q] = chain'[i]
    BY <1>1 DEF LinkedOrPending
  <2>1. PICK j \in 1..(L - 1) : j = i + 1
    <3>1. i + 1 \in 1..(L - 1)
      BY <1>2, <1>3
    <3> QED
      BY <3>1
  <2>2. chain'[i] = chain[j] /\ chain'[i + 1] = chain[j + 1]
    BY <1>2, <1>3, <2>1
  <2> QED
    BY <2>2 DEF IndInv, LinkedOrPending
<1>12. Fresh'
  <2> SUFFICES ASSUME NEW q \in Producers, ppc[q] = "exchange"
               PROVE  /\ new_node[q] \in heap /\ next[new_node[q]] = Null
                      /\ data'[new_node[q]] = <<q, pushed[q]>> /\ pushed[q] > 0
                      /\ <<new_node[q], "built">> \in known[q]
                      /\ \A i \in 1..Len(chain') : chain'[i] # new_node[q]
                      /\ \A r \in Producers :
                            ppc[r] = "exchange" /\ new_node[r] = new_node[q] => r = q
    BY <1>1 DEF Fresh
  <2>1. /\ \A i \in 1..L : chain[i] # new_node[q]
        /\ new_node[q] \in heap /\ new_node[q] \in Nodes
    BY DEF IndInv, Fresh, TypeOK
  <2>2. data'[new_node[q]] = data[new_node[q]]
    BY <1>2, <1>7, <2>1
  <2>3. \A i \in 1..Len(chain') : chain'[i] # new_node[q]
    BY <1>3, <2>1
  <2> QED
    BY <2>2, <2>3 DEF IndInv, Fresh
<1>13. Popping'
  <2>1. tail_ \in heap
    BY <1>2 DEF IndInv, ChainShape
  <2>2. \A i \in 1..Len(chain') : chain'[i] # tail_
    BY <1>2, <1>3, <1>6
  <2>3. \A q \in Producers : ppc[q] = "exchange" => new_node[q] # tail_
    BY <1>2 DEF IndInv, Fresh
  <2> QED
    BY <1>1, <2>1, <2>2, <2>3 DEF IndInv, Popping
<1>14. HeadPublished' /\ PutOnce' /\ DyingAlone'
  BY <1>1 DEF IndInv, HeadPublished, PutOnce, DyingAlone
<1>15. NothingLeaks'
  <2>1. {chain[i] : i \in DOMAIN chain} = {chain'[i] : i \in DOMAIN chain'} \cup {tail_}
    <3>1. DOMAIN chain = 1..L /\ DOMAIN chain' = 1..(L - 1)
      BY <1>3 DEF IndInv, TypeOK
    <3>2. \A j \in 1..L : j = 1 \/ \E i \in 1..(L - 1) : chain'[i] = chain[j]
      <4> SUFFICES ASSUME NEW j \in 1..L, j # 1
                   PROVE  \E i \in 1..(L - 1) : chain'[i] = chain[j]
        OBVIOUS
      <4>1. j - 1 \in 1..(L - 1) /\ (j - 1) + 1 = j
        BY <1>2
      <4> QED
        BY <1>3, <4>1
    <3>3. \A i \in 1..(L - 1) : \E j \in 1..L : chain'[i] = chain[j]
      BY <1>2, <1>3
    <3>4. ASSUME NEW x \in {chain[i] : i \in DOMAIN chain}
          PROVE  x \in {chain'[i] : i \in DOMAIN chain'} \cup {tail_}
      <4>1. PICK j \in 1..L : x = chain[j]
        BY <3>1, <3>4
      <4>2. CASE j = 1
        BY <1>2, <4>1, <4>2
      <4>3. CASE j # 1
        <5>1. PICK i \in 1..(L - 1) : chain'[i] = chain[j]
          BY <3>2, <4>3
        <5> QED
          BY <3>1, <4>1, <5>1
      <4> QED
        BY <4>2, <4>3
    <3>5. ASSUME NEW x \in {chain'[i] : i \in DOMAIN chain'} \cup {tail_}
          PROVE  \E j \in 1..L : x = chain[j]
      <4>1. CASE x = tail_
        BY <1>2, <4>1
      <4>2. CASE x # tail_
        <5>1. PICK i \in 1..(L - 1) : x = chain'[i]
          BY <3>1, <3>5, <4>2
        <5> QED
          BY <3>3, <5>1
      <4> QED
        BY <4>1, <4>2
    <3> QED
      BY <3>1, <3>4, <3>5
  <2> QED
    BY <1>1, <2>1 DEF IndInv, NothingLeaks
<1> QED
  BY <1>8, <1>9, <1>10, <1>11, <1>12, <1>13, <1>14, <1>15 DEF IndInv

LEMMA PopDeleteInv ==
    ASSUME IndInv, PopDelete
    PROVE  IndInv'
<1>1. /\ cpc = "delete" /\ cpc' = "idle" /\ taken' = Null /\ heap' = heap \ {taken}
      /\ UNCHANGED <<data, next, known, linkRel, chain, head_, ppc, pushed, new_node,
                     prev_head, headRel, put, tail_, dying, got>>
  BY DEF PopDelete, producerVars
<1>2. /\ \A i \in 1..Len(chain) : chain[i] # taken
      /\ \A p \in Producers : ppc[p] = "exchange" => new_node[p] # taken
  BY <1>1 DEF IndInv, Popping
<1>3. TypeOK'
  BY <1>1 DEF IndInv, TypeOK
<1>4. ChainShape'
  BY <1>1, <1>2 DEF IndInv, ChainShape
<1>5. Linkers' /\ LinkedOrPending'
  BY <1>1 DEF IndInv, Linkers, LinkedOrPending, LinksAt
<1>6. Fresh'
  BY <1>1, <1>2 DEF IndInv, Fresh
<1>7. Popping' /\ HeadPublished' /\ PutOnce' /\ DyingAlone'
  BY <1>1 DEF IndInv, Popping, HeadPublished, PutOnce, DyingAlone
<1>8. NothingLeaks'
  <2>1. taken \notin {chain[i] : i \in DOMAIN chain}
    <3>1. DOMAIN chain = 1..Len(chain)
      BY DEF IndInv, TypeOK
    <3> QED
      BY <1>2, <3>1
  <2>2. taken \notin {new_node[p] : p \in {q \in Producers : ppc[q] = "exchange"}}
    BY <1>2
  <2> QED
    BY <1>1, <2>1, <2>2 DEF IndInv, NothingLeaks
<1> QED
  BY <1>3, <1>4, <1>5, <1>6, <1>7, <1>8 DEF IndInv

LEMMA DestroyInv ==
    ASSUME IndInv, Destroy
    PROVE  IndInv'
<1>1. /\ cpc = "idle" /\ dying' = TRUE /\ \A p \in Producers : ppc[p] = "idle"
      /\ known' = [known EXCEPT ![Consumer] = UNION {known[t] : t \in Threads}]
      /\ UNCHANGED <<heap, data, next, linkRel, chain, head_, ppc, pushed, new_node,
                     prev_head, headRel, put, tail_, cpc, taken, got>>
  BY DEF Destroy, producerVars
<1>2. known' \in [Threads -> SUBSET Events] /\ known[Consumer] \subseteq known'[Consumer]
  <2>1. UNION {known[t] : t \in Threads} \subseteq Events
    BY DEF IndInv, TypeOK
  <2>2. Consumer \in Threads
    BY DEF Threads
  <2> QED
    BY <1>1, <2>1, <2>2 DEF IndInv, TypeOK
<1>3. TypeOK'
  BY <1>1, <1>2 DEF IndInv, TypeOK
<1>4. ChainShape'
  BY <1>1 DEF IndInv, ChainShape
<1>5. Linkers' /\ LinkedOrPending' /\ Fresh'
  BY <1>1 DEF IndInv, Linkers, LinkedOrPending, Fresh
<1>6. Popping' /\ HeadPublished' /\ PutOnce' /\ DyingAlone'
  BY <1>1, <1>2 DEF IndInv, Popping, HeadPublished, PutOnce, DyingAlone
<1>7. NothingLeaks'
  BY <1>1 DEF IndInv, NothingLeaks
<1> QED
  BY <1>3, <1>4, <1>5, <1>6, <1>7 DEF IndInv

\* At the end of the destructor's loop the sentinel is the last node.
LEMMA DestroySentinelInv ==
    ASSUME IndInv, DestroySentinel
    PROVE  IndInv'
<1>1. /\ cpc = "idle" /\ dying /\ next[tail_] = Null
      /\ heap' = heap \ {tail_} /\ chain' = <<>> /\ cpc' = "destroyed"
      /\ UNCHANGED <<data, next, known, linkRel, head_, ppc, pushed, new_node,
                     prev_head, headRel, put, tail_, taken, dying, got>>
  BY DEF DestroySentinel, Sentinel, producerVars
<1>2. \A p \in Producers : ppc[p] = "idle"
  BY <1>1 DEF IndInv, DyingAlone
<1>3. Len(chain) \in Nat \ {0} /\ chain[1] = tail_ /\ \A i \in 1..Len(chain) : chain[i] \in Nodes
  BY <1>1, Lengths DEF IndInv, ChainShape
<1>4. Len(chain) = 1
  <2> SUFFICES ASSUME Len(chain) > 1 PROVE FALSE
    BY <1>3
  <2>1. 1 \in 1..(Len(chain) - 1) /\ 2 \in 1..Len(chain)
    BY <1>3
  <2>2. next[chain[1]] = chain[1 + 1]
    BY <1>2, <2>1 DEF IndInv, LinkedOrPending
  <2> QED
    BY <1>1, <1>3, <2>1, <2>2, NullAssumption
<1>5. heap' = {}
  <2>1. {chain[i] : i \in DOMAIN chain} = {tail_}
    <3>1. DOMAIN chain = {1}
      BY <1>4 DEF IndInv, TypeOK
    <3> QED
      BY <1>3, <3>1
  <2>2. {new_node[p] : p \in {q \in Producers : ppc[q] = "exchange"}} = {}
    BY <1>2
  <2> QED
    BY <1>1, <2>1, <2>2 DEF IndInv, NothingLeaks
<1>6. Len(chain') = 0 /\ chain' \in Seq(Nodes)
  BY <1>1
<1>7. TypeOK'
  BY <1>1, <1>5, <1>6 DEF IndInv, TypeOK
<1>8. ChainShape'
  BY <1>1, <1>6 DEF ChainShape
<1>9. Linkers' /\ LinkedOrPending' /\ Fresh'
  BY <1>1, <1>2, <1>6 DEF Linkers, LinkedOrPending, Fresh
<1>10. Popping' /\ HeadPublished' /\ PutOnce' /\ DyingAlone'
  BY <1>1 DEF IndInv, Popping, HeadPublished, PutOnce, DyingAlone
<1>11. NothingLeaks'
  BY <1>1, <1>2, <1>5 DEF NothingLeaks
<1> QED
  BY <1>7, <1>8, <1>9, <1>10, <1>11 DEF IndInv

LEMMA NextIndInv ==
    ASSUME IndInv, [Next]_vars
    PROVE  IndInv'
<1>1. CASE UNCHANGED vars
  <2> USE <1>1 DEF vars, producerVars, consumerVars, IndInv
  <2>1. TypeOK'
    BY DEF TypeOK
  <2>2. ChainShape'
    BY DEF ChainShape
  <2>3. Linkers' /\ LinkedOrPending'
    BY DEF Linkers, LinkedOrPending, LinksAt
  <2>4. Fresh' /\ Popping'
    BY DEF Fresh, Popping
  <2>5. HeadPublished' /\ PutOnce' /\ DyingAlone' /\ NothingLeaks'
    BY DEF HeadPublished, PutOnce, DyingAlone, NothingLeaks
  <2> QED
    BY <2>1, <2>2, <2>3, <2>4, <2>5
<1>2. ASSUME NEW p \in Producers, NEW n \in Nodes, Allocate(p, n) PROVE IndInv'
  BY <1>2, AllocateInv
<1>3. ASSUME NEW p \in Producers, Exchange(p) PROVE IndInv'
  BY <1>3, ExchangeInv
<1>4. ASSUME NEW p \in Producers, Link(p) PROVE IndInv'
  BY <1>4, LinkInv
<1>5. CASE Pop
  BY <1>5, PopLoadInv, PopTakeInv, PopDeleteInv DEF Pop
<1>6. CASE Destroy \/ DestroySentinel
  BY <1>6, DestroyInv, DestroySentinelInv
<1> QED
  BY <1>1, <1>2, <1>3, <1>4, <1>5, <1>6 DEF Next, Push

\* The inductive invariant holds in every state.
THEOREM Invariance == Spec => []IndInv
BY InitIndInv, NextIndInv, PTL DEF Spec

-----------------------------------------------------------------------------
(* Theorems *)

\* Every variable keeps its type.
THEOREM TypeCorrect == Spec => []TypeOK
<1>1. IndInv => TypeOK
  BY DEF IndInv
<1> QED
  BY <1>1, Invariance, PTL

\* No thread touches a deleted node, though a producer may sleep for long
\* between its exchange and its link, and conflicting accesses are ordered.
THEOREM Safe == Spec => []MemorySafe
<1>1. ASSUME IndInv PROVE MemorySafe
  <2>1. ASSUME NEW p \in Producers, ppc[p] = "link"
        PROVE  prev_head[p] \in heap /\ <<prev_head[p], "built">> \in known[p]
    <3>1. PICK i \in 1..(Len(chain) - 1) : LinksAt(p, i)
      BY <1>1, <2>1 DEF IndInv, Linkers
    <3>2. i \in 1..Len(chain)
      BY <1>1, Lengths
    <3> QED
      BY <1>1, <3>1, <3>2 DEF IndInv, ChainShape, LinksAt
  <2>2. cpc # "destroyed" => tail_ \in heap
    <3>1. cpc # "destroyed" => 1 \in 1..Len(chain) /\ chain[1] = tail_
      BY <1>1 DEF IndInv, ChainShape
    <3> QED
      BY <1>1, <3>1 DEF IndInv, ChainShape
  <2>3. cpc \in {"take", "delete"} => taken \in heap /\ <<taken, "built">> \in known[Consumer]
    <3>1. cpc = "take" => taken \in heap
      <4>1. cpc = "take" => 2 \in 1..Len(chain) /\ taken = chain[2]
        BY <1>1, Lengths DEF IndInv, Popping
      <4> QED
        BY <1>1, <4>1 DEF IndInv, ChainShape
    <3> QED
      BY <1>1, <3>1 DEF IndInv, Popping
  <2> QED
    BY <1>1, <2>1, <2>2, <2>3 DEF IndInv, Fresh, Popping, MemorySafe
<1> QED
  BY <1>1, Invariance, PTL

\* Every node allocated is on the way from tail_ to head_, being pushed or
\* being deleted; the destructor leaves none.
THEOREM NoLeak == Spec => []NothingLeaks
<1>1. IndInv => NothingLeaks
  BY DEF IndInv
<1> QED
  BY <1>1, Invariance, PTL

\* A pop that finds nothing though an item has been put is told so because
\* the push of just that item has not stored its link.
THEOREM EmptyIsHonest == Spec => []EmptyOrMidFlight
<1>1. ASSUME IndInv PROVE EmptyOrMidFlight
  <2> SUFFICES ASSUME cpc = "idle", next[tail_] = Null, Len(put) # Len(got)
               PROVE  \E p \in Producers :
                         /\ ppc[p] = "link" /\ prev_head[p] = tail_
                         /\ data[new_node[p]] = put[Len(got) + 1]
    BY DEF EmptyOrMidFlight
  <2>1. /\ Len(chain) \in Nat /\ Len(chain) > 1 /\ chain[1] = tail_
        /\ \A i \in 1..Len(chain) : chain[i] \in Nodes
    BY <1>1, Lengths DEF IndInv, ChainShape
  <2>2. 1 \in 1..(Len(chain) - 1) /\ 2 \in 2..Len(chain) /\ 1 \in 1..Len(chain) /\ 2 \in 1..Len(chain)
    BY <2>1
  <2>3. PICK p \in Producers : ppc[p] = "link" /\ prev_head[p] = chain[1]
    <3>1. next[chain[1]] # chain[1 + 1]
      BY <2>1, <2>2, NullAssumption
    <3> QED
      BY <1>1, <2>2, <3>1 DEF IndInv, LinkedOrPending
  <2>4. PICK i \in 1..(Len(chain) - 1) : LinksAt(p, i)
    BY <1>1, <2>3 DEF IndInv, Linkers
  <2>5. i = 1
    <3>1. chain[i] = chain[1] /\ i \in 1..Len(chain)
      BY <2>1, <2>3, <2>4 DEF LinksAt
    <3> QED
      BY <1>1, <2>2, <3>1 DEF IndInv, ChainShape
  <2>6. new_node[p] = chain[2]
    BY <2>4, <2>5 DEF LinksAt
  <2>7. data[chain[2]] = put[Len(got) + (2 - 1)]
    BY <1>1, <2>2 DEF IndInv, ChainShape
  <2> QED
    BY <2>1, <2>3, <2>6, <2>7
<1> QED
  BY <1>1, Invariance, PTL

-----------------------------------------------------------------------------
(* Refinement *)

\* The positions of the items whose push is between its exchange and its link.
Midflight == {i \in DOMAIN put : \E p \in Producers : ppc[p] = "link" /\ put[i] = <<p, pushed[p]>>}

LEMMA MidflightRange ==
    ASSUME IndInv
    PROVE  Midflight = {i \in 1..Len(put) :
                           \E p \in Producers : ppc[p] = "link" /\ put[i] = <<p, pushed[p]>>}
BY DEF IndInv, TypeOK, Midflight

\* Before its exchange a push is not seen, and no other is disturbed.
LEMMA AllocateMaps ==
    ASSUME IndInv, NEW p \in Producers, NEW n \in Nodes, Allocate(p, n)
    PROVE  UNCHANGED <<put, got>> /\ Midflight' = Midflight
<1>1. /\ UNCHANGED <<put, got>> /\ ppc[p] = "idle"
      /\ ppc' = [ppc EXCEPT ![p] = "exchange"] /\ pushed' = [pushed EXCEPT ![p] = @ + 1]
  BY DEF Allocate, consumerVars
<1>2. \A q \in Producers : (ppc'[q] = "link") = (ppc[q] = "link")
  BY <1>1 DEF IndInv, TypeOK
<1>3. \A q \in Producers : ppc[q] = "link" => pushed'[q] = pushed[q]
  BY <1>1 DEF IndInv, TypeOK
<1> QED
  BY <1>1, <1>2, <1>3 DEF Midflight

LEMMA ExchangeMaps ==
    ASSUME IndInv, NEW p \in Producers, Exchange(p)
    PROVE  \E v \in Items : /\ put' = Append(put, v) /\ got' = got
                            /\ Midflight' = Midflight \cup {Len(put) + 1}
<1> DEFINE v == <<p, pushed[p]>>
<1>1. /\ ppc[p] = "exchange" /\ data[new_node[p]] = v /\ pushed[p] > 0
      /\ put' = Append(put, data[new_node[p]]) /\ got' = got
      /\ ppc' = [ppc EXCEPT ![p] = "link"] /\ pushed' = pushed
  BY DEF Exchange, consumerVars, IndInv, Fresh
<1>2. v \in Items /\ pushed[p] \in Nat
  BY <1>1, PushesAssumption DEF IndInv, TypeOK, Items
<1>3. /\ Len(put') = Len(put) + 1 /\ Len(put) \in Nat /\ put' \in Seq(Items)
      /\ \A i \in 1..Len(put) : put'[i] = put[i]
      /\ put'[Len(put) + 1] = v
  BY <1>1, <1>2, AppendFacts DEF IndInv, TypeOK
<1>4. \A i \in 1..Len(put) : put[i] # v
  <2> SUFFICES ASSUME NEW i \in 1..Len(put), put[i] = v
               PROVE  FALSE
    OBVIOUS
  <2>1. put[i][1] = p /\ put[i][2] = pushed[p]
    OBVIOUS
  <2> QED
    BY <1>1, <1>2, <2>1 DEF IndInv, PutOnce
<1>5. \A q \in Producers : q # p => ppc'[q] = ppc[q]
  BY <1>1 DEF IndInv, TypeOK
<1>6. ppc'[p] = "link"
  BY <1>1 DEF IndInv, TypeOK
<1>7. DOMAIN put = 1..Len(put) /\ DOMAIN put' = 1..(Len(put) + 1)
  BY <1>3 DEF IndInv, TypeOK
<1>8. ASSUME NEW i \in 1..Len(put)
      PROVE  i \in Midflight' <=> i \in Midflight
  <2>1. i \in DOMAIN put /\ i \in DOMAIN put' /\ put'[i] = put[i]
    BY <1>3, <1>7
  <2>2. \A q \in Producers : ppc'[q] = "link" /\ put[i] = <<q, pushed[q]>> =>
            q # p /\ ppc[q] = "link"
    BY <1>4, <1>5
  <2>3. \A q \in Producers : ppc[q] = "link" => ppc'[q] = "link"
    BY <1>1, <1>5
  <2> QED
    BY <1>1, <2>1, <2>2, <2>3 DEF Midflight
<1>9. Len(put) + 1 \in Midflight'
  BY <1>1, <1>3, <1>6, <1>7 DEF Midflight
<1>10. Midflight' = Midflight \cup {Len(put) + 1}
  <2>1. Midflight \subseteq 1..Len(put) /\ Midflight' \subseteq 1..(Len(put) + 1)
    BY <1>7 DEF Midflight
  <2>2. \A i \in 1..(Len(put) + 1) : i \in 1..Len(put) \/ i = Len(put) + 1
    BY <1>3
  <2> QED
    BY <1>8, <1>9, <2>1, <2>2
<1> QED
  BY <1>1, <1>2, <1>10

LEMMA LinkMaps ==
    ASSUME IndInv, NEW p \in Producers, Link(p)
    PROVE  \E i \in Midflight : Midflight' = Midflight \ {i} /\ UNCHANGED <<put, got>>
<1>1. /\ ppc[p] = "link" /\ UNCHANGED <<put, got, pushed>> /\ ppc' = [ppc EXCEPT ![p] = "idle"]
  BY DEF Link, consumerVars
<1>2. PICK j \in 1..(Len(chain) - 1) : LinksAt(p, j)
  BY <1>1 DEF IndInv, Linkers
<1>3. PICK i \in 1..Len(put) : put[i] = <<p, pushed[p]>>
  <2>1. cpc # "destroyed"
    BY <1>1 DEF IndInv, DyingAlone
  <2>2. Len(got) + j \in 1..Len(put)
    BY <1>2, <2>1, Lengths DEF IndInv, ChainShape
  <2> QED
    BY <1>2, <2>2 DEF LinksAt
<1>4. DOMAIN put = 1..Len(put)
  BY DEF IndInv, TypeOK
<1>5. i \in Midflight
  BY <1>1, <1>3, <1>4 DEF Midflight
<1>6. \A k \in 1..Len(put) : put[k] = <<p, pushed[p]>> => k = i
  BY <1>3 DEF IndInv, PutOnce
<1>7. /\ \A q \in Producers : q # p => ppc'[q] = ppc[q]
      /\ ppc'[p] # "link"
  BY <1>1 DEF IndInv, TypeOK
<1>8. ASSUME NEW k \in 1..Len(put)
      PROVE  k \in Midflight' <=> k \in Midflight /\ k # i
  <2>1. \A q \in Producers : put[i] = <<q, pushed[q]>> => q = p
    BY <1>3
  <2>2. k \in Midflight' <=> \E q \in Producers : ppc'[q] = "link" /\ put[k] = <<q, pushed[q]>>
    BY <1>1, <1>4 DEF Midflight
  <2>3. k \in Midflight <=> \E q \in Producers : ppc[q] = "link" /\ put[k] = <<q, pushed[q]>>
    BY <1>4 DEF Midflight
  <2> QED
    BY <1>6, <1>7, <2>1, <2>2, <2>3
<1>9. Midflight \subseteq 1..Len(put) /\ Midflight' \subseteq 1..Len(put)
  BY <1>1, <1>4 DEF Midflight
<1>10. Midflight' = Midflight \ {i}
  BY <1>8, <1>9
<1> QED
  BY <1>1, <1>5, <1>10

\* What is popped is the oldest item not popped yet, and its push is complete.
LEMMA PopTakeMaps ==
    ASSUME IndInv, PopTake
    PROVE  /\ Len(got) < Len(put) /\ Len(got) + 1 \notin Midflight
           /\ got' = Append(got, put[Len(got) + 1])
           /\ put' = put /\ Midflight' = Midflight
<1>1. /\ cpc = "take" /\ got' = Append(got, data[taken]) /\ UNCHANGED <<put, ppc, pushed>>
  BY DEF PopTake, Source, producerVars
<1>2. /\ Len(chain) \in Nat /\ Len(chain) > 1 /\ Len(got) \in Nat
      /\ Len(put) = Len(got) + (Len(chain) - 1)
      /\ taken = chain[2] /\ next[chain[1]] = taken /\ 2 \in 1..Len(chain) /\ taken \in Nodes
  BY <1>1, Lengths DEF IndInv, ChainShape, Popping
<1>3. data[taken] = put[Len(got) + 1]
  <2>1. data[chain[2]] = put[Len(got) + (2 - 1)]
    BY <1>2 DEF IndInv, ChainShape
  <2> QED
    BY <1>2, <2>1
<1>4. ASSUME Len(got) + 1 \in Midflight PROVE FALSE
  <2>1. PICK q \in Producers : ppc[q] = "link" /\ put[Len(got) + 1] = <<q, pushed[q]>>
    BY <1>4 DEF Midflight
  <2>2. PICK j \in 1..(Len(chain) - 1) : LinksAt(q, j)
    BY <2>1 DEF IndInv, Linkers
  <2>3. Len(got) + j = Len(got) + 1
    <3>1. /\ Len(got) + j \in 1..Len(put) /\ Len(got) + 1 \in 1..Len(put)
          /\ put[Len(got) + j] = put[Len(got) + 1]
      BY <1>2, <2>1, <2>2 DEF LinksAt
    <3> QED
      BY <3>1 DEF IndInv, PutOnce
  <2>4. j = 1
    BY <1>2, <2>3
  <2> QED
    BY <1>2, <2>2, <2>4, NullAssumption DEF LinksAt
<1>5. Midflight' = Midflight
  BY <1>1 DEF Midflight
<1> QED
  BY <1>1, <1>2, <1>3, <1>4, <1>5

\* The queue implements MpscFifo: items are popped in the order of the
\* exchanges, and none whose push, or an earlier one, is mid-flight.
THEOREM Refinement == Spec => ImplementsFifo
<1>1. Init => Abstract!Init
  BY DEF Init, Abstract!Init
<1>2. ASSUME IndInv, [Next]_vars
      PROVE  [Abstract!Next]_(Abstract!vars)
  <2> USE DEF Abstract!vars
  <2> USE <1>2
  <2>1. CASE UNCHANGED <<put, got, ppc, pushed>>
    BY <2>1
  <2>2. ASSUME NEW p \in Producers, NEW n \in Nodes, Allocate(p, n)
        PROVE  UNCHANGED Abstract!vars
    BY <2>2, AllocateMaps DEF Midflight
  <2>3. ASSUME NEW p \in Producers, Exchange(p)
        PROVE  Abstract!Next
    <3>1. PICK v \in Items : Abstract!Exchange(v)
      BY <2>3, ExchangeMaps DEF Abstract!Exchange, Midflight
    <3> QED
      BY <3>1 DEF Abstract!Next
  <2>4. ASSUME NEW p \in Producers, Link(p)
        PROVE  Abstract!Next
    <3>1. PICK i \in Midflight : Abstract!Link(i)
      BY <2>4, LinkMaps DEF Abstract!Link, Midflight
    <3> QED
      BY <3>1 DEF Abstract!Next, Midflight
  <2>5. CASE PopTake
    <3>1. Abstract!Take
      BY <2>5, PopTakeMaps DEF Abstract!Take, Midflight
    <3> QED
      BY <3>1 DEF Abstract!Next
  <2>6. CASE UNCHANGED vars \/ PopLoad \/ PopDelete \/ Destroy \/ DestroySentinel
    <3>1. UNCHANGED <<put, got, ppc, pushed>>
      BY <2>6 DEF vars, producerVars, consumerVars, PopLoad, PopDelete, Destroy, DestroySentinel
    <3> QED
      BY <2>1, <3>1
  <2> QED
    BY <2>2, <2>3, <2>4, <2>5, <2>6 DEF Next, Push, Pop
<1> QED
  BY <1>1, <1>2, Invariance, PTL DEF Spec, ImplementsFifo, Abstract!Spec

-----------------------------------------------------------------------------
(* The queue seen by who does not look at pushes that are mid-flight *)

\* MpscFifo has taken no more than was put.
AbstractInv == /\ put \in Seq(Items) /\ got \in Seq(Items) /\ Len(got) <= Len(put)

\* MpscFifo is a FIFO of any size: an exchange puts, and the completion of a
\* push is not seen.
THEOREM AbstractIsFifo == Abstract!Spec => Abstract!Unbounded!Spec
<1>1. Abstract!Init => AbstractInv /\ Abstract!Unbounded!Init
  BY DEF Abstract!Init, AbstractInv, Abstract!Unbounded!Init
<1>2. ASSUME AbstractInv, [Abstract!Next]_(Abstract!vars)
      PROVE  AbstractInv' /\ [Abstract!Unbounded!Next]_(Abstract!Unbounded!vars)
  <2> USE DEF AbstractInv, Abstract!Unbounded!vars
  <2>1. CASE UNCHANGED Abstract!vars
    BY <1>2, <2>1 DEF Abstract!vars
  <2>2. ASSUME NEW v \in Items, Abstract!Exchange(v)
        PROVE  AbstractInv' /\ Abstract!Unbounded!Put(v)
    BY <1>2, <2>2 DEF Abstract!Exchange, Abstract!Unbounded!Put
  <2>3. ASSUME NEW i, Abstract!Link(i)
        PROVE  AbstractInv' /\ UNCHANGED <<put, got>>
    BY <1>2, <2>3 DEF Abstract!Link
  <2>4. CASE Abstract!Take
    <3>1. AbstractInv'
      BY <1>2, <2>4 DEF Abstract!Take
    <3>2. Abstract!Unbounded!Take
      BY <2>4 DEF Abstract!Take, Abstract!Unbounded!Take
    <3> QED
      BY <3>1, <3>2 DEF Abstract!Unbounded!Next
  <2> QED
    BY <1>2, <2>1, <2>2, <2>3, <2>4 DEF Abstract!Next, Abstract!Unbounded!Next
<1> QED
  BY <1>1, <1>2, PTL DEF Abstract!Spec, Abstract!Unbounded!Spec

\* So the queue is an unbounded FIFO in the order of the exchanges.
THEOREM InOrder == Spec => Abstract!Unbounded!Spec
  BY Refinement, AbstractIsFifo DEF ImplementsFifo
=============================================================================
