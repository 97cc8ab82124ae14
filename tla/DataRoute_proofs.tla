-------------------------- MODULE DataRoute_proofs --------------------------
(***************************************************************************)
(* Proofs about DataRoute, for any number of callbacks, nodes and links    *)
(* and every length of the queue.                                          *)
(***************************************************************************)
EXTENDS DataRoute, SequenceTheorems, TLAPS

(* agcore_data_queue_init and the queue. *)

\* The parts made are the first of all parts, those before the one the
\* initialisation is at among them.
StartInv ==
  /\ made \in Seq(ToSet(Parts))
  /\ Len(made) <= Len(Parts)
  /\ \A i \in 1 .. Len(made) : made[i] = Parts[i]
  /\ starting \in 0 .. Len(Parts)
  /\ starting <= Len(made) + 1
  /\ queued \in 0 .. QueueLength
-----------------------------------------------------------------------------
(* The list. *)

Pointers ==
  /\ head \in Nodes \cup {Null} /\ tail \in Nodes \cup {Null}
  /\ cbOf \in [Nodes -> Callbacks \cup {Null}]
  /\ next \in [Nodes -> Nodes \cup {Null}]
  /\ adding \in [by : {"main", "callback", Null}, node : Nodes \cup {Null}, linked : BOOLEAN]
  /\ list \in Seq(Nodes)

Linked ==
  /\ head = (IF list = <<>> THEN Null ELSE list[1])
  /\ \A i \in 1 .. Len(list) :
       next[list[i]] = (IF i = Len(list) THEN Null ELSE list[i + 1])

\* The node that the pointer to the last one gives: while a node that is
\* linked already has not become the tail, the one before it.
TailAt == IF adding.linked THEN Len(list) - 1 ELSE Len(list)

Ended ==
  /\ adding.linked => list # <<>> /\ adding.node = list[Len(list)]
  /\ tail = (IF TailAt = 0 THEN Null ELSE list[TailAt])

\* No callback has two nodes, nor a third in the making.
Distinct ==
  /\ \A i, j \in 1 .. Len(list) : cbOf[list[i]] = cbOf[list[j]] => i = j
  /\ adding # NoAdding => adding.node \in Nodes
  /\ adding # NoAdding /\ ~adding.linked =>
       /\ next[adding.node] = Null
       /\ \A i \in 1 .. Len(list) : cbOf[list[i]] # cbOf[adding.node]

ListInv == Pointers /\ Linked /\ Ended /\ Distinct
-----------------------------------------------------------------------------
(* The walk of the data task. *)

FirstNodes(n) == {list[i] : i \in 1 .. n}

\* The dispatch began when n nodes were linked and the tail was the k-th; it
\* has called the first nodes, and not beyond the k-th if there was a tail.
Walking(k, n) ==
  /\ k <= n
  /\ due = FirstNodes(k)
  /\ before = FirstNodes(n)
  /\ walk.at # "idle" => walk.last = (IF k = 0 THEN Null ELSE list[k])
  /\ walk.at = "begin" => called = <<>>
  /\ walk.at = "call" => called # <<>> /\ walk.node = list[Len(called)]
  /\ walk.at = "idle" => k <= Len(called)
  /\ k > 0 => Len(called) <= k

WalkInv ==
  /\ walk \in [at : {"idle", "begin", "call"}, node : Nodes \cup {Null}, last : Nodes \cup {Null}]
  /\ called \in Seq(Nodes)
  /\ Len(called) <= Len(list)
  /\ \A i \in 1 .. Len(called) : called[i] = list[i]
  /\ \E k, n \in 0 .. Len(list) : Walking(k, n)

RouteInv == StartInv /\ ListInv /\ WalkInv
-----------------------------------------------------------------------------
(* Sequences. *)

LEMMA InSeq ==
  ASSUME NEW S, NEW s \in Seq(S), NEW i \in 1 .. Len(s)
  PROVE  s[i] \in S
  OBVIOUS

LEMMA Members ==
  ASSUME NEW S, NEW s \in Seq(S)
  PROVE  ToSet(s) = {s[i] : i \in 1 .. Len(s)} /\ ToSet(s) \subseteq S
  BY DEF ToSet

LEMMA Prefix ==
  ASSUME NEW S, NEW s \in Seq(S), NEW t \in Seq(S), Len(s) <= Len(t),
         \A i \in 1 .. Len(s) : s[i] = t[i]
  PROVE  IsPrefix(s, t)
  BY DEF IsPrefix

LEMMA Appended ==
  ASSUME NEW S, NEW s \in Seq(S), NEW x \in S
  PROVE  /\ Append(s, x) \in Seq(S)
         /\ Len(Append(s, x)) = Len(s) + 1
         /\ Append(s, x)[Len(s) + 1] = x
         /\ \A i \in 1 .. Len(s) : Append(s, x)[i] = s[i]
         /\ Append(s, x) # <<>>
  OBVIOUS
-----------------------------------------------------------------------------
(* The initialisation and the queue. *)

\* No two parts are the same.
LEMMA PartsDiffer ==
  /\ Len(Parts) \in Nat \ {0}
  /\ Parts \in Seq(ToSet(Parts))
  /\ \A i, j \in 1 .. Len(Parts) : Parts[i] = Parts[j] => i = j
<1> DEFINE more == <<"queue", "task">>
           all == ToSet(Links) \cup {"queue", "task"}
<1>1. Links \in Seq(all) /\ more \in Seq(all)
  BY LinksAssumption
<1>2. /\ Parts \in Seq(all) /\ Len(Parts) = Len(Links) + 2
      /\ \A i \in 1 .. Len(Links) : Parts[i] = Links[i] /\ Links[i] \in ToSet(Links)
      /\ Parts[Len(Links) + 1] = "queue" /\ Parts[Len(Links) + 2] = "task"
  <2>1. \A i \in 1 .. Len(Links) : Links[i] \in ToSet(Links)
    BY LinksAssumption
  <2> QED
    BY <1>1, <2>1 DEF Parts
<1>3. \A i, j \in 1 .. Len(Links) : Links[i] = Links[j] => i = j
  BY LinksAssumption DEF IsInjective
<1>4. Parts \in Seq(ToSet(Parts))
  BY <1>2, Members DEF ToSet
<1>5. \A i \in 1 .. Len(Parts) : i \in 1 .. Len(Links) \/ i = Len(Links) + 1 \/ i = Len(Links) + 2
  BY <1>1, <1>2
<1>6. ASSUME NEW i \in 1 .. Len(Parts), NEW j \in 1 .. Len(Parts), Parts[i] = Parts[j]
      PROVE  i = j
  BY <1>2, <1>3, <1>5, <1>6, LinksAssumption
<1> QED
  BY <1>1, <1>2, <1>4, <1>6

\* Counting modulo m.
LEMMA Wraps ==
  ASSUME NEW m \in Nat \ {0}, NEW i \in 0 .. m - 1
  PROVE  (i + 1) % m = IF i + 1 = m THEN 0 ELSE i + 1
<1>1. CASE i + 1 = m
  BY <1>1
<1>2. CASE i + 1 < m
  BY <1>2
<1> QED
  BY <1>1, <1>2

LEMMA StartInitial ==
  Init => StartInv
  BY PartsDiffer, QueueAssumption DEF Init, StartInv

\* A part that exists already is one before the next to be made.
LEMMA CreateInv ==
  ASSUME StartInv, Create
  PROVE  StartInv'
<1>1. /\ starting \in 1 .. Len(Parts) /\ starting <= Len(made) + 1 /\ Len(made) \in Nat
      /\ made' = (IF Contains(made, Parts[starting]) THEN made ELSE Append(made, Parts[starting]))
      /\ starting' = (starting + 1) % (Len(Parts) + 1) /\ queued' = queued
  BY PartsDiffer DEF StartInv, Create
<1>2. starting' \in 0 .. Len(Parts) /\ starting' <= starting + 1
  <2>1. PICK m \in Nat \ {0} : m = Len(Parts) + 1
    BY PartsDiffer
  <2>2. starting \in 0 .. m - 1 /\ starting' = (starting + 1) % m
    BY <1>1, <2>1, PartsDiffer
  <2>3. starting' = IF starting + 1 = m THEN 0 ELSE starting + 1
    BY <2>2, Wraps
  <2> QED
    BY <1>1, <2>1, <2>3, PartsDiffer
<1>3. Contains(made, Parts[starting]) <=> starting <= Len(made)
  <2>1. ASSUME NEW i \in 1 .. Len(made), made[i] = Parts[starting] PROVE i = starting
    <3>1. i \in 1 .. Len(Parts) /\ Parts[i] = Parts[starting]
      BY <2>1, PartsDiffer DEF StartInv
    <3> QED
      BY <1>1, <3>1, PartsDiffer
  <2>2. starting <= Len(made) => starting \in 1 .. Len(made) /\ made[starting] = Parts[starting]
    BY <1>1 DEF StartInv
  <2> QED
    BY <1>1, <2>1, <2>2 DEF Contains
<1>4. CASE starting <= Len(made)
  BY <1>1, <1>2, <1>3, <1>4, PartsDiffer DEF StartInv
<1>5. CASE starting = Len(made) + 1
  <2>1. Parts[starting] \in ToSet(Parts)
    BY <1>1, PartsDiffer, InSeq
  <2>2. /\ made' \in Seq(ToSet(Parts)) /\ Len(made') = Len(made) + 1
        /\ \A i \in 1 .. Len(made) : made'[i] = made[i]
        /\ made'[Len(made) + 1] = Parts[Len(made) + 1]
    BY <1>1, <1>3, <1>5, <2>1, Appended DEF StartInv
  <2>3. \A i \in 1 .. Len(made) + 1 : i \in 1 .. Len(made) \/ i = Len(made) + 1
    BY <1>1
  <2> QED
    BY <1>1, <1>2, <1>5, <2>2, <2>3, PartsDiffer DEF StartInv
<1> QED
  BY <1>1, <1>4, <1>5

LEMMA StartStep ==
  ASSUME StartInv, [Next]_vars
  PROVE  StartInv'
<1>1. CASE InitBegins \/ CreateFails
  BY <1>1, PartsDiffer DEF StartInv, InitBegins, CreateFails
<1>2. CASE Push
  BY <1>2, QueueAssumption DEF StartInv, Push, start
<1>3. CASE Registering
  <2>1. UNCHANGED <<made, starting, queued>>
    BY <1>3 DEF Registering, Register, Link, SetTail, start
  <2> QED
    BY <2>1 DEF StartInv
<1>4. CASE ReadTail
  BY <1>4, QueueAssumption DEF StartInv, ReadTail, start
<1>5. CASE ReadHead \/ CallbackReturns \/ UNCHANGED vars
  <2>1. UNCHANGED <<made, starting, queued>>
    BY <1>5 DEF ReadHead, CallbackReturns, vars, start
  <2> QED
    BY <2>1 DEF StartInv
<1> QED
  BY <1>1, <1>2, <1>3, <1>4, <1>5, CreateInv DEF Next, Starting, Dispatching
-----------------------------------------------------------------------------
(* The list. *)

LEMMA ListInitial ==
  Init => ListInv
  BY DEF Init, ListInv, Pointers, Linked, TailAt, Ended, Distinct, NoAdding

LEMMA RegisterInv ==
  ASSUME ListInv, NEW by \in {"main", "callback"}, NEW cb \in Callbacks, Register(by, cb)
  PROVE  ListInv' /\ list' = list
<1>1. PICK n \in Nodes \ ToSet(list) :
        /\ cbOf' = [cbOf EXCEPT ![n] = cb]
        /\ next' = [next EXCEPT ![n] = Null]
        /\ adding' = [by |-> by, node |-> n, linked |-> FALSE]
  BY DEF Register
<1>2. /\ adding = NoAdding /\ ~Known(cb)
      /\ head' = head /\ tail' = tail /\ list' = list
  BY DEF Register
<1>3. \A i \in 1 .. Len(list) : list[i] \in Nodes /\ list[i] # n /\ list[i] \in ToSet(list)
  BY <1>1, Members DEF ListInv, Pointers
<1>4. Pointers'
  BY <1>1, <1>2 DEF ListInv, Pointers
<1>5. \A i \in 1 .. Len(list) :
        next'[list[i]] = next[list[i]] /\ cbOf'[list[i]] = cbOf[list[i]] /\ cbOf[list[i]] # cb
  BY <1>1, <1>2, <1>3 DEF ListInv, Pointers, Known
<1>6. Linked'
  BY <1>2, <1>5 DEF ListInv, Linked
<1>7. Ended'
  BY <1>1, <1>2 DEF ListInv, Ended, TailAt, NoAdding
<1>8. Distinct'
  <2>1. cbOf'[n] = cb /\ next'[n] = Null /\ adding'.node = n
    BY <1>1 DEF ListInv, Pointers
  <2> QED
    BY <1>2, <1>5, <2>1 DEF ListInv, Distinct
<1> QED
  BY <1>2, <1>4, <1>6, <1>7, <1>8 DEF ListInv

\* Between Link and SetTail the new node can be reached and the tail is the
\* node before it.
LEMMA LinkInv ==
  ASSUME ListInv, Link
  PROVE  /\ ListInv'
         /\ Len(list') = Len(list) + 1
         /\ \A i \in 1 .. Len(list) : list'[i] = list[i]
<1> DEFINE n == adding.node
<1>1. /\ adding # NoAdding /\ ~adding.linked /\ n \in Nodes /\ n # Null
      /\ next[n] = Null /\ \A i \in 1 .. Len(list) : cbOf[list[i]] # cbOf[n] /\ list[i] # n
  BY NullAssumption DEF Link, ListInv, Distinct
<1>2. /\ list' = Append(list, n) /\ adding' = [adding EXCEPT !.linked = TRUE]
      /\ tail' = tail /\ cbOf' = cbOf
  BY DEF Link
<1>3. /\ list \in Seq(Nodes) /\ Len(list) \in Nat /\ list' \in Seq(Nodes)
      /\ Len(list') = Len(list) + 1 /\ list' # <<>>
      /\ list'[Len(list) + 1] = n /\ \A i \in 1 .. Len(list) : list'[i] = list[i] /\ list[i] \in Nodes
  BY <1>1, <1>2, Appended, InSeq DEF ListInv, Pointers
<1>4. adding'.linked /\ adding'.node = n
      /\ adding' \in [by : {"main", "callback", Null}, node : Nodes \cup {Null}, linked : BOOLEAN]
  BY <1>2 DEF ListInv, Pointers
<1>5. tail = (IF list = <<>> THEN Null ELSE list[Len(list)])
  BY <1>1, <1>3 DEF ListInv, Ended, TailAt
<1>6. \A i \in 1 .. Len(list) + 1 : i \in 1 .. Len(list) \/ i = Len(list) + 1
  BY <1>3
<1> HIDE DEF n
<1>7. Pointers' /\ Linked'
  <2>1. CASE list = <<>>
    <3>1. head' = n /\ next' = next
      BY <1>3, <1>5, <2>1 DEF Link, n
    <3> QED
      BY <1>1, <1>2, <1>3, <1>4, <2>1, <3>1 DEF ListInv, Pointers, Linked
  <2>2. CASE list # <<>>
    <3>1. Len(list) \in 1 .. Len(list) /\ tail = list[Len(list)] /\ tail \in Nodes
      BY <1>3, <1>5, <2>2
    <3>2. head' = head /\ next' = [next EXCEPT ![tail] = n]
      BY <3>1, NullAssumption DEF Link, n
    <3>3. \A i, j \in 1 .. Len(list) : list[i] = list[j] => i = j
      BY DEF ListInv, Distinct
    <3>4. /\ next'[list[Len(list)]] = n /\ next'[n] = Null
          /\ \A i \in 1 .. Len(list) : i # Len(list) => next'[list[i]] = list[i + 1]
      BY <1>1, <1>3, <3>1, <3>2, <3>3 DEF ListInv, Pointers, Linked
    <3>5. Pointers'
      BY <1>1, <1>2, <1>3, <1>4, <3>2 DEF ListInv, Pointers
    <3>6. head' = list'[1]
      BY <1>3, <2>2, <3>1, <3>2 DEF ListInv, Linked
    <3>7. \A i \in 1 .. Len(list) : i # Len(list) => i + 1 \in 1 .. Len(list)
      BY <1>3
    <3>8. ASSUME NEW i \in 1 .. Len(list')
          PROVE  next'[list'[i]] = (IF i = Len(list') THEN Null ELSE list'[i + 1])
      BY <1>3, <1>6, <3>1, <3>4, <3>7
    <3> QED
      BY <1>3, <3>5, <3>6, <3>8 DEF Linked
  <2> QED
    BY <2>1, <2>2
<1>8. Ended'
  <2>1. TailAt' = Len(list)
    BY <1>3, <1>4 DEF TailAt
  <2>2. list # <<>> => Len(list) \in 1 .. Len(list)
    BY <1>3
  <2>3. list = <<>> <=> Len(list) = 0
    BY <1>3
  <2> QED
    BY <1>2, <1>3, <1>4, <1>5, <2>1, <2>2, <2>3 DEF Ended
<1>9. Distinct'
  BY <1>1, <1>2, <1>3, <1>4, <1>6 DEF ListInv, Distinct
<1> QED
  BY <1>3, <1>7, <1>8, <1>9 DEF ListInv

LEMMA SetTailInv ==
  ASSUME ListInv, SetTail
  PROVE  ListInv' /\ list' = list
<1>1. /\ adding.linked /\ tail' = adding.node /\ adding' = NoAdding
      /\ head' = head /\ cbOf' = cbOf /\ next' = next /\ list' = list
  BY DEF SetTail
<1>2. list # <<>> /\ adding.node = list[Len(list)] /\ Len(list) \in Nat \ {0}
  BY <1>1 DEF ListInv, Ended, Pointers
<1>3. Pointers'
  BY <1>1 DEF ListInv, Pointers, NoAdding
<1>4. Linked' /\ Distinct'
  BY <1>1 DEF ListInv, Linked, Distinct
<1>5. Ended'
  BY <1>1, <1>2 DEF Ended, TailAt, NoAdding
<1> QED
  BY <1>1, <1>3, <1>4, <1>5 DEF ListInv

\* Nothing else writes the list.
LEMMA ListStep ==
  ASSUME ListInv, [Next]_vars
  PROVE  /\ ListInv'
         /\ Len(list') >= Len(list)
         /\ \A i \in 1 .. Len(list) : list'[i] = list[i]
<1>0. Len(list) \in Nat
  BY DEF ListInv, Pointers
<1>1. CASE Starting \/ Push \/ Dispatching \/ UNCHANGED vars
  <2>1. UNCHANGED <<head, tail, cbOf, next, adding, list>>
    BY <1>1 DEF Starting, InitBegins, Create, CreateFails, Push, Dispatching, ReadTail, ReadHead,
      CallbackReturns, routeList, vars
  <2> QED
    BY <1>0, <2>1 DEF ListInv, Pointers, Linked, Ended, TailAt, Distinct
<1>2. CASE \E by \in {"main", "callback"}, cb \in Callbacks : Register(by, cb)
  BY <1>0, <1>2, RegisterInv
<1>3. CASE Link
  BY <1>0, <1>3, LinkInv
<1>4. CASE SetTail
  BY <1>0, <1>4, SetTailInv
<1> QED
  BY <1>1, <1>2, <1>3, <1>4 DEF Next, Registering
-----------------------------------------------------------------------------
(* The walk. *)

LEMMA WalkInitial ==
  Init => WalkInv
<1> SUFFICES ASSUME Init PROVE WalkInv
  OBVIOUS
<1>1. Walking(0, 0) /\ 0 \in 0 .. Len(list)
  BY DEF Init, Walking, FirstNodes, Idle
<1>2. called \in Seq(Nodes) /\ Len(called) = 0 /\ Len(list) = 0
  BY DEF Init
<1>3. walk \in [at : {"idle", "begin", "call"}, node : Nodes \cup {Null}, last : Nodes \cup {Null}]
  BY DEF Init, Idle
<1> QED
  BY <1>1, <1>2, <1>3 DEF WalkInv

\* A list that grows under the walk.
LEMMA WalkGoesOn ==
  ASSUME ListInv, ListInv', WalkInv, UNCHANGED dispatch, Len(list') >= Len(list),
         \A i \in 1 .. Len(list) : list'[i] = list[i]
  PROVE  WalkInv'
<1>1. /\ Len(list) \in Nat /\ Len(list') \in Nat /\ Len(called) \in Nat
      /\ walk' = walk /\ called' = called /\ due' = due /\ before' = before
  BY DEF ListInv, Pointers, WalkInv, dispatch
<1>2. PICK k \in 0 .. Len(list), n \in 0 .. Len(list) : Walking(k, n)
  BY DEF WalkInv
<1>3. FirstNodes(k)' = FirstNodes(k) /\ FirstNodes(n)' = FirstNodes(n)
  BY <1>1 DEF FirstNodes
<1>4. Walking(k, n)'
  <2>1. k # 0 => list'[k] = list[k]
    BY <1>1
  <2>2. called # <<>> => list'[Len(called)] = list[Len(called)]
    BY <1>1 DEF WalkInv
  <2> QED
    BY <1>1, <1>2, <1>3, <2>1, <2>2 DEF Walking
<1>5. k \in 0 .. Len(list') /\ n \in 0 .. Len(list')
  BY <1>1
<1> QED
  BY <1>1, <1>4, <1>5 DEF WalkInv

LEMMA ReadTailInv ==
  ASSUME ListInv, WalkInv, ReadTail
  PROVE  WalkInv'
<1>1. /\ walk' = [at |-> "begin", node |-> Null, last |-> tail]
      /\ called' = <<>> /\ due' = Completed /\ before' = ToSet(list)
      /\ list' = list
  BY DEF ReadTail, routeList
<1>2. list \in Seq(Nodes) /\ Len(list) \in Nat /\ (list = <<>> <=> Len(list) = 0)
      /\ TailAt \in 0 .. Len(list)
  BY DEF ListInv, Pointers, Ended, TailAt
<1>3. PICK k \in 0 .. Len(list) : k = TailAt
  BY <1>2
<1>4. ToSet(list) = FirstNodes(Len(list))
  BY <1>2, Members DEF FirstNodes
<1>5. Completed = FirstNodes(k)
  <2>1. CASE ~adding.linked
    BY <1>3, <1>4, <2>1 DEF Completed, TailAt
  <2>2. CASE adding.linked
    <3>1. k = Len(list) - 1 /\ adding.node = list[Len(list)] /\ Len(list) \in 1 .. Len(list)
      BY <1>2, <1>3, <2>2 DEF TailAt, ListInv, Ended
    <3>2. \A i \in 1 .. Len(list) : list[i] = list[Len(list)] <=> i = Len(list)
      BY <3>1 DEF ListInv, Distinct
    <3>3. \A i \in 1 .. Len(list) : i # Len(list) <=> i \in 1 .. k
      BY <1>2, <3>1
    <3>4. \A i \in 1 .. k : i \in 1 .. Len(list)
      BY <1>2, <3>1
    <3>5. Completed = ToSet(list) \ {list[Len(list)]}
      BY <2>2, <3>1 DEF Completed
    <3> QED
      BY <1>4, <3>2, <3>3, <3>4, <3>5 DEF FirstNodes
  <2> QED
    BY <2>1, <2>2
<1>6. PICK n \in 0 .. Len(list) : n = Len(list)
  BY <1>2
<1>7. Walking(k, n)'
  <2>1. /\ walk'.at = "begin" /\ walk'.last = (IF k = 0 THEN Null ELSE list[k])
        /\ Len(called') = 0 /\ k <= n
    BY <1>1, <1>3, <1>6 DEF ListInv, Ended
  <2>2. FirstNodes(k)' = FirstNodes(k) /\ FirstNodes(n)' = FirstNodes(n)
    BY <1>1 DEF FirstNodes
  <2> QED
    BY <1>1, <1>4, <1>5, <1>6, <2>1, <2>2 DEF Walking
<1>8. /\ called' \in Seq(Nodes) /\ Len(called') <= Len(list')
      /\ \A i \in 1 .. Len(called') : called'[i] = list'[i]
      /\ walk' \in [at : {"idle", "begin", "call"}, node : Nodes \cup {Null}, last : Nodes \cup {Null}]
  BY <1>1, <1>2 DEF ListInv, Pointers
<1> QED
  BY <1>1, <1>7, <1>8 DEF WalkInv

\* The walk ends.
LEMMA WalkEnds ==
  ASSUME WalkInv, Len(list) \in Nat, NEW k \in 0 .. Len(list), NEW n \in 0 .. Len(list),
         Walking(k, n), k <= Len(called), walk' = Idle,
         UNCHANGED <<called, list, due, before>>
  PROVE  WalkInv'
<1>1. FirstNodes(k)' = FirstNodes(k) /\ FirstNodes(n)' = FirstNodes(n)
  BY DEF FirstNodes
<1>2. Walking(k, n)'
  BY <1>1 DEF Walking, Idle
<1> QED
  BY <1>2 DEF WalkInv, Idle

\* The walk goes to the next node of the list.
LEMMA WalkNext ==
  ASSUME ListInv, WalkInv, NEW k \in 0 .. Len(list), NEW n \in 0 .. Len(list),
         Walking(k, n), walk.at # "idle", Len(called) < Len(list), k > 0 => Len(called) < k,
         walk' = [walk EXCEPT !.at = "call", !.node = list[Len(called) + 1]],
         called' = Append(called, list[Len(called) + 1]),
         UNCHANGED <<list, due, before>>
  PROVE  WalkInv'
<1>1. Len(list) \in Nat /\ Len(called) \in Nat /\ called \in Seq(Nodes)
  BY DEF ListInv, Pointers, WalkInv
<1>2. list[Len(called) + 1] \in Nodes
  BY <1>1, InSeq DEF ListInv, Pointers
<1>3. /\ called' \in Seq(Nodes) /\ Len(called') = Len(called) + 1 /\ called' # <<>>
      /\ called'[Len(called) + 1] = list[Len(called) + 1]
      /\ \A i \in 1 .. Len(called) : called'[i] = called[i]
  BY <1>1, <1>2, Appended
<1>4. \A i \in 1 .. Len(called') : called'[i] = list'[i]
  <2>1. \A i \in 1 .. Len(called) + 1 : i \in 1 .. Len(called) \/ i = Len(called) + 1
    BY <1>1
  <2> QED
    BY <1>1, <1>3, <2>1 DEF WalkInv
<1>5. /\ walk'.at = "call" /\ walk'.node = list[Len(called')] /\ walk'.last = walk.last
      /\ walk' \in [at : {"idle", "begin", "call"}, node : Nodes \cup {Null}, last : Nodes \cup {Null}]
  BY <1>2, <1>3 DEF WalkInv
<1>6. FirstNodes(k)' = FirstNodes(k) /\ FirstNodes(n)' = FirstNodes(n)
  BY DEF FirstNodes
<1>7. Walking(k, n)'
  BY <1>1, <1>3, <1>5, <1>6 DEF Walking
<1> QED
  BY <1>1, <1>3, <1>4, <1>5, <1>7 DEF WalkInv

LEMMA ReadHeadInv ==
  ASSUME ListInv, WalkInv, ReadHead
  PROVE  WalkInv'
<1>1. walk.at = "begin" /\ GoTo(head) /\ UNCHANGED <<list, due, before>>
  BY DEF ReadHead, routeList
<1>2. PICK k \in 0 .. Len(list), n \in 0 .. Len(list) : Walking(k, n)
  BY DEF WalkInv
<1>3. called = <<>> /\ Len(called) = 0 /\ Len(list) \in Nat /\ list \in Seq(Nodes)
  BY <1>1, <1>2 DEF Walking, ListInv, Pointers
<1>4. CASE list = <<>>
  <2>1. walk' = Idle /\ called' = called /\ k <= Len(called)
    BY <1>1, <1>3, <1>4 DEF GoTo, ListInv, Linked
  <2> QED
    BY <1>1, <1>2, <1>3, <2>1, WalkEnds
<1>5. CASE list # <<>>
  <2>1. head = list[Len(called) + 1] /\ head \in Nodes /\ Len(called) < Len(list)
    BY <1>3, <1>5, InSeq DEF ListInv, Linked
  <2>2. walk' = [walk EXCEPT !.at = "call", !.node = list[Len(called) + 1]]
        /\ called' = Append(called, list[Len(called) + 1])
    BY <1>1, <2>1, NullAssumption DEF GoTo
  <2> QED
    BY <1>1, <1>2, <1>3, <2>1, <2>2, WalkNext
<1> QED
  BY <1>4, <1>5

\* At the node that was the tail when the dispatch began the walk ends; at the
\* end of the list too.
LEMMA CallbackReturnsInv ==
  ASSUME ListInv, WalkInv, CallbackReturns
  PROVE  WalkInv'
<1>1. /\ walk.at = "call" /\ UNCHANGED <<list, due, before>>
      /\ GoTo(IF walk.node = walk.last THEN Null ELSE next[walk.node])
  BY DEF CallbackReturns, routeList
<1>2. PICK k \in 0 .. Len(list), n \in 0 .. Len(list) : Walking(k, n)
  BY DEF WalkInv
<1>3. /\ Len(list) \in Nat /\ list \in Seq(Nodes) /\ called # <<>>
      /\ Len(called) \in 1 .. Len(list) /\ walk.node = list[Len(called)]
      /\ walk.last = (IF k = 0 THEN Null ELSE list[k])
      /\ k > 0 => Len(called) <= k
  BY <1>1, <1>2 DEF Walking, ListInv, Pointers, WalkInv
<1>4. walk.node \in Nodes /\ walk.node # Null
  BY <1>3, InSeq, NullAssumption
<1>5. walk.node = walk.last => k = Len(called)
  <2>1. \A i, j \in 1 .. Len(list) : list[i] = list[j] => i = j
    BY DEF ListInv, Distinct
  <2>2. walk.node = walk.last => k \in 1 .. Len(list) /\ list[k] = list[Len(called)]
    BY <1>3, <1>4
  <2> QED
    BY <1>3, <2>1, <2>2
<1>6. next[walk.node] = (IF Len(called) = Len(list) THEN Null ELSE list[Len(called) + 1])
  BY <1>3 DEF ListInv, Linked
<1>7. CASE walk.node = walk.last \/ Len(called) = Len(list)
  <2>1. walk' = Idle /\ called' = called /\ k <= Len(called)
    BY <1>1, <1>3, <1>5, <1>6, <1>7 DEF GoTo
  <2> QED
    BY <1>1, <1>2, <1>3, <2>1, WalkEnds
<1>8. CASE walk.node # walk.last /\ Len(called) # Len(list)
  <2>1. list[Len(called) + 1] \in Nodes /\ Len(called) < Len(list)
    BY <1>3, <1>8, InSeq
  <2>2. walk' = [walk EXCEPT !.at = "call", !.node = list[Len(called) + 1]]
        /\ called' = Append(called, list[Len(called) + 1])
    BY <1>1, <1>6, <1>8, <2>1, NullAssumption DEF GoTo
  <2>3. k > 0 => Len(called) < k
    BY <1>3, <1>8
  <2> QED
    BY <1>1, <1>2, <2>1, <2>2, <2>3, WalkNext
<1> QED
  BY <1>7, <1>8

LEMMA WalkStep ==
  ASSUME ListInv, WalkInv, [Next]_vars
  PROVE  WalkInv'
<1>1. CASE ReadTail
  BY <1>1, ReadTailInv
<1>2. CASE ReadHead
  BY <1>2, ReadHeadInv
<1>3. CASE CallbackReturns
  BY <1>3, CallbackReturnsInv
<1>4. CASE Starting \/ Push \/ Registering \/ UNCHANGED vars
  <2>1. UNCHANGED dispatch
    BY <1>4 DEF Starting, InitBegins, Create, CreateFails, Push, Registering, Register, Link, SetTail,
      vars, dispatch
  <2> QED
    BY <2>1, ListStep, WalkGoesOn
<1> QED
  BY <1>1, <1>2, <1>3, <1>4 DEF Next, Dispatching
-----------------------------------------------------------------------------
(* What follows. *)

\* The start, the list and a dispatch stay consistent, whoever registers and
\* whatever fails (agcore_data.c, agcore_data_route.c).
THEOREM RouteInvariant ==
  Spec => []RouteInv
<1>1. Init => RouteInv
  BY StartInitial, ListInitial, WalkInitial DEF RouteInv
<1>2. RouteInv /\ [Next]_vars => RouteInv'
  BY StartStep, ListStep, WalkStep DEF RouteInv
<1> QED
  BY <1>1, <1>2, PTL DEF Spec

\* Every pointer, counter and history of the route keeps its type.
THEOREM TypeCorrect ==
  Spec => []TypeOK
<1>1. ASSUME RouteInv PROVE TypeOK
  <2>1. ToSet(made) \subseteq ToSet(Parts)
    BY <1>1, Members DEF RouteInv, StartInv
  <2>2. PICK k \in 0 .. Len(list), n \in 0 .. Len(list) : Walking(k, n)
    BY <1>1 DEF RouteInv, WalkInv
  <2>3. ToSet(list) \subseteq Nodes /\ ToSet(called) \subseteq Nodes
    BY <1>1, Members DEF RouteInv, ListInv, Pointers, WalkInv
  <2>4. due \subseteq Nodes /\ before \subseteq Nodes
    <3>1. \A i \in 1 .. Len(list) : list[i] \in Nodes
      BY <1>1, InSeq DEF RouteInv, ListInv, Pointers
    <3>2. \A i : i \in 1 .. k \/ i \in 1 .. n => i \in 1 .. Len(list)
      BY <1>1 DEF RouteInv, ListInv, Pointers
    <3> QED
      BY <2>2, <3>1, <3>2 DEF Walking, FirstNodes
  <2> QED
    BY <1>1, <2>1, <2>3, <2>4 DEF TypeOK, RouteInv, StartInv, ListInv, Pointers, WalkInv
<1> QED
  BY <1>1, RouteInvariant, PTL

\* The locks, the queue and the task are created once each and in this order,
\* however often the initialisation fails (agcore_data.c, agcore_data_queue_init).
THEOREM PartsInOrder ==
  Spec => []MadeOnceInOrder
<1>1. ASSUME RouteInv PROVE MadeOnceInOrder
  BY <1>1, PartsDiffer, Prefix DEF RouteInv, StartInv, MadeOnceInOrder
<1> QED
  BY <1>1, RouteInvariant, PTL

\* The pointers give the nodes that were linked, in their order, at every
\* point of a registration (agcore_data_route.c:20-46).
THEOREM ListSound ==
  Spec => []ListIntact
<1>1. ASSUME RouteInv PROVE ListIntact
  <2>1. adding = NoAdding => tail = (IF list = <<>> THEN Null ELSE Last(list))
    BY <1>1 DEF RouteInv, ListInv, Pointers, Ended, TailAt, NoAdding, Last
  <2> QED
    BY <1>1, <2>1 DEF RouteInv, ListInv, Linked, ListIntact
<1> QED
  BY <1>1, RouteInvariant, PTL

\* A dispatch calls the callbacks in the order of their registration and none
\* twice (agcore_data_route.c:16).
THEOREM DispatchInOrder ==
  Spec => []CalledOnceInOrder
<1>1. ASSUME RouteInv PROVE CalledOnceInOrder
  <2>1. IsPrefix(called, list)
    BY <1>1, Prefix DEF RouteInv, ListInv, Pointers, WalkInv
  <2>2. ASSUME NEW i \in 1 .. Len(called), NEW j \in 1 .. Len(called),
               cbOf[called[i]] = cbOf[called[j]]
        PROVE  i = j
    <3>1. i \in 1 .. Len(list) /\ j \in 1 .. Len(list) /\ called[i] = list[i] /\ called[j] = list[j]
      BY <1>1 DEF RouteInv, ListInv, Pointers, WalkInv
    <3> QED
      BY <1>1, <2>2, <3>1 DEF RouteInv, ListInv, Distinct
  <2> QED
    BY <2>1, <2>2 DEF CalledOnceInOrder
<1> QED
  BY <1>1, RouteInvariant, PTL

\* A dispatch calls those whose registration had ended when it began, and
\* unless the list was empty, nobody registered since
\* (agcore_data_route.c:52-65).
THEOREM DispatchComplete ==
  Spec => []CalledAsRegistered
<1>1. ASSUME RouteInv PROVE CalledAsRegistered
  <2>1. PICK k \in 0 .. Len(list), n \in 0 .. Len(list) : Walking(k, n)
    BY <1>1 DEF RouteInv, WalkInv
  <2>2. /\ Len(list) \in Nat /\ Len(called) \in Nat /\ Len(called) <= Len(list)
        /\ ToSet(called) = {called[i] : i \in 1 .. Len(called)}
        /\ \A i \in 1 .. Len(called) : called[i] = list[i]
    BY <1>1, Members DEF RouteInv, ListInv, Pointers, WalkInv
  <2>3. ToSet(called) = FirstNodes(Len(called))
    BY <2>2 DEF FirstNodes
  <2>4. walk.at = "idle" => due \subseteq ToSet(called)
    <3>1. walk.at = "idle" => \A i \in 1 .. k : i \in 1 .. Len(called)
      BY <2>1, <2>2 DEF Walking
    <3> QED
      BY <2>1, <2>3, <3>1 DEF Walking, FirstNodes
  <2>5. due # {} => ToSet(called) \subseteq before
    <3>1. due # {} => k > 0
      BY <2>1 DEF Walking, FirstNodes
    <3>2. k > 0 => \A i \in 1 .. Len(called) : i \in 1 .. n
      BY <2>1, <2>2 DEF Walking
    <3> QED
      BY <2>1, <2>3, <3>1, <3>2 DEF Walking, FirstNodes
  <2> QED
    BY <2>4, <2>5 DEF CalledAsRegistered
<1> QED
  BY <1>1, RouteInvariant, PTL
=============================================================================
