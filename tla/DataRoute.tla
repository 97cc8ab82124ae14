----------------------------- MODULE DataRoute -----------------------------
(***************************************************************************)
(* The list of callbacks that get received data, walked by the data task   *)
(* while callbacks are added to it (agcore_data_route.c), and the start of *)
(* the data task, whose parts may fail and be tried again                  *)
(* (agcore_data_queue_init).                                               *)
(*                                                                         *)
(* Callbacks are added by the main task or by a callback that runs in the  *)
(* data task, one at a time: agcore_data_route.h:9 asks for registration   *)
(* before data is received, and nothing in the code excludes two           *)
(* registrations at once.  Pointers are written in the order of the        *)
(* source.                                                                 *)
(***************************************************************************)
EXTENDS Integers, SequencesExt

CONSTANTS
  Callbacks,
  Nodes,         \* memory for agcore_data_handler_node_t
  Null,
  Links,         \* in the order of agcore_link
  QueueLength    \* AGCORE_DATA_QUEUE_LENGTH

ASSUME NullAssumption == Null \notin Nodes \cup Callbacks
ASSUME QueueAssumption == QueueLength \in Nat \ {0}
ASSUME LinksAssumption ==
  /\ Links \in Seq(ToSet(Links)) /\ IsInjective(Links)
  /\ {"queue", "task"} \cap ToSet(Links) = {}

VARIABLES
  head, tail,    \* of the list
  cbOf, next,    \* the fields of a node
  adding,        \* the registration in progress, or NoAdding
  walk,          \* where the data task is
  made,          \* the locks, the queue and the task that exist
  starting,      \* how far agcore_data_queue_init is, 0 when it does not run
  queued,        \* messages in the queue
  list,          \* history: nodes in the order they were linked
  called,        \* history: nodes whose callback the last dispatch called
  due,           \* history: nodes whose registration had ended when it began
  before         \* history: nodes linked when it began

routeList == <<head, tail, cbOf, next, adding, list>>
start == <<made, starting>>
dispatch == <<walk, called, due, before>>
vars == <<head, tail, cbOf, next, adding, walk, made, starting, queued, list,
          called, due, before>>

NoAdding == [by |-> Null, node |-> Null, linked |-> FALSE]
Idle == [at |-> "idle", node |-> Null, last |-> Null]

Init ==
  /\ head = Null
  /\ tail = Null
  /\ cbOf = [n \in Nodes |-> Null]
  /\ next = [n \in Nodes |-> Null]
  /\ adding = NoAdding
  /\ walk = Idle
  /\ made = <<>>
  /\ starting = 0
  /\ queued = 0
  /\ list = <<>>
  /\ called = <<>>
  /\ due = {}
  /\ before = {}
-----------------------------------------------------------------------------
(* agcore_data_queue_init *)

Parts == Links \o <<"queue", "task">>

InitBegins ==
  /\ starting = 0
  /\ adding.by # "main"
  /\ starting' = 1
  /\ UNCHANGED <<routeList, dispatch, made, queued>>

\* Mutant of Create: a part is created though it exists.
CreateAgain ==
  /\ starting > 0
  /\ made' = Append(made, Parts[starting])
  /\ starting' = (starting + 1) % (Len(Parts) + 1)
  /\ UNCHANGED <<routeList, dispatch, queued>>

\* One part, unless an earlier call created it.
Create ==
  /\ starting > 0
  /\ made' = IF Contains(made, Parts[starting]) THEN made ELSE Append(made, Parts[starting])
  /\ starting' = (starting + 1) % (Len(Parts) + 1)
  /\ UNCHANGED <<routeList, dispatch, queued>>

\* The call returns an error; what was created stays.
CreateFails ==
  /\ starting > 0
  /\ ~Contains(made, Parts[starting])
  /\ starting' = 0
  /\ UNCHANGED <<routeList, dispatch, made, queued>>

\* Mutant of Push: the queue is never full.
PushUnbounded ==
  /\ Contains(made, "queue")
  /\ queued' = queued + 1
  /\ UNCHANGED <<routeList, dispatch, start>>

\* agcore_data_push
Push ==
  /\ Contains(made, "queue")
  /\ queued < QueueLength
  /\ queued' = queued + 1
  /\ UNCHANGED <<routeList, dispatch, start>>
-----------------------------------------------------------------------------
(* agcore_data_handler_register *)

\* The list has a node of that callback; ListIntact says that the nodes the
\* code walks are those of the history.
Known(cb) == \E n \in ToSet(list) : cbOf[n] = cb

\* The node is allocated and filled; a known callback and a failed allocation
\* change nothing.
Register(by, cb) ==
  /\ adding = NoAdding
  /\ IF by = "main" THEN starting = 0 ELSE walk.at = "call"
  /\ ~Known(cb)
  /\ \E n \in Nodes \ ToSet(list) :
       /\ cbOf' = [cbOf EXCEPT ![n] = cb]
       /\ next' = [next EXCEPT ![n] = Null]
       /\ adding' = [by |-> by, node |-> n, linked |-> FALSE]
  /\ UNCHANGED <<head, tail, list, start, dispatch, queued>>

Link ==
  /\ adding # NoAdding
  /\ ~adding.linked
  /\ IF tail = Null
     THEN head' = adding.node /\ next' = next
     ELSE head' = head /\ next' = [next EXCEPT ![tail] = adding.node]
  /\ adding' = [adding EXCEPT !.linked = TRUE]
  /\ list' = Append(list, adding.node)
  /\ UNCHANGED <<tail, cbOf, start, dispatch, queued>>

\* Mutant of SetTail: only for the first node.
SetTailOnce ==
  /\ adding.linked
  /\ tail' = IF tail = Null THEN adding.node ELSE tail
  /\ adding' = NoAdding
  /\ UNCHANGED <<head, cbOf, next, list, start, dispatch, queued>>

SetTail ==
  /\ adding.linked
  /\ tail' = adding.node
  /\ adding' = NoAdding
  /\ UNCHANGED <<head, cbOf, next, list, start, dispatch, queued>>
-----------------------------------------------------------------------------
(* agcore_data_task and agcore_data_route_handler *)

Completed == ToSet(list) \ (IF adding.linked THEN {adding.node} ELSE {})

\* A message is taken and the last node read.
ReadTail ==
  /\ Contains(made, "task")
  /\ walk.at = "idle"
  /\ queued > 0
  /\ queued' = queued - 1
  /\ walk' = [at |-> "begin", node |-> Null, last |-> tail]
  /\ called' = <<>>
  /\ due' = Completed
  /\ before' = ToSet(list)
  /\ UNCHANGED <<routeList, start>>

GoTo(n) ==
  IF n = Null
  THEN walk' = Idle /\ called' = called
  ELSE /\ walk' = [walk EXCEPT !.at = "call", !.node = n]
       /\ called' = Append(called, n)

ReadHead ==
  /\ walk.at = "begin"
  /\ GoTo(head)
  /\ UNCHANGED <<routeList, start, due, before, queued>>

\* Mutant of CallbackReturns: the last node is not called.
CallbackReturnsEarly ==
  /\ walk.at = "call"
  /\ adding.by # "callback"
  /\ GoTo(IF next[walk.node] = walk.last THEN Null ELSE next[walk.node])
  /\ UNCHANGED <<routeList, start, due, before, queued>>

\* Mutant of CallbackReturns: the next callback is not called.
CallbackReturnsSkips ==
  /\ walk.at = "call"
  /\ adding.by # "callback"
  /\ LET n == next[walk.node] IN
     GoTo(IF walk.node = walk.last \/ n = Null THEN Null ELSE next[n])
  /\ UNCHANGED <<routeList, start, due, before, queued>>

CallbackReturns ==
  /\ walk.at = "call"
  /\ adding.by # "callback"
  /\ GoTo(IF walk.node = walk.last THEN Null ELSE next[walk.node])
  /\ UNCHANGED <<routeList, start, due, before, queued>>
-----------------------------------------------------------------------------
Starting == InitBegins \/ Create \/ CreateFails

Registering ==
  (\E by \in {"main", "callback"}, cb \in Callbacks : Register(by, cb)) \/ Link \/ SetTail

Dispatching == ReadTail \/ ReadHead \/ CallbackReturns

Next == Starting \/ Push \/ Registering \/ Dispatching

Spec == Init /\ [][Next]_vars
-----------------------------------------------------------------------------
(* Properties *)

\* Types.
TypeOK ==
  /\ {head, tail} \subseteq Nodes \cup {Null}
  /\ cbOf \in [Nodes -> Callbacks \cup {Null}]
  /\ next \in [Nodes -> Nodes \cup {Null}]
  /\ adding \in [by : {"main", "callback", Null}, node : Nodes \cup {Null}, linked : BOOLEAN]
  /\ walk \in [at : {"idle", "begin", "call"}, node : Nodes \cup {Null}, last : Nodes \cup {Null}]
  /\ ToSet(made) \subseteq ToSet(Parts)
  /\ starting \in 0 .. Len(Parts)
  /\ queued \in 0 .. QueueLength
  /\ ToSet(list) \cup ToSet(called) \cup due \cup before \subseteq Nodes

\* However often the initialisation fails and is called again, a part is
\* created once, and the task not before its queue and the locks: made is a
\* prefix of the parts in the order of the code.
MadeOnceInOrder == IsPrefix(made, Parts)

\* The list that head, next and tail give is that of the nodes linked so far,
\* in their order, at every point of a registration.
ListIntact ==
  /\ head = (IF list = <<>> THEN Null ELSE list[1])
  /\ \A i \in 1 .. Len(list) :
       next[list[i]] = (IF i = Len(list) THEN Null ELSE list[i + 1])
  /\ adding = NoAdding => tail = (IF list = <<>> THEN Null ELSE Last(list))

\* agcore_data_route.c:16, "重复注册时保持原有顺序": a dispatch calls the
\* callbacks in the order they were registered in, leaving none out in between,
\* and none twice, though a callback was registered again.
CalledOnceInOrder ==
  /\ IsPrefix(called, list)
  /\ \A i, j \in 1 .. Len(called) : cbOf[called[i]] = cbOf[called[j]] => i = j

\* A dispatch calls every callback whose registration ended before it began,
\* and none that is registered while it runs, by a callback for instance, whose
\* message was not for it; an empty list is the exception.
CalledAsRegistered ==
  /\ walk.at = "idle" => due \subseteq ToSet(called)
  /\ due # {} => ToSet(called) \subseteq before
=============================================================================
