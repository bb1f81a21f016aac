---------------------------- MODULE QueuePackage ----------------------------
(***************************************************************************)
(* The queue package, prioque.c: queues are linked lists of nodes in the   *)
(* heap, walked at one position that belongs to the queue (SECTION 2 of    *)
(* prioque.h) or at the position of a Context (SECTION 3), by several      *)
(* threads.  A call on one queue takes the queue's lock, works and gives   *)
(* the lock back; a call on two queues first takes the global lock, then   *)
(* the locks of both.  empty_queue(), queue_length(), end_of_queue() and   *)
(* local_init_context() take no lock: they read one field, and while a     *)
(* call is at work they may read what the field passes through.            *)
(*                                                                         *)
(* Nobody else writes a queue while its lock is taken, so a call does its  *)
(* work in the step in which it has all its locks.  The locks are given    *)
(* back in another step, and until then "passed" keeps what was there      *)
(* before the work and in the middle of it, for those who take no lock.    *)
(*                                                                         *)
(* A call through a position that is no longer one, because its node or    *)
(* the node before was deleted or a node was put between them, follows a   *)
(* dangling pointer or tears the list.  Such a call strays: it ends the    *)
(* run.  The element is what compare() and memcpy() see of it; elementsize *)
(* is the same for all queues.                                             *)
(***************************************************************************)
EXTENDS Integers, Sequences, FiniteSets, SequencesExt

CONSTANTS
  Threads,
  Queues,
  Items,       \* elements, as compare() tells them apart
  Priorities,
  Fillings,    \* what the queues hold at first: sequences of [info, priority]
  Twice,       \* is duplicates TRUE? per queue
  MaxNodes,    \* nodes malloc() can provide
  MaxCalls,    \* bound: calls in a run
  NoThread, NoQueue

ASSUME QueueAssumption ==
  /\ Items \subseteq Nat /\ Priorities \subseteq Int
  /\ MaxNodes \in Nat /\ MaxCalls \in Nat
  /\ NoThread \notin Threads /\ NoQueue \notin Queues
  /\ Twice \in [Queues -> BOOLEAN]
  /\ \A f \in Fillings :
       f \in Seq([queue : Queues, info : Items, priority : Priorities])

NULL == 0
Addr == 1..MaxNodes

VARIABLES
  heap,      \* allocated nodes: [info, priority, next]
  queue,     \* Queue: [queue, current, previous, queuelength, duplicates]
  ctx,       \* every thread's Context: [queue, current, previous]
  lock,      \* the owner of global_lock and of every queue's lock
  passed,    \* what a queue passed through in the call that has its lock:
             \* the heads, the lengths, and whether it was at its end
  call,      \* the call on two queues a thread is in: [fn, q1, q2, at]
  returned,  \* what the last call returned: <<what was asked, the answer>>
  calls,     \* calls made
  halted     \* "no", "exit" or "stray"

vars == <<heap, queue, ctx, lock, passed, call, returned, calls, halted>>

Global  == "global_lock"
Idle    == [fn |-> "none", q1 |-> NoQueue, q2 |-> NoQueue, at |-> "idle"]
Nothing == <<"nothing", 0>>
Truth(b) == IF b THEN 1 ELSE 0
Unseen  == [heads |-> {}, lengths |-> {}, ends |-> {}]

-----------------------------------------------------------------------------
(* The functions between lock and unlock, as functions from what is in     *)
(* memory, m = [heap, queue, failed], to what is there afterwards.         *)

(* The nodes of the list that begins at a.                                 *)
Follow(h, a) == IF a \in DOMAIN h THEN h[a].next ELSE NULL
ListFrom(h, a) ==
  LET node[i \in 0..MaxNodes] == IF i = 0 THEN a ELSE Follow(h, node[i - 1])
  IN  [i \in {j \in 1..MaxNodes : node[j - 1] # NULL} |-> node[i - 1]]

List(m, q) == ListFrom(m.heap, m.queue[q].queue)

Free(h, nodes) == [a \in DOMAIN h \ nodes |-> h[a]]
Put(h, a, node) == [b \in DOMAIN h \cup {a} |-> IF b = a THEN node ELSE h[b]]
Unused(h)      == Addr \ DOMAIN h
Malloc(h)      == CHOOSE a \in Unused(h) : \A b \in Unused(h) : a <= b

(* The first node with element x: 0 if there is none.                      *)
Match(m, q, x) ==
  LET l == List(m, q)
      found == {i \in DOMAIN l : m.heap[l[i]].info = x}
  IN  IF found = {} THEN 0 ELSE CHOOSE i \in found : \A j \in found : i <= j

Rewind(m, q) == [m EXCEPT !.queue[q].current = m.queue[q].queue,
                          !.queue[q].previous = NULL]

(* The position stops at a match and is rewound when there is none.        *)
ElementInQueue(m, q, x) ==
  LET l == List(m, q)  i == Match(m, q, x) IN
  IF i = 0 THEN Rewind(m, q)
  ELSE [m EXCEPT !.queue[q].current = l[i],
                 !.queue[q].previous = IF i = 1 THEN NULL ELSE l[i - 1]]

(* How many nodes a new one of priority p goes behind: an equal head stays *)
(* behind it, other equal nodes before it.                                 *)
BehindSmaller(m, q, p) ==   \* a bug in reach: the walk stops at an equal node
  LET l == List(m, q) IN
  Cardinality({i \in DOMAIN l : p > m.heap[l[i]].priority})

Behind(m, q, p) ==
  LET l == List(m, q)  pri(i) == m.heap[l[i]].priority IN
  IF l = <<>> \/ pri(1) >= p THEN 0
  ELSE CHOOSE k \in DOMAIN l : /\ \A i \in 1..k : p >= pri(i)
                               /\ k < Len(l) => p < pri(k + 1)

Insert(m, q, x, p) ==
  IF Unused(m.heap) = {} THEN [m EXCEPT !.failed = TRUE]
  ELSE LET a == Malloc(m.heap)  l == List(m, q)  k == Behind(m, q, p)
           node == [info |-> x, priority |-> p,
                    next |-> IF k = 0 THEN m.queue[q].queue ELSE m.heap[l[k]].next]
           linked == IF k = 0 THEN Put(m.heap, a, node)
                     ELSE Put([m.heap EXCEPT ![l[k]].next = a], a, node)
       IN  Rewind([m EXCEPT !.heap = linked,
                            !.queue[q].queue = IF k = 0 THEN a ELSE @,
                            !.queue[q].queuelength = @ + 1], q)

(* A refused duplicate leaves the position at the element that is there.   *)
AddToQueue(m, q, x, p) ==
  IF m.queue[q].duplicates \/ Match(m, q, x) = 0 THEN Insert(m, q, x, p)
  ELSE ElementInQueue(m, q, x)

(* A bug in reach: the position stays at the node that is freed.           *)
RemoveFrontUnderPosition(m, q) ==
  LET a == m.queue[q].queue IN
  [m EXCEPT !.heap = Free(m.heap, {a}), !.queue[q].queue = m.heap[a].next,
            !.queue[q].queuelength = @ - 1]

RemoveFront(m, q) ==
  LET a == m.queue[q].queue IN
  Rewind([m EXCEPT !.heap = Free(m.heap, {a}),
                   !.queue[q].queue = m.heap[a].next,
                   !.queue[q].queuelength = @ - 1], q)

DestroyQueue(m, q) ==
  LET l == List(m, q) IN
  Rewind([m EXCEPT !.heap = Free(m.heap, ToSet(l)),
                   !.queue[q].queue = NULL,
                   !.queue[q].queuelength = @ - Len(l)], q)

(* Unlinks node c behind p, or at the head of q when p is NULL.            *)
Unlink(m, q, p, c) ==
  LET n == m.heap[c].next IN
  [m EXCEPT !.heap = Free(IF p = NULL THEN m.heap ELSE [m.heap EXCEPT ![p].next = n], {c}),
            !.queue[q].queue = IF p = NULL THEN m.heap[@].next ELSE @,
            !.queue[q].queuelength = @ - 1]

DeleteCurrent(m, q) ==
  LET c == m.queue[q].current IN
  [Unlink(m, q, m.queue[q].previous, c) EXCEPT !.queue[q].current = m.heap[c].next]

Advance(m, q) == [m EXCEPT !.queue[q].previous = m.queue[q].current,
                           !.queue[q].current = m.heap[m.queue[q].current].next]

(* A clone is built at the end of the list, node by node.                  *)
Append1(m, q, node) ==
  IF Unused(m.heap) = {} THEN [m EXCEPT !.failed = TRUE]
  ELSE LET a == Malloc(m.heap)  l == List(m, q)
           h == IF l = <<>> THEN m.heap ELSE [m.heap EXCEPT ![Last(l)].next = a]
       IN  [m EXCEPT !.heap = Put(h, a, [node EXCEPT !.next = NULL]),
                     !.queue[q].queue = IF l = <<>> THEN a ELSE @,
                     !.queue[q].queuelength = @ + 1]

(* Loops of such calls: the memories there are after them.                 *)
Clone(m, q, nodes) ==
  LET after[i \in 0..Len(nodes)] ==
        IF i = 0 THEN {m} ELSE {Append1(n, q, nodes[i]) : n \in after[i - 1]}
  IN  after[Len(nodes)]

AddAll(m, elements) ==
  LET after[i \in 0..Len(elements)] ==
        IF i = 0 THEN {m}
        ELSE {AddToQueue(n, e.queue, e.info, e.priority) :
                n \in after[i - 1], e \in {elements[i]}}
  IN  after[Len(elements)]

CopyQueue(m, q1, q2) ==
  LET emptied == DestroyQueue(m, q1)
      clone == [emptied EXCEPT !.queue[q1].queuelength = 0,
                               !.queue[q1].duplicates = m.queue[q2].duplicates]
      nodes == List(m, q2)
  IN  {Rewind(n, q1) : n \in Clone(clone, q1, [i \in DOMAIN nodes |-> m.heap[nodes[i]]])}

MergeQueues(m, q1, q2) ==
  LET nodes == List(m, q2)
      element(n) == [queue |-> q1, info |-> n.info, priority |-> n.priority]
  IN  {Rewind(n, q1) : n \in AddAll(m, [i \in DOMAIN nodes |-> element(m.heap[nodes[i]])])}

EqualQueues(m, q1, q2) ==
  LET l1 == List(m, q1)  l2 == List(m, q2) IN
  /\ m.queue[q1].queuelength = m.queue[q2].queuelength
  /\ \A i \in DOMAIN l1 : /\ m.heap[l1[i]].info = m.heap[l2[i]].info
                          /\ m.heap[l1[i]].priority = m.heap[l2[i]].priority

-----------------------------------------------------------------------------
(* init_queue(), then one thread has filled the queues.                    *)
InitQueue(twice) == [queue |-> NULL, current |-> NULL, previous |-> NULL,
                     queuelength |-> 0, duplicates |-> twice]

Init ==
  /\ \E filling \in Fillings :
       \E m \in AddAll([heap |-> <<>>, failed |-> FALSE,
                       queue |-> [q \in Queues |-> InitQueue(Twice[q])]], filling) :
         heap = m.heap /\ queue = m.queue
  /\ ctx = [t \in Threads |-> [queue |-> NoQueue, current |-> NULL, previous |-> NULL]]
  /\ lock = [l \in Queues \cup {Global} |-> NoThread]
  /\ passed = [q \in Queues |-> Unseen]
  /\ call = [t \in Threads |-> Idle]
  /\ returned = Nothing /\ calls = 0 /\ halted = "no"

Memory == [heap |-> heap, queue |-> queue, failed |-> FALSE]

(* A node of q, and a position in it.                                      *)
InList(q, c)      == c \in ToSet(List(Memory, q))
Adjacent(q, p, c) == IF p = NULL THEN c = queue[q].queue
                     ELSE InList(q, p) /\ heap[p].next = c

(* Memory becomes m, unless malloc() failed on the way: exit(1).           *)
Becomes(m) == \E n \in {m} :
  /\ halted' = IF n.failed THEN "exit" ELSE "no"
  /\ heap' = IF n.failed THEN heap ELSE n.heap
  /\ queue' = IF n.failed THEN queue ELSE n.queue

Stops(how) == halted' = how /\ UNCHANGED <<heap, queue, ctx, returned>>

(* What a queue passes through on the way to what a call leaves: what it   *)
(* was, every node as the head when the list is freed, and the end when    *)
(* x is looked for and not found.                                          *)
Was(q)     == [heads |-> {queue[q].queue}, lengths |-> {queue[q].queuelength},
               ends |-> {queue[q].current = NULL}]
Freed(q)   == [heads |-> ToSet(List(Memory, q)) \cup {NULL},
               lengths |-> 0..queue[q].queuelength,
               ends |-> {queue[q].current = NULL, TRUE}]
Walked(q, x) == [Was(q) EXCEPT !.ends = IF Match(Memory, q, x) = 0 THEN @ \cup {TRUE} ELSE @]

(* A thread outside a call makes one.  Some functions take no lock; the    *)
(* others have it from their one step until they give it back.             *)
HasLock(t) == \E l \in DOMAIN lock : lock[l] = t
Calls(t)   == /\ halted = "no" /\ call[t] = Idle /\ ~HasLock(t)
              /\ calls < MaxCalls /\ calls' = calls + 1 /\ UNCHANGED call
Reads(t)   == Calls(t) /\ UNCHANGED <<lock, passed>>
Locks(t, q, way) ==
  /\ Calls(t) /\ lock[q] = NoThread
  /\ lock' = [lock EXCEPT ![q] = t]
  /\ passed' = [passed EXCEPT ![q] = way]

Does(m, r) == /\ Becomes(m) /\ UNCHANGED ctx
              /\ returned' = IF m.failed THEN returned ELSE r
Tells(r)   == returned' = r /\ UNCHANGED <<heap, queue, ctx, halted>>

-----------------------------------------------------------------------------
(* SECTION 1 *)
Destroy(t, q) == Locks(t, q, Freed(q)) /\ Does(DestroyQueue(Memory, q), Nothing)

Find(t, q, x) ==
  /\ Locks(t, q, Walked(q, x))
  /\ Does(ElementInQueue(Memory, q, x), <<"found", Truth(Match(Memory, q, x) # 0)>>)

Add(t, q, x, p) ==
  /\ Locks(t, q, IF queue[q].queue = NULL \/ queue[q].duplicates THEN Was(q) ELSE Walked(q, x))
  /\ Does(AddToQueue(Memory, q, x, p), Nothing)

RemoveFromFront(t, q) ==
  /\ Locks(t, q, Was(q))
  /\ IF queue[q].queue = NULL THEN Stops("exit")
     ELSE Does(RemoveFront(Memory, q), <<"info", heap[queue[q].queue].info>>)

(* No lock is taken.                                                       *)
Heads(q) == passed[q].heads \cup {queue[q].queue}

Empty(t, q)  == Reads(t) /\ \E h \in Heads(q) : Tells(<<"empty", Truth(h = NULL)>>)
Length(t, q) == Reads(t) /\ \E n \in passed[q].lengths \cup {queue[q].queuelength} :
                               Tells(<<"length", n>>)

(* SECTION 2: the queue's own position.  Past the end is exit(1).          *)
AtCurrent(t, q, sound, act) ==
  /\ Locks(t, q, Was(q))
  /\ IF queue[q].queue = NULL \/ queue[q].current = NULL THEN Stops("exit")
     ELSE IF ~sound THEN Stops("stray") ELSE act

RewindQueue(t, q)  == Locks(t, q, Was(q)) /\ Does(Rewind(Memory, q), Nothing)
End(t, q)          == Reads(t) /\ \E e \in passed[q].ends \cup {queue[q].current = NULL} :
                                     Tells(<<"end", Truth(e)>>)

Peek(t, q) == AtCurrent(t, q, InList(q, queue[q].current),
  \/ Tells(<<"info", heap[queue[q].current].info>>)
  \/ Tells(<<"priority", heap[queue[q].current].priority>>))

UpdateCurrent(t, q, x) == AtCurrent(t, q, InList(q, queue[q].current),
  Does([Memory EXCEPT !.heap[queue[q].current].info = x], <<"updated", 0>>))

DeleteAtCurrent(t, q) == AtCurrent(t, q, Adjacent(q, queue[q].previous, queue[q].current),
  Does(DeleteCurrent(Memory, q), Nothing))

Next_Element(t, q) == AtCurrent(t, q, InList(q, queue[q].current),
  Does(Advance(Memory, q), Nothing))

(* SECTION 3: the position is the thread's own.                            *)
Own(t) == ctx[t].queue

LocalInit(t, q) ==
  /\ Reads(t)
  /\ \E h \in Heads(q) :
       ctx' = [ctx EXCEPT ![t] = [queue |-> q, current |-> h, previous |-> NULL]]
  /\ returned' = Nothing /\ UNCHANGED <<heap, queue, halted>>

LocalRewind(t) ==
  /\ Own(t) # NoQueue /\ Locks(t, Own(t), Was(Own(t)))
  /\ ctx' = [ctx EXCEPT ![t].current = queue[Own(t)].queue, ![t].previous = NULL]
  /\ returned' = Nothing /\ UNCHANGED <<heap, queue, halted>>

LocalEnd(t) == /\ Own(t) # NoQueue /\ Reads(t)
               /\ Tells(<<"local end", Truth(ctx[t].current = NULL)>>)

AtLocal(t, sound, act) ==
  /\ Own(t) # NoQueue /\ Locks(t, Own(t), Was(Own(t)))
  /\ IF ctx[t].current = NULL THEN Stops("exit")
     ELSE IF ~sound THEN Stops("stray") ELSE act

LocalPeek(t) == AtLocal(t, InList(Own(t), ctx[t].current),
  \/ Tells(<<"local info", heap[ctx[t].current].info>>)
  \/ Tells(<<"local priority", heap[ctx[t].current].priority>>))

LocalUpdate(t, x) == AtLocal(t, InList(Own(t), ctx[t].current),
  Does([Memory EXCEPT !.heap[ctx[t].current].info = x], Nothing))

LocalNext(t) == AtLocal(t, InList(Own(t), ctx[t].current),
  /\ ctx' = [ctx EXCEPT ![t].previous = ctx[t].current,
                        ![t].current = heap[ctx[t].current].next]
  /\ returned' = Nothing /\ UNCHANGED <<heap, queue, halted>>)

(* Only this context moves on: the queue's position stays where it is.     *)
LocalDelete(t) == AtLocal(t, Adjacent(Own(t), ctx[t].previous, ctx[t].current),
  /\ Becomes(Unlink(Memory, Own(t), ctx[t].previous, ctx[t].current))
  /\ ctx' = [ctx EXCEPT ![t].current = heap[ctx[t].current].next]
  /\ returned' = Nothing)

-----------------------------------------------------------------------------
(* copy_queue(), equal_queues() and merge_queues() of two queues.          *)
Enter(t, fn, q1, q2) ==
  /\ halted = "no" /\ call[t] = Idle /\ ~HasLock(t) /\ calls < MaxCalls /\ calls' = calls + 1
  /\ call' = [call EXCEPT ![t] = [fn |-> fn, q1 |-> q1, q2 |-> q2, at |-> "global"]]
  /\ UNCHANGED <<heap, queue, ctx, lock, passed, returned, halted>>

Takes(t, l, before, after) ==
  /\ halted = "no" /\ call[t].at = before /\ lock[l] = NoThread
  /\ lock' = [lock EXCEPT ![l] = t]
  /\ call' = [call EXCEPT ![t].at = after]
  /\ UNCHANGED <<heap, queue, ctx, passed, returned, calls, halted>>

(* A bug in reach: no global lock.                                         *)
LockGlobalNever(t) == /\ halted = "no" /\ call[t].at = "global"
                      /\ call' = [call EXCEPT ![t].at = "first"]
                      /\ UNCHANGED <<heap, queue, ctx, lock, passed, returned, calls, halted>>

LockGlobal(t) == Takes(t, Global, "global", "first")
LockFirst(t)  == call[t].q1 # NoQueue /\ Takes(t, call[t].q1, "first", "second")
LockSecond(t) == call[t].q2 # NoQueue /\ Takes(t, call[t].q2, "second", "body")

(* A copy first frees what is there, then grows again.  A merge adds one   *)
(* element after the other: those in front were the head in turn, and each *)
(* walks the list unless duplicates are allowed or it is the first.        *)
Copied(m, q) == [Freed(q) EXCEPT !.lengths = @ \cup 0..m.queue[q].queuelength]
Filled(m, q) ==
  LET l == List(m, q)  len == queue[q].queuelength  more == m.queue[q].queuelength IN
  [heads |-> Was(q).heads \cup
             {l[i] : i \in {j \in DOMAIN l : /\ \A k \in 1..j : l[k] \notin DOMAIN heap
                                            /\ m.heap[l[j]].priority = m.heap[l[1]].priority}},
   lengths |-> len..more,
   ends |-> Was(q).ends \cup
            IF m.queue[q].duplicates \/ more \in {len, 1} THEN {} ELSE {TRUE}]

(* The work.                                                               *)
Body(t) ==
  LET q1 == call[t].q1  q2 == call[t].q2
      Passes(way) == passed' = [passed EXCEPT ![q1] = way]
  IN
  /\ halted = "no" /\ call[t].at = "body"
  /\ \/ /\ call[t].fn = "copy"
        /\ \E m \in CopyQueue(Memory, q1, q2) : Does(m, Nothing) /\ Passes(Copied(m, q1))
     \/ /\ call[t].fn = "merge"
        /\ \E m \in MergeQueues(Memory, q1, q2) : Does(m, Nothing) /\ Passes(Filled(m, q1))
     \/ /\ call[t].fn = "equal" /\ UNCHANGED passed
        /\ Tells(<<"equal", Truth(EqualQueues(Memory, q1, q2))>>)
  /\ call' = [call EXCEPT ![t] = Idle]
  /\ UNCHANGED <<lock, calls>>

(* Every call that took locks gives them back.                             *)
Leave(t) ==
  /\ halted = "no" /\ call[t] = Idle /\ HasLock(t)
  /\ lock' = [l \in DOMAIN lock |-> IF lock[l] = t THEN NoThread ELSE lock[l]]
  /\ passed' = [q \in Queues |-> IF lock[q] = t THEN Unseen ELSE passed[q]]
  /\ UNCHANGED <<heap, queue, ctx, call, returned, calls, halted>>

Proceed(t) == LockGlobal(t) \/ LockFirst(t) \/ LockSecond(t) \/ Body(t) \/ Leave(t)

Section1(t, q) ==
  \/ Destroy(t, q) \/ RemoveFromFront(t, q) \/ Empty(t, q) \/ Length(t, q)
  \/ \E x \in Items : Find(t, q, x) \/ \E p \in Priorities : Add(t, q, x, p)
  \/ \E fn \in {"copy", "merge", "equal"}, r \in Queues : Enter(t, fn, q, r)
Section2(t, q) ==
  \/ RewindQueue(t, q) \/ End(t, q) \/ Peek(t, q) \/ DeleteAtCurrent(t, q)
  \/ Next_Element(t, q) \/ \E x \in Items : UpdateCurrent(t, q, x)
Section3(t) ==
  \/ \E q \in Queues : LocalInit(t, q)
  \/ LocalRewind(t) \/ LocalEnd(t) \/ LocalPeek(t) \/ LocalNext(t) \/ LocalDelete(t)
  \/ \E x \in Items : LocalUpdate(t, x)

Next == \E t \in Threads : \/ Proceed(t) \/ Section3(t)
                           \/ \E q \in Queues : Section1(t, q) \/ Section2(t, q)

Spec == Init /\ [][Next]_vars
(* A thread in a call is scheduled, and gets a lock that stays free.       *)
FairSpec == Spec /\ \A t \in Threads : WF_vars(Proceed(t))

-----------------------------------------------------------------------------
(* Whatever the threads call in whatever order, the lists are disjoint and *)
(* in order, hold every node ever allocated and not freed, and queuelength *)
(* is right (add_to_queue(), delete_current(), copy_queue() and the rest). *)
(* While no thread has a Context, no call strays: however the threads' own *)
(* walks and changes mix, the position of every queue stays in its list.   *)
QueuesSound ==
  LET l == [q \in Queues |-> List(Memory, q)] IN
  /\ DOMAIN heap = UNION {ToSet(l[q]) : q \in Queues}
  /\ \A q, r \in Queues : q # r => ToSet(l[q]) \cap ToSet(l[r]) = {}
  /\ \A q \in Queues :
       /\ queue[q].queuelength = Len(l[q])
       /\ \A i, j \in DOMAIN l[q] : i < j => heap[l[q][i]].priority <= heap[l[q][j]].priority
  /\ (\A t \in Threads : ctx[t].queue = NoQueue) =>
       /\ halted # "stray"
       /\ \A q \in Queues : \/ queue[q].current = NULL
                           \/ /\ InList(q, queue[q].current)
                              /\ Adjacent(q, queue[q].previous, queue[q].current)

(* A call comes to its end, whatever pairs of queues others call with: the *)
(* global lock of prioque.c:419-426 is there to avoid deadlock.  Only a    *)
(* call with the same queue twice waits for itself, and may make the       *)
(* others wait.                                                            *)
WithItself == \E t \in Threads : call[t] # Idle /\ call[t].q1 = call[t].q2
CallsReturn ==
  \A t \in Threads : (call[t] # Idle \/ HasLock(t)) ~>
    ((call[t] = Idle /\ ~HasLock(t)) \/ halted # "no" \/ WithItself)

(* To its callers, a queue is a sequence and a position, as QueueSequences *)
(* has it: a call with a lock changes them at once and answers from them,  *)
(* a call without one does so unless another call is at work on the queue. *)
Sequence(q) == LET l == List(Memory, q) IN
  [i \in DOMAIN l |-> [op |-> heap[l[i]].priority, info |-> heap[l[i]].info]]
PosOf(q) == LET l == List(Memory, q)  c == queue[q].current IN
  IF c = NULL THEN Len(l) + 1
  ELSE IF InList(q, c) THEN CHOOSE i \in DOMAIN l : l[i] = c ELSE 0

Content(q) == [seq |-> Sequence(q), pos |-> PosOf(q), dup |-> queue[q].duplicates,
               loose |-> /\ InList(q, queue[q].current)
                         /\ ~Adjacent(q, queue[q].previous, queue[q].current)]
Busy == {q \in Queues : lock[q] # NoThread}

Promise == INSTANCE QueueSequences WITH
  content <- [q \in Queues |-> Content(q)], busy <- Busy, over <- (halted # "no")
KeepsPromise == Promise!Spec
=============================================================================
