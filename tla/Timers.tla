------------------------------- MODULE Timers -------------------------------
(***************************************************************************)
(* runtime/nb_timer.c: a pool of timers threaded into a free list (through *)
(* next) and into a doubly linked list of armed timers sorted by timeout.  *)
(* The operations come in the combinations their one user, the reliable    *)
(* module, makes of them: hook_send allocates and inserts, hook_ingress    *)
(* removes and returns, redelivery_cb inserts the timer that just fired.   *)
(* redelivery_cb always asks for the same delay; the delays are a set here *)
(* so that insertion in the middle of the list is exercised too.           *)
(***************************************************************************)
EXTENDS Integers, Sequences, FiniteSetsExt

CONSTANTS PoolSize,     \* MAX_TIMER_ALLOCS (1024)
          Delays,       \* delays asked for (REDELIVERY_TIMEOUT_MS: {50})
          MaxTime       \* bound on nb__time_now

ASSUME TimersAssumption ==
  /\ PoolSize \in Nat \ {0}
  /\ Delays \subseteq Nat \ {0}
  /\ MaxTime \in Nat

Timer == 1 .. PoolSize
NULL  == 0
Never == -1             \* the timeout a removed timer gets

VARIABLES
  now,                  \* nb__time_now
  checking,             \* TRUE while nb__check_timers runs
  timers_head,          \* nb__timers_head
  free_list,            \* nb__timer_free_list
  next, prev, timeout   \* the fields of the timers

lists == <<timers_head, free_list, next, prev, timeout>>
vars  == <<now, checking, lists>>

(***************************************************************************)
(* nb__init_timers threads the pool into the free list.  The pool is in    *)
(* static storage, so prev and timeout start as zero.                      *)
(***************************************************************************)
Init ==
  /\ now = 0
  /\ checking = FALSE
  /\ timers_head = NULL
  /\ free_list = 1
  /\ next = [t \in Timer |-> IF t < PoolSize THEN t + 1 ELSE NULL]
  /\ prev = [t \in Timer |-> NULL]
  /\ timeout = [t \in Timer |-> 0]

\* The k-th node after node t along the links f.
Follow(f, t) ==
  LET node[k \in 0 .. PoolSize] ==
        IF k = 0 THEN t
        ELSE IF node[k - 1] = NULL THEN NULL ELSE f[node[k - 1]]
  IN  node

\* Mutant: a new timer goes ahead of the ones with the same timeout.
WalkEqual(head, nx, to) ==
  LET node  == Follow(nx, head)
      stops == {k \in 0 .. PoolSize : node[k] = NULL \/ timeout[node[k]] >= to}
      k     == Min(stops)
  IN  [curr |-> node[k], before |-> IF k = 0 THEN NULL ELSE node[k - 1]]

(***************************************************************************)
(* nb__insert_timer(t, to) on a list that starts at head with links nx and *)
(* pv: curr is the first timer with a later timeout, before the one ahead  *)
(* of it.                                                                  *)
(***************************************************************************)
Walk(head, nx, to) ==
  LET node  == Follow(nx, head)
      stops == {k \in 0 .. PoolSize : node[k] = NULL \/ timeout[node[k]] > to}
      k     == Min(stops)
  IN  [curr |-> node[k], before |-> IF k = 0 THEN NULL ELSE node[k - 1]]

Set(f, t, v) == IF t = NULL THEN f ELSE [f EXCEPT ![t] = v]

\* Mutant: the timer after the inserted one keeps its old prev.
InsertKeepsPrev(t, to, head, nx, pv) ==
  LET w == Walk(head, nx, to)
  IN  /\ timers_head' = IF w.before = NULL THEN t ELSE head
      /\ next' = Set([nx EXCEPT ![t] = w.curr], w.before, t)
      /\ prev' = [pv EXCEPT ![t] = w.before]
      /\ timeout' = [timeout EXCEPT ![t] = to]

Insert(t, to, head, nx, pv) ==
  LET w == Walk(head, nx, to)
  IN  /\ timers_head' = IF w.before = NULL THEN t ELSE head
      /\ next' = Set([nx EXCEPT ![t] = w.curr], w.before, t)
      /\ prev' = Set([pv EXCEPT ![t] = w.before], w.curr, t)
      /\ timeout' = [timeout EXCEPT ![t] = to]

\* Mutant: the timer ahead of t keeps pointing at it.
RemoveKeepsLink(t) ==
  [head |-> IF prev[t] = NULL THEN next[t] ELSE timers_head,
   nx   |-> [next EXCEPT ![t] = NULL],
   pv   |-> [Set(prev, next[t], prev[t]) EXCEPT ![t] = NULL]]

\* nb__remove_timer(t): the list and the links without t.
Remove(t) ==
  [head |-> IF prev[t] = NULL THEN next[t] ELSE timers_head,
   nx   |-> [Set(next, prev[t], next[t]) EXCEPT ![t] = NULL],
   pv   |-> [Set(prev, next[t], prev[t]) EXCEPT ![t] = NULL]]

\* The timers in the list, in the order of the links.
ListOf(f, t) == LET node == Follow(f, t)
                IN  [i \in 1 .. Cardinality({k \in 0 .. PoolSize : node[k] # NULL})
                       |-> node[i - 1]]
Armed == ListOf(next, timers_head)
Free  == ListOf(next, free_list)

(***************************************************************************)
(* Operations.                                                             *)
(***************************************************************************)

\* nb__main_loop_step reads the clock when a turn begins.
Tick ==
  /\ ~checking
  /\ now < MaxTime
  /\ now' = now + 1
  /\ UNCHANGED <<checking, lists>>

\* reliable.hook_send: nb__alloc_timer and nb__insert_timer.  With an empty
\* pool nb__alloc_timer returns NULL and the insertion dereferences it; the
\* model stops there, at the end of what is defined.
AllocInsert(delay) ==
  /\ ~checking
  /\ free_list # NULL
  /\ free_list' = next[free_list]
  /\ Insert(free_list, now + delay, timers_head, next, prev)
  /\ UNCHANGED <<now, checking>>

\* reliable.hook_ingress for an ACK: nb__remove_timer, nb__return_timer.
RemoveReturn(t) ==
  /\ ~checking
  /\ t \in Range(Armed)
  /\ LET rm == Remove(t)
     IN  /\ timers_head' = rm.head
         /\ next' = [rm.nx EXCEPT ![t] = free_list]
         /\ prev' = rm.pv
  /\ timeout' = [timeout EXCEPT ![t] = Never]
  /\ free_list' = t
  /\ UNCHANGED <<now, checking>>

CheckTimers ==
  /\ ~checking
  /\ checking' = TRUE
  /\ UNCHANGED <<now, lists>>

\* One turn of the loop of nb__check_timers: the head is removed and its
\* callback, redelivery_cb, inserts it again.
Fire(delay) ==
  /\ checking
  /\ timers_head # NULL
  /\ timeout[timers_head] <= now
  /\ LET rm == Remove(timers_head)
     IN  Insert(timers_head, now + delay, rm.head, rm.nx, rm.pv)
  /\ UNCHANGED <<now, checking, free_list>>

\* Mutant: the loop goes by the timers that are due before now.
CheckDoneEarly ==
  /\ checking
  /\ timers_head # NULL => timeout[timers_head] >= now
  /\ checking' = FALSE
  /\ UNCHANGED <<now, lists>>

CheckDone ==
  /\ checking
  /\ timers_head # NULL => timeout[timers_head] > now
  /\ checking' = FALSE
  /\ UNCHANGED <<now, lists>>

Next ==
  \/ Tick
  \/ CheckTimers
  \/ CheckDone
  \/ \E d \in Delays : AllocInsert(d) \/ Fire(d)
  \/ \E t \in Timer : RemoveReturn(t)

Spec == Init /\ [][Next]_vars

\* nb__main_loop_step calls nb__check_timers on every turn, and its loop runs
\* to the end.
FairSpec == Spec /\ WF_vars(CheckTimers)
                 /\ WF_vars(CheckDone \/ \E d \in Delays : Fire(d))

-----------------------------------------------------------------------------
(***************************************************************************)
(* Properties.                                                             *)
(***************************************************************************)

\* The two lists partition the pool: inserting, removing and firing never
\* lose a timer, put it in both lists, or close a list into a ring.
PoolPartitioned ==
  /\ Range(Armed) \union Range(Free) = Timer
  /\ Range(Armed) \intersect Range(Free) = {}
  /\ Len(Armed) + Len(Free) = PoolSize

\* Along the armed list prev is the inverse of next: nb__remove_timer, which
\* follows both, unlinks exactly its timer.
PrevInverse ==
  LET q == Armed
  IN  \A i \in 1 .. Len(q) : prev[q[i]] = IF i = 1 THEN NULL ELSE q[i - 1]

\* When the loop of nb__check_timers ends, no timer is left that is due: the
\* head is the earliest one.
NoneDueAfterCheck ==
  [][checking /\ ~checking' => \A t \in Range(Armed) : timeout[t] > now]_vars

\* A timer that stays armed fires: with fair turns of the main loop none is
\* overdue for ever (as long as the clock goes on).
DueTimersFire ==
  \A t \in Timer :
    (t \in Range(Armed) /\ timeout[t] <= now)
      ~> (t \notin Range(Armed) \/ timeout[t] > now)

Queue == INSTANCE TimerQueue WITH
           queue <- Armed,
           due   <- [t \in Timer |-> IF t \in Range(Armed) THEN timeout[t] ELSE 0]

\* The linked list implements the queue of TimerQueue: sorted by timeout,
\* first come first served among equal ones.
ImplementsQueue == Queue!Spec
=============================================================================
