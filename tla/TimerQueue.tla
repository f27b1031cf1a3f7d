----------------------------- MODULE TimerQueue -----------------------------
(***************************************************************************)
(* What nb_timer.c promises: a queue of armed timers in the order of their *)
(* timeouts, first come first served among equal ones; nb__check_timers    *)
(* fires every timer that is due, the earliest first.                      *)
(***************************************************************************)
EXTENDS Naturals, SequencesExt

CONSTANTS Timer,        \* the timers of the pool
          Delays,       \* the delays timers are armed with
          MaxTime       \* bound on the clock

VARIABLES now,          \* the time nb__get_time_ms_now returns
          queue,        \* the armed timers
          due           \* timer -> its timeout, 0 when it is not armed

vars == <<now, queue, due>>

Armed == {queue[i] : i \in 1 .. Len(queue)}

\* p is the queue q with t put behind the timers that are due at time d or
\* before, and ahead of the ones that are due later.
Placed(q, t, d, p) ==
  \E k \in 0 .. Len(q) :
    /\ \A i \in 1 .. k : due[q[i]] <= d
    /\ \A i \in k + 1 .. Len(q) : due[q[i]] > d
    /\ p = InsertAt(q, k + 1, t)

Init == /\ now = 0
        /\ queue = << >>
        /\ due = [t \in Timer |-> 0]

Tick == /\ now < MaxTime
        /\ now' = now + 1
        /\ UNCHANGED <<queue, due>>

Arm(t, delay) ==
  /\ t \notin Armed
  /\ Placed(queue, t, now + delay, queue')
  /\ due' = [due EXCEPT ![t] = now + delay]
  /\ UNCHANGED now

Cancel(t) ==
  /\ \E i \in 1 .. Len(queue) : queue[i] = t /\ queue' = RemoveAt(queue, i)
  /\ due' = [due EXCEPT ![t] = 0]
  /\ UNCHANGED now

\* The earliest timer is due: it leaves the queue, and its callback arms it
\* again.
Fire(delay) ==
  /\ queue # << >>
  /\ due[Head(queue)] <= now
  /\ Placed(Tail(queue), Head(queue), now + delay, queue')
  /\ due' = [due EXCEPT ![Head(queue)] = now + delay]
  /\ UNCHANGED now

Next == \/ Tick
        \/ \E t \in Timer : Cancel(t) \/ \E d \in Delays : Arm(t, d)
        \/ \E d \in Delays : Fire(d)

Spec == Init /\ [][Next]_vars
=============================================================================
