------------------------------- MODULE Mlfqs -------------------------------
(***************************************************************************)
(* The multi-level feedback queue scheduler of threads/thread.c over the   *)
(* fixed-point numbers of threads/fixed-point.h.  Thread 0 is the idle     *)
(* thread.  The scale of the numbers, the ticks in a second and the decay  *)
(* of the load average (16384, 100 and 60 in the code) are constants.      *)
(***************************************************************************)
EXTENDS Integers, Sequences, FiniteSets, SequencesExt

CONSTANTS
  Thr,                  \* threads, numbers above 0
  FLOAT, TIMER_FREQ, PRI_TICKS, TIME_SLICE, DECAY,
  PRI_MAX,
  Nices,                \* nice values threads set
  MaxTicks              \* bound: timer ticks

VARIABLES
  ticks, thread_ticks,
  running, state,       \* state: "ready", "running" or "blocked"
  recent_cpu, nice, priority, load_avg,
  ready_list, ready_threads, highest_priority

mlfqsVars == <<ticks, thread_ticks, running, state, recent_cpu, nice, priority, load_avg,
               ready_list, ready_threads, highest_priority>>

PRI_MIN == 0
Idle == 0
All == Thr \cup {Idle}

-----------------------------------------------------------------------------
(* fixed-point.h; division in C truncates towards zero.                    *)
CDiv(a, b) == IF a >= 0 THEN a \div b ELSE -((-a) \div b)
int_to_fixed(n) == n * FLOAT
fixed_to_int(x) == IF x >= 0 THEN CDiv(x + FLOAT \div 2, FLOAT) ELSE CDiv(x - FLOAT \div 2, FLOAT)
fixed_to_int_down(x) == CDiv(x, FLOAT)
fixed_add(x, y) == x + y
fixed_add_int(x, n) == x + n * FLOAT
fixed_mult(x, y) == CDiv(x * y, FLOAT)
fixed_mult_int(x, n) == x * n
fixed_div(x, y) == CDiv(x * FLOAT, y)
fixed_div_int(x, n) == CDiv(x, n)

calc_priority(r, n) ==
  LET ans == PRI_MAX - fixed_to_int_down(fixed_div_int(r, PRI_TICKS)) - n * 2
  IN IF ans < PRI_MIN THEN PRI_MIN ELSE IF ans > PRI_MAX THEN PRI_MAX ELSE ans
calc_recent_cpu(r, n, coeff) == fixed_add_int(fixed_mult(coeff, r), n)
NewLoadAvg ==
  LET coeff == fixed_div_int(int_to_fixed(DECAY - 1), DECAY)
      coeff2 == fixed_div_int(int_to_fixed(1), DECAY)
  IN fixed_add(fixed_mult(coeff, load_avg), fixed_mult_int(coeff2, ready_threads))

-----------------------------------------------------------------------------
(* The scheduler's variables as a record, which the functions transform.   *)
Now == [running |-> running, state |-> state, recent_cpu |-> recent_cpu, nice |-> nice, priority |-> priority,
        load_avg |-> load_avg, lists |-> ready_list, threads |-> ready_threads,
        highest |-> highest_priority, slice |-> thread_ticks]
MlfqsBecomes(r) ==
  /\ running' = r.running /\ state' = r.state /\ recent_cpu' = r.recent_cpu /\ nice' = r.nice
  /\ priority' = r.priority /\ load_avg' = r.load_avg /\ ready_list' = r.lists
  /\ ready_threads' = r.threads /\ highest_priority' = r.highest /\ thread_ticks' = r.slice

Waiting(r) == {p \in PRI_MIN..PRI_MAX : r.lists[p] # <<>>}
Greatest(S) == CHOOSE p \in S : \A q \in S : q <= p
update_highest_priority(r) == [r EXCEPT !.highest = IF Waiting(r) = {} THEN 0 ELSE Greatest(Waiting(r))]
PushBack(r, t) == [r EXCEPT !.lists[r.priority[t]] = Append(@, t)]

(* update_priority leaves the running and the blocked where they are.      *)
update_priority(r, t) ==
  LET new == [r EXCEPT !.priority[t] = calc_priority(r.recent_cpu[t], r.nice[t])]
      away == [new EXCEPT !.lists[r.priority[t]] = SelectSeq(@, LAMBDA u : u # t)]
  IN IF t = Idle THEN r
     ELSE IF new.priority[t] # r.priority[t] /\ t # r.running /\ r.state[t] # "blocked"
          THEN PushBack(away, t) ELSE new

(* schedule: next_thread_to_run, and thread_schedule_tail.                 *)
schedule(r) ==
  LET p == Greatest(Waiting(r))
      next == Head(r.lists[p])
      popped == [r EXCEPT !.lists[p] = Tail(@)]
      below == Waiting(popped)
      highest == IF popped.lists[p] # <<>> \/ below = {} THEN r.highest ELSE Greatest(below)
  IN IF Waiting(r) = {}
     THEN [r EXCEPT !.highest = PRI_MIN, !.running = Idle, !.state[Idle] = "running", !.slice = 0]
     ELSE [popped EXCEPT !.highest = highest, !.running = next, !.state[next] = "running", !.slice = 0]

thread_yield(r) ==
  LET cur == r.running
      put == IF cur # Idle THEN PushBack(r, cur) ELSE r
  IN schedule([put EXCEPT !.state[cur] = "ready"])

(* once_a_second and the threads it visits, in the order of all_list.      *)
once_a_second(r) ==
  LET load == NewLoadAvg
      twice == fixed_mult_int(load, 2)
      coeff == fixed_div(twice, fixed_add_int(twice, 1))
      used == [r EXCEPT !.load_avg = load,
                        !.recent_cpu = [t \in All |-> calc_recent_cpu(r.recent_cpu[t], r.nice[t], coeff)]]
  IN FoldLeft(update_priority, used, SetToSortSeq(All, <))

-----------------------------------------------------------------------------
(* thread_tick, and the yield at the end of the interrupt it asks for.     *)
thread_tick ==
  LET now == ticks + 1
      t == running
      counted == IF t # Idle THEN [Now EXCEPT !.recent_cpu[t] = fixed_add_int(@, 1)] ELSE Now
      second == IF now % TIMER_FREQ = 0 THEN once_a_second(counted) ELSE counted
      due == now % PRI_TICKS = 0
      cur == IF due THEN [second EXCEPT !.priority[t] = calc_priority(second.recent_cpu[t], second.nice[t])]
             ELSE second
      lower == due /\ cur.priority[t] < cur.highest
      known == IF lower THEN update_highest_priority(cur) ELSE cur
      sliced == [known EXCEPT !.slice = @ + 1]
  IN /\ ticks < MaxTicks /\ ticks' = now
     /\ MlfqsBecomes(IF lower \/ sliced.slice >= TIME_SLICE THEN thread_yield(sliced) ELSE sliced)

thread_set_nice(n) ==
  LET r == update_priority([Now EXCEPT !.nice[running] = n], running)
  IN /\ running # Idle /\ n # nice[running]
     /\ MlfqsBecomes(IF r.priority[running] < r.highest THEN thread_yield(r) ELSE r)
     /\ UNCHANGED ticks

thread_block ==
  /\ running # Idle
  /\ MlfqsBecomes(schedule([Now EXCEPT !.threads = @ - 1, !.state[running] = "blocked"]))
  /\ UNCHANGED ticks

(* thread_unblock yields unless it is called from an interrupt; the idle   *)
(* thread calls nothing.                                                   *)
thread_unblock(t, in_interrupt) ==
  LET r == [PushBack(Now, t) EXCEPT !.threads = @ + 1, !.state[t] = "ready"]
      raised == priority[t] > highest_priority
      h == IF raised THEN [r EXCEPT !.highest = priority[t]] ELSE r
  IN /\ state[t] = "blocked" /\ (running = Idle => in_interrupt)
     /\ MlfqsBecomes(IF raised /\ ~in_interrupt THEN thread_yield(h) ELSE h)
     /\ UNCHANGED ticks

MlfqsInit ==
  /\ ticks = 0 /\ thread_ticks = 0
  /\ running = CHOOSE t \in Thr : \A u \in Thr : t <= u
  /\ state = [t \in All |-> IF t = running THEN "running" ELSE "blocked"]
  /\ recent_cpu = [t \in All |-> 0] /\ nice = [t \in All |-> 0]
  /\ priority = [t \in All |-> IF t = Idle THEN PRI_MIN ELSE PRI_MAX]
  /\ load_avg = 0 /\ ready_list = [p \in PRI_MIN..PRI_MAX |-> <<>>]
  /\ ready_threads = 1 /\ highest_priority = PRI_MIN

MlfqsNext ==
  \/ thread_tick \/ thread_block
  \/ \E n \in Nices : thread_set_nice(n)
  \/ \E t \in Thr, in_interrupt \in BOOLEAN : thread_unblock(t, in_interrupt)

-----------------------------------------------------------------------------
OnLists(t) == {p \in PRI_MIN..PRI_MAX : \E i \in DOMAIN ready_list[p] : ready_list[p][i] = t}

(* A ready thread is on the list of its own priority and on no other,      *)
(* through every recomputation; at each second every thread's priority is  *)
(* the formula's, of its recent CPU time and niceness; the load average    *)
(* counts the threads that run or are ready, and stays below their number. *)
MlfqsExact ==
  /\ \A t \in Thr : OnLists(t) = IF state[t] = "ready" THEN {priority[t]} ELSE {}
  /\ FoldLeft(LAMBDA sum, l : sum + Len(l), 0, [p \in 1..PRI_MAX + 1 |-> ready_list[p - 1]])
       = Cardinality({t \in Thr : state[t] = "ready"})
  /\ ready_threads = Cardinality({t \in Thr : state[t] # "blocked"})
  /\ ticks % TIMER_FREQ = 0 => \A t \in Thr : priority[t] = calc_priority(recent_cpu[t], nice[t])
  /\ load_avg \in 0..int_to_fixed(Cardinality(Thr))
  /\ LET x == recent_cpu[running] * 2 IN 2 * (int_to_fixed(fixed_to_int(x)) - x) \in (-FLOAT)..FLOAT
=============================================================================
