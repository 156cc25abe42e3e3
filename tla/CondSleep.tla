----------------------------- MODULE CondSleep ------------------------------
(***************************************************************************)
(* conditional_sleep() of util.cpp: it calls func() and sleeps in turn,    *)
(* until func() returns 0 or n_sleep milliseconds are used up.  And how    *)
(* long do_logging() of log_mgr sleeps at the end of a round.  Both read   *)
(* system_clock in whole milliseconds, and the clock may be set meanwhile. *)
(***************************************************************************)
EXTENDS Integers

CONSTANTS
    Spans,          \* the values of n_sleep
    Intervals,      \* the values of n_interval, and of set_interval()
    LogInterval,    \* 100, the milliseconds of m_log_interval at first
    TicksPerMs,     \* the parts of a millisecond that are told apart
    MaxFunc,        \* a bound on the ticks that func() or a round takes
    MaxLate,        \* a bound on the ticks that sleep_for() takes too long
    MaxSet,         \* a bound on the milliseconds the clock is set by, once
    MaxFuncCalls    \* a bound on the calls of func()

ASSUME CondSleepAssumption ==
    /\ Spans \subseteq Nat /\ Intervals \subseteq Nat /\ LogInterval \in Nat
    /\ TicksPerMs \in Nat \ {0}
    /\ {MaxFunc, MaxLate, MaxSet, MaxFuncCalls} \subseteq Nat

VARIABLES
    m_log_interval,         \* of log_mgr
    n_sleep, n_interval,    \* the arguments; the interval that the round read
    place,                  \* "out", "func", "test", "sleep" or "returned"; of
                            \* do_logging(), "flush" or "paced"
    ns,                     \* the milliseconds left to sleep
    bt,
    b_continue,
    ticks,                  \* the time since the millisecond of the call began
    offset,                 \* the milliseconds the clock was set by
    set,                    \* "no", "forward", "back", or "backAsleep": while
                            \* the thread slept
    funcCalls

condSleepVars == <<m_log_interval, n_sleep, n_interval, place, ns, bt, b_continue, ticks,
                   offset, set, funcCalls>>

CondSleepInit ==
    /\ m_log_interval = LogInterval
    /\ n_sleep = 0 /\ n_interval = 0 /\ place = "out"
    /\ ns = 0 /\ bt = 0 /\ b_continue = TRUE
    /\ ticks = 0 /\ offset = 0 /\ set = "no" /\ funcCalls = 0

\* What util_gettimestamp() returns after so many ticks.
util_gettimestamp(t) == t \div TicksPerMs + offset

SleepCall(n, i, tick) ==
    /\ place = "out" /\ place' = "func"
    /\ n_sleep' = n /\ n_interval' = i /\ ns' = n
    /\ ticks' = tick /\ bt' = util_gettimestamp(tick)
    /\ UNCHANGED <<m_log_interval, b_continue, offset, set, funcCalls>>

\* The clock is set while func() or a round runs or the thread sleeps.
ClockIsSet(by) ==
    /\ place \in {"func", "sleep", "flush"} /\ set = "no" /\ by # 0
    /\ offset' = by
    /\ set'    = (CASE by > 0 -> "forward"
                    [] by < 0 /\ place = "sleep" -> "backAsleep"
                    [] OTHER -> "back")
    /\ UNCHANGED <<m_log_interval, n_sleep, n_interval, place, ns, bt, b_continue, ticks, funcCalls>>

\* func() has taken d ticks.
FuncReturns(d, again) ==
    /\ place = "func" /\ place' = "test"
    /\ funcCalls < MaxFuncCalls
    /\ funcCalls'  = funcCalls + 1
    /\ ticks'      = ticks + d
    /\ b_continue' = again
    /\ ns'         = ns - (util_gettimestamp(ticks') - bt)
    /\ UNCHANGED <<m_log_interval, n_sleep, n_interval, bt, offset, set>>

LoopTest ==
    /\ place = "test"
    /\ place' = IF b_continue /\ ns >= 0 THEN "sleep" ELSE "returned"
    /\ bt'    = util_gettimestamp(ticks)
    /\ UNCHANGED <<m_log_interval, n_sleep, n_interval, ns, b_continue, ticks, offset, set, funcCalls>>

\* Mutant of Charge: what the clock says.
ChargeMeasured(cost) == cost

\* A sleep counts for n_interval at least, whatever the clock says.
Charge(cost) == IF cost > n_interval THEN cost ELSE n_interval

\* sleep_for() has taken d ticks more than n_interval.
SleepReturns(d) ==
    /\ place = "sleep"
    /\ ticks' = ticks + n_interval * TicksPerMs + d
    /\ ns'    = ns - Charge(util_gettimestamp(ticks') - bt)
    /\ place' = IF ns' <= 0 THEN "returned" ELSE "func"
    /\ bt'    = util_gettimestamp(ticks')
    /\ UNCHANGED <<m_log_interval, n_sleep, n_interval, b_continue, offset, set, funcCalls>>

-----------------------------------------------------------------------------
\* By any thread, at any time.
set_interval(msecs) ==
    /\ place \in {"out", "flush"}
    /\ m_log_interval' = msecs
    /\ UNCHANGED <<n_sleep, n_interval, place, ns, bt, b_continue, ticks, offset, set, funcCalls>>

RoundBegin(tick) ==
    /\ place = "out" /\ place' = "flush"
    /\ n_interval' = m_log_interval
    /\ ticks' = tick /\ bt' = util_gettimestamp(tick)
    /\ UNCHANGED <<m_log_interval, n_sleep, ns, b_continue, offset, set, funcCalls>>

\* Flushing and rotating has taken d ticks; do_logging() sleeps for the rest of
\* the interval, or for a millisecond.
RoundEnd(d) ==
    /\ place = "flush" /\ place' = "paced"
    /\ ticks' = ticks + d
    /\ LET et == n_interval - (util_gettimestamp(ticks') - bt) IN
       ns' = IF et <= 0 THEN 1 ELSE et
    /\ UNCHANGED <<m_log_interval, n_sleep, n_interval, bt, b_continue, offset, set, funcCalls>>

CondSleepNext ==
    \/ \E n \in Spans, i \in Intervals, tick \in 0 .. TicksPerMs - 1 : SleepCall(n, i, tick)
    \/ \E by \in -MaxSet .. MaxSet : ClockIsSet(by)
    \/ \E d \in 0..MaxFunc, again \in BOOLEAN : FuncReturns(d, again)
    \/ LoopTest
    \/ \E d \in 0..MaxLate : SleepReturns(d)
    \/ \E msecs \in Intervals : set_interval(msecs)
    \/ \E tick \in 0 .. TicksPerMs - 1 : RoundBegin(tick)
    \/ \E d \in 0..MaxFunc : RoundEnd(d)

CondSleepSpec == CondSleepInit /\ [][CondSleepNext]_condSleepVars

-----------------------------------------------------------------------------
(***************************************************************************)
(* Properties.                                                             *)
(***************************************************************************)

\* Every variable has its type.
CondSleepTypeOK ==
    /\ n_sleep \in Nat /\ {n_interval, m_log_interval} \subseteq Nat
    /\ place \in {"out", "func", "test", "sleep", "returned", "flush", "paced"}
    /\ ns \in Int /\ bt \in Int
    /\ b_continue \in BOOLEAN
    /\ ticks \in Nat /\ offset \in -MaxSet .. MaxSet
    /\ set \in {"no", "forward", "back", "backAsleep"}
    /\ funcCalls \in 0..MaxFuncCalls

\* n divided by i, rounded up.
Ceiling(n, i) == (n + i - 1) \div i

\* conditional_sleep() gives up, while func() still wants to go on, only when
\* n_sleep milliseconds have passed since the one it was called in began, so that
\* less than one is missing, unless the clock was set forward.  func() is called
\* once for every n_interval that n_sleep begins, and once at least, unless
\* n_interval is 0 - then calls of less than a millisecond go on without end - or
\* the clock was set back while func() ran: back while the thread slept does no
\* harm.  do_logging() begins a round m_log_interval after the last, or a
\* millisecond after its end, unless the clock was set; only if it was set back
\* in the round can it sleep longer than the interval.
SleepKept ==
    /\ place = "returned" /\ b_continue /\ set # "forward" =>
          ticks >= n_sleep * TicksPerMs
    /\ n_interval > 0 /\ set # "back" =>
          funcCalls <= (IF n_sleep = 0 THEN 1 ELSE Ceiling(n_sleep, n_interval))
    /\ place = "paced" =>
          /\ ns > 1 /\ set = "no" => (ticks + ns * TicksPerMs) \div TicksPerMs = n_interval
          /\ ns > 1 /\ set # "back" => ns <= n_interval
=============================================================================
