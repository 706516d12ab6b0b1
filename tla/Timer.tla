-------------------------------- MODULE Timer --------------------------------
(***************************************************************************)
(* The timer: the PIT drives IRQ 0 from the boot on; once ACPI is up, an   *)
(* asynchronous task hands the timer over to the HPET, if there is one,    *)
(* while processes sleep (timer.cpp, drivers/pit.cpp, drivers/hpet.cpp,    *)
(* scheduler.cpp: tick, sleep_ms, frequency_updated).                      *)
(*                                                                         *)
(* time is the real time in tenths of a millisecond.                       *)
(***************************************************************************)
EXTENDS Integers

CONSTANTS HpetFrequencies,  \* of the main counter, in Hz
          Delays,           \* ms that a process sleeps or waits for
          SizeValues,       \* 2^64: values of size_t
          MaxTime           \* bound: the time the system is followed

VARIABLES time,
          hpet_frequency,   \* 0: no HPET that can be used
          driver,           \* the device that drives IRQ 0
          pending,          \* IRQ 0 is raised and not yet handled
          irq_handler,      \* irq_handlers[0]
          timer_frequency, counter_fun, counter_frequency,
          pit_counter,
          epoch,            \* the time the main counter of the HPET was cleared
          comparator,
          process,          \* a process that sleeps again and again; how, since,
                            \* ms, woke, period and caught are ghosts
          started           \* ghost: when the counter of counter_fun was 0

vars == <<time, hpet_frequency, driver, pending, irq_handler, timer_frequency,
          counter_fun, counter_frequency, pit_counter, epoch, comparator,
          process, started>>

Second == 10000             \* units of time
PIT_FREQUENCY == 1000
TIMER_FREQUENCY_GOAL == 10000

\* timer::install(): ACPI is not there yet, the HPET is not found, and the PIT
\* is installed.
Init == /\ time = 0
        /\ hpet_frequency \in HpetFrequencies \cup {0}
        /\ driver = "pit"
        /\ pending = FALSE
        /\ irq_handler = "pit"
        /\ timer_frequency = PIT_FREQUENCY
        /\ counter_fun = "pit"
        /\ counter_frequency = PIT_FREQUENCY
        /\ pit_counter = 0
        /\ epoch = 0
        /\ comparator = 0
        /\ process = [state |-> "RUNNING", sleep_timeout |-> 0, how |-> "none", since |-> 0,
                      ms |-> 0, woke |-> 0, period |-> 0, caught |-> FALSE]
        /\ started = 0

\* MAIN_COUNTER of the HPET.
MainCounterAt(t) == ((t - epoch) * hpet_frequency) \div Second
main_counter == MainCounterAt(time)

counter == IF counter_fun = "pit" THEN pit_counter ELSE main_counter

milliseconds == counter \div (counter_frequency \div 1000)

\* Time passes; the device raises IRQ 0 when its period is over.  An interrupt
\* is handled before the next unit of time.
Pass ==
    /\ time < MaxTime
    /\ ~pending
    /\ time' = time + 1
    /\ pending' = IF driver = "pit"
                  THEN (time + 1) % (Second \div PIT_FREQUENCY) = 0
                  ELSE /\ main_counter < comparator
                       /\ MainCounterAt(time + 1) >= comparator
    /\ UNCHANGED <<hpet_frequency, driver, irq_handler, timer_frequency,
                   counter_fun, counter_frequency, pit_counter, epoch,
                   comparator, process, started>>

Asleep(p) == p.state \in {"SLEEPING", "BLOCKED_TIMEOUT"}

\* scheduler::tick(), the part about the sleep timeouts.
tick(p) ==
    LET left == (p.sleep_timeout - 1) % SizeValues
    IN  IF ~Asleep(p) THEN p
        ELSE IF left = 0
        THEN [p EXCEPT !.sleep_timeout = 0, !.state = "RUNNING", !.woke = time]
        ELSE [p EXCEPT !.sleep_timeout = left]

\* Plausible bug: the comparator is not moved on.
next_comparator_Same == comparator
next_comparator ==
    main_counter + hpet_frequency \div timer_frequency

\* _irq_handler and the timer_handler of either driver.
timer_handler ==
    /\ pending
    /\ pending' = FALSE
    /\ pit_counter' = IF irq_handler = "pit" THEN pit_counter + 1 ELSE pit_counter
    /\ comparator' = IF irq_handler = "hpet" THEN next_comparator ELSE comparator
    /\ process' = IF irq_handler = "none" THEN process ELSE tick(process)
    /\ UNCHANGED <<time, hpet_frequency, driver, irq_handler, timer_frequency,
                   counter_fun, counter_frequency, epoch, started>>

\* Plausible bug: a tick is taken for a millisecond.
sleep_ticks_OfPit(ms) == IF ms = 0 THEN 1 ELSE ms
sleep_ticks(ms) == LET ticks == ms * (timer_frequency \div 1000)
                   IN  IF ticks = 0 THEN 1 ELSE ticks

\* sleep_ms(), or block_process_timeout_light() by a condition variable.
sleep(ms, how) ==
    /\ ~Asleep(process)
    /\ process' = [state |-> how, sleep_timeout |-> sleep_ticks(ms),
                   how |-> how, since |-> time, ms |-> ms, woke |-> time,
                   period |-> Second \div timer_frequency, caught |-> FALSE]
    /\ UNCHANGED <<time, hpet_frequency, driver, pending, irq_handler,
                   timer_frequency, counter_fun, counter_frequency,
                   pit_counter, epoch, comparator, started>>

\* What frequency_updated() makes of a timeout: size_t times a double.
Scaled(timeout, old, new) == (timeout * old) \div new

frequency_updated(p, old, new) ==
    IF p.state = "SLEEPING"
    THEN [p EXCEPT !.sleep_timeout = Scaled(@, old, new), !.caught = TRUE]
    ELSE [p EXCEPT !.caught = Asleep(p)]

\* Plausible bug: the frequency of the counter stays that of the PIT.
NewCounterFrequency_Kept == counter_frequency
NewCounterFrequency == hpet_frequency

\* hpet::late_install(), interrupts being disabled; pit::remove() unregisters
\* the handler of the PIT, and the HPET takes its place.
late_install ==
    /\ driver = "pit" /\ hpet_frequency # 0
    /\ LET current == IF hpet_frequency >= TIMER_FREQUENCY_GOAL
                      THEN TIMER_FREQUENCY_GOAL ELSE hpet_frequency
       IN  /\ timer_frequency' = current
           /\ process' = frequency_updated(process, timer_frequency, current)
           /\ comparator' = hpet_frequency \div current
    /\ counter_fun' = "hpet"
    /\ counter_frequency' = NewCounterFrequency
    /\ irq_handler' = "hpet"
    /\ epoch' = time
    /\ started' = time
    /\ driver' = "hpet"
    /\ UNCHANGED <<time, hpet_frequency, pending, pit_counter>>

Next == \/ Pass
        \/ timer_handler
        \/ \E ms \in Delays, how \in {"SLEEPING", "BLOCKED_TIMEOUT"} : sleep(ms, how)
        \/ late_install

Spec == Init /\ [][Next]_vars

-----------------------------------------------------------------------------
\* Whether a process sleeps as long as it asked for: it does not wake up more
\* than one tick too early, and it is not asleep any more once the tick after
\* its time has been handled.
OnTime(p) ==
    LET due == p.since + p.ms * (Second \div 1000)
    IN  IF Asleep(p) THEN time <= due + p.period
        ELSE p.ms # 0 => p.woke >= due - p.period

\* A process that the change of the timer does not catch asleep sleeps as long
\* as it asked for, with either timer and at either frequency of the ticks
\* (sleep_ms, block_process_timeout_light and tick against the frequency that
\* late_install sets and the comparator that timer_handler sets).
SleepLasts == process.caught \/ OnTime(process)

\* "Update the current frequency (this will update the sleeping task as well)":
\* a process that is in sleep_ms while the timer changes also sleeps as long as
\* it asked for.
SleepSurvivesHandover == process.how = "SLEEPING" => OnTime(process)

\* IRQ 0 goes to the handler of the device that drives it, and the next event
\* of the HPET, which is not periodic, is always ahead, or its interrupt is
\* waiting: the ticks never stop (late_install and timer_handler).
TicksKeepComing ==
    /\ irq_handler = driver
    /\ driver = "hpet" => pending \/ comparator > main_counter

\* The clock that programs and the network read counts the milliseconds since
\* its counter started, with either timer.
ClockKeepsTime ==
    ~pending => milliseconds = (time - started) \div (Second \div 1000)
=============================================================================
