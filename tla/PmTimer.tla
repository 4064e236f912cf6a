------------------------------ MODULE PmTimer ------------------------------
(***************************************************************************)
(* acpi_busy_usleep (acpi.c): processors that wait by polling the counter  *)
(* of the ACPI power management timer, which wraps around after Period     *)
(* ticks (2^24 or 2^32).                                                   *)
(***************************************************************************)
EXTENDS Naturals

CONSTANTS Cpus,
          Period,      \* acpi_get_timer_period
          TmrHz,       \* ACPI_TMR_HZ
          UsecPerSec   \* 1000000

ASSUME PmTimerAssumption ==
    Period \in Nat \ {0, 1} /\ TmrHz \in Nat /\ UsecPerSec \in Nat \ {0}

VARIABLES tmr,     \* the counter
          usec,    \* by processor: how long it waits, 0 when it does not
          acc,     \* by processor: the ticks accumulated
          prev,    \* by processor: the last value read
          since    \* history, by processor: ticks since the wait began

timerVars == <<tmr, usec, acc, prev, since>>

TimerInit ==
    /\ tmr \in 0 .. Period - 1
    /\ usec = [c \in Cpus |-> 0]
    /\ acc = [c \in Cpus |-> 0]
    /\ prev = [c \in Cpus |-> 0]
    /\ since = [c \in Cpus |-> 0]

Asleep(c) == usec[c] # 0

(* The ticks to wait: microseconds to counts.                              *)
Clk(c) == (TmrHz * usec[c]) \div UsecPerSec

(* The ticks from the last read to now; less than a period.                *)
BehindUnwrapped(c) == IF tmr < prev[c] THEN prev[c] - tmr ELSE tmr - prev[c]
Behind(c) == IF tmr < prev[c] THEN Period + tmr - prev[c] ELSE tmr - prev[c]

(* A turn of the loop takes less than the period of the timer, 4.6 seconds *)
(* at least: no interrupt is handled during a wait.                        *)
TimelyReads == \A c \in Cpus : Asleep(c) => Behind(c) < Period - 1

TimerTick ==
    /\ TimelyReads
    /\ tmr' = (tmr + 1) % Period
    /\ since' = [c \in Cpus |-> IF Asleep(c) THEN since[c] + 1 ELSE since[c]]
    /\ UNCHANGED <<usec, acc, prev>>

SleepStart(c, n) ==
    /\ ~Asleep(c)
    /\ usec' = [usec EXCEPT ![c] = n]
    /\ acc' = [acc EXCEPT ![c] = 0]
    /\ prev' = [prev EXCEPT ![c] = tmr]
    /\ since' = [since EXCEPT ![c] = 0]
    /\ UNCHANGED tmr

SleepRead(c) ==
    /\ acc[c] < Clk(c)
    /\ acc' = [acc EXCEPT ![c] = @ + Behind(c)]
    /\ prev' = [prev EXCEPT ![c] = tmr]
    /\ UNCHANGED <<tmr, usec, since>>

(* The history is cleared with the rest, so that states are few.           *)
SleepEnd(c) ==
    /\ Asleep(c) /\ acc[c] >= Clk(c)
    /\ usec' = [usec EXCEPT ![c] = 0]
    /\ acc' = [acc EXCEPT ![c] = 0]
    /\ prev' = [prev EXCEPT ![c] = 0]
    /\ since' = [since EXCEPT ![c] = 0]
    /\ UNCHANGED tmr

TimerNext ==
    \/ TimerTick
    \/ \E c \in Cpus : \/ \E n \in Nat \ {0} : SleepStart(c, n)
                       \/ SleepRead(c)
                       \/ SleepEnd(c)

TimerSpec == TimerInit /\ [][TimerNext]_timerVars

-----------------------------------------------------------------------------
(* acpi_busy_usleep returns less than one tick before the time it was      *)
(* asked for has passed (the conversion to counts rounds down), and less   *)
(* than two periods after it, across any number of wraps of the counter.   *)
SleepExact ==
    [][\A c \in Cpus : Asleep(c) /\ usec'[c] = 0 =>
           /\ TmrHz * usec[c] < (since[c] + 1) * UsecPerSec
           /\ since[c] * UsecPerSec < TmrHz * usec[c] + (2 * Period) * UsecPerSec]_timerVars
=============================================================================
