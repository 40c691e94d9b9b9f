---------------------------- MODULE IdleMonitor ----------------------------
(***************************************************************************)
(* The monitor that blanks the screen of an inactive user                  *)
(* (pitopd/idle_monitor.py), in discrete time: one tick is the shorter of  *)
(* its two cycles.  The timeout is read from the state file in each cycle; *)
(* a client can set it at any time.  pi-topd may be stopped, which leaves  *)
(* the screen lit, or crash, which leaves it as it is, and start again.    *)
(***************************************************************************)
EXTENDS Naturals

CONSTANTS
    Timeout,            \* the timeouts that can be configured, in ticks; 0 is "never"
    DefaultCycle,       \* DEFAULT_CYCLE_SLEEP_TIME in ticks
    SensitiveCycle,     \* SENSITIVE_CYCLE_SLEEP_TIME in ticks
    StartupWait,        \* startup_wait_time in ticks
    MaxIdle             \* bound: xprintidle counts no further

ASSUME IdleAssumption ==
    /\ Timeout \subseteq Nat /\ MaxIdle \in Nat
    /\ DefaultCycle \in Nat \ {0} /\ SensitiveCycle \in Nat \ {0} /\ StartupWait \in Nat
    /\ SensitiveCycle <= DefaultCycle
    /\ \A t \in Timeout : t = 0 \/ (SensitiveCycle <= t /\ t + DefaultCycle < MaxIdle)

VARIABLES
    idletime,       \* time since the user's last input, as xprintidle counts it
    timeout,        \* the configured timeout
    previous,       \* previous_idletime
    cycle,          \* _cycle_sleep_time
    timer,          \* time to the next reading
    monitoring,     \* the first reading has been made
    alive,          \* the thread has not ended
    blanked,        \* the screen is blanked, by the callbacks of the monitor
    harmless        \* since the start, which found the screen lit, no change of the timeout
                    \* has crossed the last reading

vars == <<idletime, timeout, previous, cycle, timer, monitoring, alive, blanked, harmless>>

Init ==
    /\ idletime \in 0..MaxIdle
    /\ timeout \in Timeout
    /\ previous = 0
    /\ cycle = DefaultCycle
    /\ timer = StartupWait
    /\ monitoring = FALSE
    /\ alive = TRUE
    /\ blanked = FALSE
    /\ harmless = TRUE

-----------------------------------------------------------------------------
\* Time and the user.
Tick ==
    /\ timer > 0 \/ ~alive
    /\ timer' = IF timer > 0 THEN timer - 1 ELSE 0
    /\ idletime' = IF idletime < MaxIdle THEN idletime + 1 ELSE idletime
    /\ UNCHANGED <<timeout, previous, cycle, monitoring, alive, blanked, harmless>>

UserInput ==
    /\ idletime' = 0
    /\ UNCHANGED <<timeout, previous, cycle, timer, monitoring, alive, blanked, harmless>>

\* A client's request.  It is harmless as long as the screen is on the side of the
\* new timeout on which the last reading is, and the monitor has been reading.
SetConfiguredTimeout(t) ==
    /\ timeout' = t
    /\ harmless' = (harmless /\ timeout > 0 /\ (blanked <=> t > 0 /\ previous > t))
    /\ UNCHANGED <<idletime, previous, cycle, timer, monitoring, alive, blanked>>

-----------------------------------------------------------------------------
\* One cycle of the main thread.
TimeoutExpired == idletime > timeout

FaultyTimeoutAlreadyExpired == previous >= timeout   \* fault: off by one

TimeoutAlreadyExpired == previous > timeout

IdletimeReset == idletime < previous

FaultyEmit ==   \* fault: the cycle stays the longer one
    IF TimeoutExpired /\ ~TimeoutAlreadyExpired
    THEN blanked' = TRUE /\ UNCHANGED cycle
    ELSE IF IdletimeReset /\ TimeoutAlreadyExpired
    THEN blanked' = FALSE /\ UNCHANGED cycle
    ELSE UNCHANGED <<blanked, cycle>>

Emit ==
    IF TimeoutExpired /\ ~TimeoutAlreadyExpired
    THEN blanked' = TRUE /\ cycle' = SensitiveCycle
    ELSE IF IdletimeReset /\ TimeoutAlreadyExpired
    THEN blanked' = FALSE /\ cycle' = DefaultCycle
    ELSE UNCHANGED <<blanked, cycle>>

CheckIdletime ==
    /\ alive /\ timer = 0
    /\ IF timeout > 0
       THEN Emit /\ previous' = idletime
       ELSE UNCHANGED <<previous, cycle, blanked>>
    /\ timer' = cycle'
    /\ monitoring' = TRUE
    /\ UNCHANGED <<idletime, timeout, alive, harmless>>

\* xprintidle is missing, fails or answers nonsense: the thread ends.
XprintidleFails ==
    /\ alive /\ timer = 0
    /\ alive' = FALSE
    /\ UNCHANGED <<idletime, timeout, previous, cycle, timer, monitoring, blanked, harmless>>

\* pi-topd ends, and systemd or the user starts it again: the timeout is in the
\* state file, what the monitor knew of the screen is lost.
Restart ==
    /\ previous' = 0 /\ cycle' = DefaultCycle /\ timer' = StartupWait
    /\ monitoring' = FALSE /\ alive' = TRUE
    /\ \/ blanked' = FALSE /\ harmless' = TRUE
       \/ blanked /\ blanked' = TRUE /\ harmless' = FALSE
    /\ UNCHANGED <<idletime, timeout>>

Next ==
    \/ Tick \/ UserInput \/ CheckIdletime \/ XprintidleFails \/ Restart
    \/ \E t \in Timeout : SetConfiguredTimeout(t)

Spec == Init /\ [][Next]_vars

-----------------------------------------------------------------------------
\* Type invariant.
TypeOK ==
    /\ idletime \in 0..MaxIdle /\ previous \in 0..MaxIdle
    /\ timeout \in Timeout
    /\ cycle \in {DefaultCycle, SensitiveCycle}
    /\ timer \in Nat /\ (timer <= DefaultCycle \/ timer <= StartupWait)
    /\ monitoring \in BOOLEAN /\ alive \in BOOLEAN /\ blanked \in BOOLEAN
    /\ harmless \in BOOLEAN

\* docs/more-info.md: "dim the screen backlight when the user has been inactive
\* for a configurable period" -- one cycle later at the latest, and across every
\* harmless change of the period and every restart that finds the screen lit.
DimsWhenInactive ==
    harmless /\ alive /\ monitoring /\ timeout > 0 /\ idletime > timeout + DefaultCycle => blanked

\* And only then: an active user looks at a dark screen for no longer than the
\* sensitive cycle after the first input.
DarkOnlyWhenInactive ==
    harmless /\ alive /\ blanked => timeout > 0 /\ (idletime > timeout \/ idletime <= SensitiveCycle)
=============================================================================
