------------------------------- MODULE Timers -------------------------------
(***************************************************************************)
(* What the machine timers of the harts promise their guests: a deadline is *)
(* asked for, and once the clock has reached it, the timer fires, exactly   *)
(* once, unless another deadline is asked for before.  How the CLINT and    *)
(* the run loop keep the promise is the business of Clint, which implements *)
(* this module (emulator/include/device/rv_clint.h 27-59).                  *)
(***************************************************************************)
EXTENDS Integers

CONSTANTS
    Owners,         \* one timer for each
    Deadlines       \* the instants that may be asked for

ASSUME TimersAssumption == Deadlines \subseteq Int

VARIABLES
    now,        \* the clock
    phase,      \* of each timer: "off": nothing was ever asked of it;
                \* "setting": a request is being carried out; "waiting": it
                \* stands; "fired"
    due         \* the instant asked for last

timerVars == <<now, phase, due>>

Never == -1

TimersInit ==
    /\ now \in Int
    /\ phase = [o \in Owners |-> "off"]
    /\ due = [o \in Owners |-> Never]

\* Time passes.
Advance ==
    /\ now' > now
    /\ UNCHANGED <<phase, due>>

\* A new deadline is stored; whatever was pending is no longer.
Ask(o, d) ==
    /\ phase[o] # "setting"
    /\ phase' = [phase EXCEPT ![o] = "setting"]
    /\ due' = [due EXCEPT ![o] = d]
    /\ UNCHANGED now

Settle(o) ==
    /\ phase[o] = "setting"
    /\ phase' = [phase EXCEPT ![o] = "waiting"]
    /\ UNCHANGED <<now, due>>

Fire(o) ==
    /\ phase[o] = "waiting"
    /\ now >= due[o]
    /\ phase' = [phase EXCEPT ![o] = "fired"]
    /\ UNCHANGED <<now, due>>

TimersNext ==
    \/ Advance
    \/ \E o \in Owners : (\E d \in Deadlines : Ask(o, d)) \/ Settle(o) \/ Fire(o)

TimersSafety == TimersInit /\ [][TimersNext]_timerVars

\* A request is carried out, and a deadline that has come fires.
TimersSpec ==
    /\ TimersSafety
    /\ \A o \in Owners : WF_timerVars(Settle(o)) /\ WF_timerVars(Fire(o))
=============================================================================
