------------------------------ MODULE AlarmSignal ------------------------------
(***************************************************************************)
(* AlarmSignal.c: the timer is set before the handler is installed, the    *)
(* handler sets it again, and main sleeps in pause().  SIGALRM is blocked  *)
(* while its handler runs, and one that comes meanwhile stays pending.     *)
(***************************************************************************)
EXTENDS Integers

CONSTANTS Delay      \* the argument of alarm(), 5 in the code

Off == -1            \* no timer is set

VARIABLES
    main,        \* "alarm", "sigaction", "pause", "killed"
    timer,       \* time left, or Off
    pendingAlarm,
    handler      \* "out", "alarm", "print": where sigalrm() is

alarmVars == <<main, timer, pendingAlarm, handler>>

TypeOK ==
    /\ main \in {"alarm", "sigaction", "pause", "killed"}
    /\ timer \in Off..Delay
    /\ pendingAlarm \in BOOLEAN
    /\ handler \in {"out", "alarm", "print"}

Init == main = "alarm" /\ timer = Off /\ pendingAlarm = FALSE /\ handler = "out"

Alarm ==
    /\ main = "alarm"
    /\ timer' = Delay
    /\ main' = "sigaction"
    /\ UNCHANGED <<pendingAlarm, handler>>

Sigaction ==
    /\ main = "sigaction"
    /\ main' = "pause"
    /\ UNCHANGED <<timer, pendingAlarm, handler>>

\* Time passes, and the process may be slower than the timer.
Tick ==
    /\ timer > 0 /\ main # "killed"
    /\ \E left \in 0..(timer - 1) :
         /\ timer' = IF left = 0 THEN Off ELSE left
         /\ pendingAlarm' = (pendingAlarm \/ left = 0)
    /\ UNCHANGED <<main, handler>>

\* Without a handler SIGALRM ends the process; a signal still on its way when
\* sigaction() returns meets the handler.
Deliver ==
    /\ pendingAlarm /\ handler = "out"
    /\ pendingAlarm' = FALSE
    /\ IF main = "pause"
       THEN handler' = "alarm" /\ UNCHANGED main
       ELSE main' = "killed" /\ UNCHANGED handler
    /\ UNCHANGED timer

\* Mutant: the handler does not set the timer again.
HandlerAlarmOnce ==
    /\ handler = "alarm"
    /\ handler' = "print"
    /\ UNCHANGED <<main, timer, pendingAlarm>>

HandlerAlarm ==
    /\ handler = "alarm"
    /\ timer' = Delay
    /\ handler' = "print"
    /\ UNCHANGED <<main, pendingAlarm>>

\* printf() and the return; pause() returns too and is called again.
HandlerPrint ==
    /\ handler = "print"
    /\ handler' = "out"
    /\ UNCHANGED <<main, timer, pendingAlarm>>

\* The clock runs and the process is scheduled.
Process == Alarm \/ Sigaction \/ Deliver \/ HandlerAlarm \/ HandlerPrint
Over == main = "killed" /\ UNCHANGED alarmVars
Next == Process \/ Tick \/ Over
FairSpec == Init /\ [][Next]_alarmVars /\ WF_alarmVars(Process) /\ WF_alarmVars(Tick)

-----------------------------------------------------------------------------
(* Properties. *)

\* No alarm is forgotten: there is always a timer, a signal on its way, or a
\* handler about to set the timer.
Armed == main = "pause" => (timer > 0 \/ pendingAlarm \/ handler = "alarm")

\* "let us know everytime 5 seconds passes": the message is printed again and
\* again, unless the first alarm comes before its handler and ends the process.
KeepsTicking == []<>(handler = "print" \/ main = "killed")
===============================================================================
