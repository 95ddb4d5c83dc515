------------------------------ MODULE MCPrograms ------------------------------
(***************************************************************************)
(* The programs of MCIpc, whose processes share an object of the kernel,   *)
(* and those of MCThreads, whose threads share their memory, under one     *)
(* configuration file: the initial state chooses of which kind the program *)
(* is, and the variables of the other kind keep their initial values.      *)
(***************************************************************************)
EXTENDS MCIpc, MCThreads

VARIABLE kind     \* "processes" or "threads"

allVars == <<kind, ipcVars, threadVars>>

ProgramsInit ==
    /\ kind \in {"processes", "threads"}
    /\ IpcInit /\ ThreadsInit
    /\ IF kind = "processes" THEN threadProgram = "mutex" ELSE program = "pipe"

ProcessesOnly(step) == kind = "processes" /\ step /\ UNCHANGED <<kind, threadVars>>
ThreadsOnly(step) == kind = "threads" /\ step /\ UNCHANGED <<kind, ipcVars>>

ProgramsNext == ProcessesOnly(IpcNext) \/ ThreadsOnly(ThreadsNext)

\* The fairness of IpcSpec and of ThreadsSpec.
ProgramsSpec ==
    /\ ProgramsInit /\ [][ProgramsNext]_allVars
    /\ WF_allVars(ProcessesOnly(MainStep) \/ ThreadsOnly(MainOfOne))
    /\ WF_allVars(ProcessesOnly(OtherStep))
    /\ \A r \in Runs : WF_allVars(ProcessesOnly(RunStep(r)))
    /\ \A t \in Threads : WF_allVars(ThreadsOnly(RoutineOfOne(t)))

-----------------------------------------------------------------------------
\* Every program ends, or goes on, as IpcEnds and ProgramEnds say.
ProgramsEnd ==
    /\ kind = "processes" => IpcEnds
    /\ kind = "threads" => ProgramEnds
===============================================================================
