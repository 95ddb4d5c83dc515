-------------------------------- MODULE Forking --------------------------------
(***************************************************************************)
(* fork_intro of Forking.c, processgroups of ProcessGroups.c and           *)
(* forkingandwaiting of BasicUnixSystemCalls.c: one fork() and two         *)
(* processes that print.  fork() copies what printf() has not written yet, *)
(* exit() writes what is left and _exit() does not; the parent of a        *)
(* process that ends hands its children to init.                           *)
(***************************************************************************)
EXTENDS Integers, Sequences, SequencesExt

Processes == {"parent", "child"}

VARIABLES
    demo,        \* which function runs: "intro", "groups" or "waiting"
    terminal,    \* stdout is a terminal: printf() writes every line at once
    pc,          \* process -> "off", a label, "ended" or "failed"
    ppid,        \* process -> its parent: "shell", "parent" or "init"
    saved,       \* the variable ppid of fork_intro
    stdio,       \* process -> lines in the buffer of its stdout
    out,         \* the lines that reached the output
    role         \* process -> what it prints to be, or the ppid it prints

forkVars == <<demo, terminal, pc, ppid, saved, stdio, out, role>>

Demos == {"intro", "groups", "waiting"}
Lines == {"before", "parent", "child", "reaped", "error"}
Ended(p) == pc[p] \in {"ended", "failed"}

TypeOK ==
    /\ demo \in Demos /\ terminal \in BOOLEAN
    /\ pc \in [Processes -> {"off", "before", "fork", "print", "wait", "after",
                             "exit", "ended", "failed"}]
    /\ ppid \in [Processes -> {"shell", "parent", "init"}]
    /\ saved \in {"none", "shell", "init"}
    /\ stdio \in [Processes -> Seq(Lines)] /\ out \in Seq(Lines)
    /\ role \in [Processes -> {"none", "parent", "child", "init"}]

Init ==
    /\ demo \in Demos /\ terminal \in BOOLEAN
    /\ pc = [p \in Processes |-> IF p = "child" THEN "off"
                                 ELSE IF demo = "groups" THEN "fork" ELSE "before"]
    /\ ppid = [p \in Processes |-> "shell"]
    /\ saved = "none"
    /\ stdio = [p \in Processes |-> <<>>] /\ out = <<>>
    /\ role = [p \in Processes |-> "none"]

To(p, label) == pc' = [pc EXCEPT ![p] = label]

Printf(p, line) ==
    IF terminal
    THEN out' = Append(out, line) /\ UNCHANGED stdio
    ELSE stdio' = [stdio EXCEPT ![p] = Append(@, line)] /\ UNCHANGED out

\* printf() followed by fflush(stdout), or by exit(), which does the same.
Flush(p, lines) ==
    /\ out' = out \o stdio[p] \o lines
    /\ stdio' = [stdio EXCEPT ![p] = <<>>]

\* The process that started the program ends.
ShellEnds ==
    /\ ppid["parent"] = "shell" /\ ~Ended("parent")
    /\ ppid' = [p \in Processes |-> IF ppid[p] = "shell" THEN "init" ELSE ppid[p]]
    /\ UNCHANGED <<demo, terminal, pc, saved, stdio, out, role>>

\* What is printed before the fork(): the ppid, or the three sums.
Before ==
    /\ pc["parent"] = "before"
    /\ saved' = IF demo = "intro" THEN ppid["parent"] ELSE saved
    /\ Printf("parent", "before")
    /\ To("parent", "fork")
    /\ UNCHANGED <<demo, terminal, ppid, role>>

Fork ==
    /\ pc["parent"] = "fork"
    /\ pc' = [p \in Processes |-> "print"]
    /\ ppid' = [ppid EXCEPT !["child"] = "parent"]
    /\ stdio' = [stdio EXCEPT !["child"] = stdio["parent"]]
    /\ UNCHANGED <<demo, terminal, saved, out, role>>

\* perror() does not go through stdout; exit(), or fflush() and _exit().
ForkFails ==
    /\ pc["parent"] = "fork"
    /\ Flush("parent", <<>>)
    /\ To("parent", "failed")
    /\ UNCHANGED <<demo, terminal, ppid, saved, role>>

\* A process ends and its children are given to init.
Die(p) ==
    /\ To(p, "ended")
    /\ ppid' = [q \in Processes |-> IF ppid[q] = p THEN "init" ELSE ppid[q]]

\* "a hackjob method of manually comparing against the ppid".
IsParent(p) == ppid[p] = saved

\* fork_intro: each process compares its ppid with the one saved.
Compare(p) ==
    /\ demo = "intro" /\ pc[p] = "print"
    /\ role' = [role EXCEPT ![p] = IF IsParent(p) THEN "parent" ELSE "child"]
    /\ Printf(p, role'[p])
    /\ To(p, "exit")
    /\ UNCHANGED <<demo, terminal, ppid, saved>>

\* processgroups: the child prints its ppid, the parent nothing of interest.
PrintPpid(p) ==
    /\ demo = "groups" /\ pc[p] = "print"
    /\ role' = [role EXCEPT ![p] = IF p = "child" THEN ppid[p] ELSE "parent"]
    /\ Printf(p, p)
    /\ To(p, "exit")
    /\ UNCHANGED <<demo, terminal, ppid, saved>>

\* The function returns to a main that returns, or calls exit().
Exit(p) ==
    /\ pc[p] = "exit"
    /\ Flush(p, <<>>)
    /\ Die(p)
    /\ UNCHANGED <<demo, terminal, saved, role>>

\* Mutant: the child does not flush before _exit().
ChildEndsUnflushed ==
    /\ demo = "waiting" /\ pc["child"] = "print"
    /\ Printf("child", "child")
    /\ Die("child")
    /\ UNCHANGED <<demo, terminal, saved, role>>

\* forkingandwaiting, the child: print, fflush(), sleep() and _exit().
ChildEnds ==
    /\ demo = "waiting" /\ pc["child"] = "print"
    /\ Flush("child", <<"child">>)
    /\ Die("child")
    /\ UNCHANGED <<demo, terminal, saved, role>>

ParentPrints ==
    /\ demo = "waiting" /\ pc["parent"] = "print"
    /\ Printf("parent", "parent")
    /\ To("parent", "wait")
    /\ UNCHANGED <<demo, terminal, ppid, saved, role>>

Wait ==
    /\ pc["parent"] = "wait" /\ pc["child"] = "ended"
    /\ Printf("parent", "reaped")
    /\ To("parent", "after")
    /\ UNCHANGED <<demo, terminal, ppid, saved, role>>

\* _exit() leaves what is in the buffer behind.
ExitUnflushed ==
    /\ pc["parent"] = "after"
    /\ Die("parent")
    /\ UNCHANGED <<demo, terminal, saved, stdio, out, role>>

Parent ==
    \/ Before \/ Fork \/ ForkFails \/ ParentPrints \/ Wait \/ ExitUnflushed
    \/ Compare("parent") \/ PrintPpid("parent") \/ Exit("parent")
Child == ChildEnds \/ Compare("child") \/ PrintPpid("child") \/ Exit("child")

Over == Ended("parent") /\ pc["child"] \in {"off", "ended"} /\ UNCHANGED forkVars

Next == ShellEnds \/ Parent \/ Child \/ Over

FairSpec == Init /\ [][Next]_forkVars /\ WF_forkVars(Parent) /\ WF_forkVars(Child)

-----------------------------------------------------------------------------
(* Properties. *)

Count(line) == Cardinality({k \in DOMAIN out : out[k] = line})

\* The comments have it that parent and child can be told by their ppid, and that
\* the child of processgroups sees that of init.  When that fails: the parent takes
\* itself for the child only after the program that started it has ended, the child
\* for the parent only as an orphan of a run that began as one; and an orphan's ppid
\* is init's only once the parent has ended.
Roles ==
    /\ demo = "intro" =>
         /\ role["parent"] = "child" => saved = "shell" /\ ppid["parent"] = "init"
         /\ role["child"] = "parent" => saved = "init" /\ Ended("parent")
    /\ demo = "groups" => (role["child"] = "init" => Ended("parent"))

\* The line a process of the first two functions prints about itself.
OwnLine(p) == IF demo = "intro" THEN role[p] ELSE p
Printed(p, line) == IF OwnLine(p) = line THEN 1 ELSE 0

\* At the end every line is out once on a terminal, and with exit() a process's
\* own line is out once in a file too.  In a file the line from before the fork()
\* is there twice, or, with _exit(), once, by the child, and all the lines of the
\* parent that calls _exit() are missing.
Output ==
    (Ended("parent") /\ pc["child"] = "ended") =>
        /\ Count("before") = CASE demo = "groups" -> 0
                               [] demo = "intro" /\ ~terminal -> 2
                               [] OTHER -> 1
        /\ demo # "waiting" =>
             \A line \in Processes :
                Count(line) = Printed("parent", line) + Printed("child", line)
        /\ demo = "waiting" =>
             /\ Count("child") = 1
             /\ Count("parent") = Count("reaped")
             /\ Count("reaped") = (IF terminal THEN 1 ELSE 0)
             /\ terminal => Last(out) = "reaped"

\* Both processes end, in whatever order.
BothEnd == <>(Ended("parent") /\ pc["child"] \in {"off", "ended"})
===============================================================================
