-------------------------------- MODULE Harness --------------------------------
(* tools/benchmarks, which compares what Electron and Electron-Go take on a   *)
(* fixture, and tools/conformance, which compares what they say.              *)
(* A command is a process that may start a child; the child keeps the pipe of *)
(* its output. os/exec, which is external, kills the command at its deadline  *)
(* and waits for its end, then for the pipe.                                  *)
(* A sample is whether it counts, and its duration. Memory peaks are compared *)
(* the same way and left out; an output is one of two texts. Fields that      *)
(* named real... record what the processes did, whatever a tool makes of it.  *)
EXTENDS Integers, Sequences, Functions

CONSTANTS Iterations,  \* samples the benchmark takes of each command
          Fixtures,    \* fixtures conformance compares the commands on
          Durations    \* durations in ms, 0 among them

VARIABLE bench
-----------------------------------------------------------------------------
Electron   == "electron"
ElectronGo == "electron-go"
Names      == {Electron, ElectronGo}
Other(name) == CHOOSE n \in Names : n # name

\* The order of an iteration of runAlternating, and of every other run.
InTurn(alternating, i) ==
    IF alternating /\ i % 2 = 0 THEN <<ElectronGo, Electron>> ELSE <<Electron, ElectronGo>>

\* The samples to take, oldest first: in turn, or one command after the other,
\* and none of a command that is absent or cannot be parsed.
Schedule(b) ==
    LET n == IF b.tool = "conformance" THEN Fixtures ELSE Iterations
        all == IF b.tool = "conformance" \/ b.alternating
               THEN [i \in 1..2 * n |-> InTurn(b.alternating, (i + 1) \div 2)[IF i % 2 = 1 THEN 1 ELSE 2]]
               ELSE [i \in 1..2 * n |-> IF i <= n THEN Electron ELSE ElectronGo]
    IN  SelectSeq(all, LAMBDA name : b.given[name] = "fine")

Tools == [tool : {"benchmark", "conformance"}, alternating : BOOLEAN, probe : BOOLEAN,
          given : [Names -> {"absent", "malformed", "fine"}]]

\* conformance ends at once unless it can run both commands, always in turn.
Usable(t) == t.tool = "conformance" =>
                 ~t.alternating /\ ~t.probe /\ \A n \in Names : t.given[n] = "fine"

Started(t) == [tool |-> t.tool, alternating |-> t.alternating, probe |-> t.probe,
               given |-> t.given, todo |-> Schedule(t), run |-> <<>>,
               samples |-> [n \in Names |-> <<>>], compared |-> <<>>, realStrays |-> FALSE]
-----------------------------------------------------------------------------
(* The command, its child and os/exec. *)

Command(name, alone) ==
    [name |-> name, root |-> "running", code |-> -1, said |-> "", time |-> 0, child |-> "none",
     expired |-> FALSE, signalled |-> FALSE, reaped |-> FALSE, done |-> <<>>,
     realAlone |-> alone]

\* What becomes of the command goes into the run in progress.
Run(b)       == b.run[1]
Running(b)   == b.run # <<>>
With(b, r)   == [b EXCEPT !.run = <<r>>]
Ended(r)     == r.root \in {"exited", "killed"}

Forks(b) == With(b, [Run(b) EXCEPT !.child = "running"])
Exits(b, code, said, time) ==
    With(b, [Run(b) EXCEPT !.root = "exited", !.code = code, !.said = said, !.time = time])
ChildEnds(b) == With(b, [Run(b) EXCEPT !.child = "gone"])

\* The deadline of the context. Once it has passed, until the command is
\* reaped, exec calls Cancel: the benchmark's kills the command, conformance's
\* the group it leads, and says that it did even if the command had ended.
Expires(b) == With(b, [Run(b) EXCEPT !.expired = TRUE])

TerminateCommandGroup(b, r) ==
    IF b.tool = "conformance" /\ r.child = "running" THEN "gone" ELSE r.child

Cancels(b) ==
    LET r == Run(b) IN
    With(b, [r EXCEPT !.signalled = TRUE, !.child = TerminateCommandGroup(b, r),
                      !.root = IF r.root = "running" THEN "killed" ELSE r.root])

\* When both the end and the deadline are there, exec may still call Cancel:
\* the benchmark's then fails, conformance's kills what is left of the group.
Reaps(b, late) ==
    LET r == Run(b) IN
    With(b, [r EXCEPT !.reaped = TRUE, !.signalled = @ \/ late,
                      !.child = IF late THEN TerminateCommandGroup(b, r) ELSE @])

\* Wait goes on to wait for the pipe: WaitDelay at most, which is zero, for
\* ever, in the benchmark.
WaitDelay(b) == b.tool = "conformance"

\* The error of Wait: the command's, the context's, or that of the pipe.
WaitError(r) ==
    IF r.code # 0 THEN "exit status"
    ELSE IF r.signalled THEN "deadline exceeded"
    ELSE IF r.child = "running" THEN "wait delay" ELSE ""

Waits(b) == With(b, [Run(b) EXCEPT !.done = <<WaitError(Run(b))>>])
-----------------------------------------------------------------------------
(* The tools. *)

\* Whoever of the command is alive when its sample is taken is left behind.
Over(b) ==
    [b EXCEPT !.run = <<>>,
              !.realStrays = b.realStrays \/ ~Ended(Run(b)) \/ Run(b).child = "running"]

\* What summarize counts as a success.
Counts(r, exit, err) == exit = 0 /\ err = "" /\ ~r.expired

\* The rest of runSample. The deadline is looked at again.
Sampled(b, exit, err) ==
    LET r == Run(b)
        ok == Counts(r, exit, err)
        s == [ok |-> ok, time |-> IF ok THEN r.time ELSE 0,
              realEnd |-> r.root = "exited" /\ r.code = 0 /\ r.child # "running" /\ r.realAlone]
    IN  [Over(b) EXCEPT !.samples[r.name] = Append(@, s)]

\* The exit code when the probe has left Wait behind, which may be writing the
\* process state while it is read: a data race, and the code may be missing.
ExitCodes(r) == {-1} \cup (IF Ended(r) THEN {r.code} ELSE {})

\* The result of runFixtureCommand, and what the process really did.
Result(r) == [code |-> r.code, said |-> r.said, timedOut |-> r.expired, err |-> r.done[1],
              realCode |-> IF r.root = "exited" THEN r.code ELSE -1, realSaid |-> r.said,
              realEnd |-> r.root = "exited" /\ r.child # "running"]

Matches(a, b) ==
    a.code = b.code /\ a.said = b.said /\ a.timedOut = b.timedOut /\ a.err = b.err

\* compareResults is called when both commands have run on the fixture.
Compared(b) ==
    LET r == Run(b)
        n == Other(r.name)
        mine == Result(r)
    IN  IF Len(b.samples[n]) = Len(b.samples[r.name])
        THEN [Over(b) EXCEPT !.samples[r.name] = Append(@, mine)]
        ELSE LET his == b.samples[n][Len(b.samples[n])] IN
             [Over(b) EXCEPT !.samples[r.name] = Append(@, mine),
                             !.compared = Append(@, Matches(his, mine))]

Takes(b, exit, err) == IF b.tool = "benchmark" THEN Sampled(b, exit, err) ELSE Compared(b)
-----------------------------------------------------------------------------
Init == \E t \in Tools : Usable(t) /\ bench = Started(t)

\* The process does as it likes.
Forking  == /\ Running(bench) /\ Run(bench).root = "running" /\ Run(bench).child = "none"
            /\ bench' = Forks(bench)
Exiting  == /\ Running(bench) /\ Run(bench).root = "running"
            /\ \E code \in {0, 1}, said \in {"", "x"}, time \in Durations :
                   /\ IF bench.tool = "benchmark" THEN said = "" ELSE time = 0
                   /\ bench' = Exits(bench, code, said, time)
ChildEnding == /\ Running(bench) /\ Run(bench).child = "running"
               /\ bench' = ChildEnds(bench)
StraysEnding == bench.realStrays /\ bench' = [bench EXCEPT !.realStrays = FALSE]

Expiring == Running(bench) /\ ~Run(bench).expired /\ bench' = Expires(bench)

Cancelling == /\ Running(bench) /\ Run(bench).expired /\ ~Run(bench).signalled /\ ~Run(bench).reaped
              /\ bench' = Cancels(bench)
Reaping == /\ Running(bench) /\ Ended(Run(bench)) /\ ~Run(bench).reaped
           /\ \E late \in {FALSE, Run(bench).expired /\ ~Run(bench).signalled /\ bench.tool = "conformance"} :
                  bench' = Reaps(bench, late)
Waiting == /\ Running(bench) /\ Run(bench).reaped /\ Run(bench).done = <<>>
           /\ Run(bench).child # "running" \/ WaitDelay(bench)
           /\ bench' = Waits(bench)

NotStarted(name) == [Command(name, TRUE) EXCEPT !.root = "killed", !.done = <<"no start">>]
StartFails == /\ ~Running(bench) /\ bench.todo # <<>>
              /\ bench' = Takes([bench EXCEPT !.todo = Tail(@), !.run = <<NotStarted(Head(bench.todo))>>],
                                -1, "no start")

Starting == /\ ~Running(bench) /\ bench.todo # <<>>
            /\ bench' = [bench EXCEPT !.todo = Tail(@),
                                      !.run = <<Command(Head(bench.todo), ~bench.realStrays)>>]

\* done is ready; with a probe the select may take it.
TakesDone == /\ Running(bench) /\ Run(bench).done # <<>>
             /\ bench' = Takes(bench, Run(bench).code, Run(bench).done[1])

\* The deadline is ready, and only a probe looks at it: the process may run,
\* and Wait may wait, for some time yet.
TakesDeadline == /\ Running(bench) /\ bench.probe /\ Run(bench).expired
                 /\ \E exit \in ExitCodes(Run(bench)) :
                        bench' = Takes(bench, exit, "deadline exceeded")

Exec == Cancelling \/ Reaping \/ Waiting \/ TakesDone \/ TakesDeadline

Next == Forking \/ Exiting \/ ChildEnding \/ StraysEnding \/ Expiring \/ StartFails \/ Starting
        \/ Exec

Spec == Init /\ [][Next]_bench
-----------------------------------------------------------------------------
(* The verdicts. *)
Finished == ~Running(bench) /\ bench.todo = <<>>

Successes(b, name) == SelectSeq(b.samples[name], LAMBDA s : s.ok)
Total(samples) == FoldFunction(LAMBDA s, sum : s.time + sum, 0, samples)

\* Of up to two durations the median is half their sum, rounded down.
Median(samples) == IF samples = <<>> THEN 0 ELSE Total(samples) \div Len(samples)

\* A command that could not be parsed has failed as often as it should have
\* run; one that is absent is not in the results.
Failed(b, name) ==
    \/ b.given[name] = "malformed"
    \/ b.given[name] = "fine" /\ Len(Successes(b, name)) # Iterations

\* validateRequiredFaster, validateRequiredRatios with a ratio of one: all of
\* the results, then the comparison, which needs both medians.
GatePasses(b, gate) ==
    LET e == Median(Successes(b, Electron))
        g == Median(Successes(b, ElectronGo))
    IN  /\ \A name \in Names : ~Failed(b, name)
        /\ e > 0 /\ g > 0
        /\ IF gate = "faster" THEN g < e ELSE g <= e

\* A claim of speed that passes its gate rests on every run of both commands:
\* each ended well by itself, left nobody behind and ran beside nobody an
\* earlier one had left; and the sum of the times bears it out.
ClaimsAreFounded ==
    \A gate \in {"faster", "ratio"} :
        Finished /\ bench.tool = "benchmark" /\ GatePasses(bench, gate) =>
            /\ \A n \in Names : /\ Len(bench.samples[n]) = Iterations
                                /\ \A i \in 1..Iterations : bench.samples[n][i].realEnd
            /\ gate = "faster" => Total(bench.samples[ElectronGo]) < Total(bench.samples[Electron])

\* Two runs that match, neither in time nor in error, ended by themselves alike.
MatchesAreTrue ==
    \A i \in DOMAIN bench.compared :
        LET e == bench.samples[Electron][i]
            g == bench.samples[ElectronGo][i]
        IN  bench.compared[i] /\ e.err = "" /\ ~e.timedOut =>
                /\ e.realEnd /\ g.realEnd /\ g.err = "" /\ ~g.timedOut
                /\ e.realCode = g.realCode /\ e.realSaid = g.realSaid

\* In alternating order neither command gets ahead of the other.
TakesTurns ==
    (bench.tool = "conformance" \/ bench.alternating) /\ (\A n \in Names : bench.given[n] = "fine") =>
        Len(bench.samples[Electron]) - Len(bench.samples[ElectronGo]) \in {-1, 0, 1}

\* Whatever children do: once the deadline has passed the tool gets on by
\* itself. The benchmark does so only with a probe; without one it waits for
\* the pipe as long as a child keeps it.
DeadlineHolds ==
    Running(bench) /\ Run(bench).expired /\ (bench.probe \/ bench.tool = "conformance") =>
        ENABLED Exec
=============================================================================
