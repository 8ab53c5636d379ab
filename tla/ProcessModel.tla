---------------------------- MODULE ProcessModel ----------------------------
(* What --process-model-check does with /proc: a sampler that looks for       *)
(* descendants while CEF runs, and the question at the end whether any is     *)
(* left. MainRun has the check's use of the native layer, which is one step   *)
(* here. /proc is read one name and one file at a time, while CEF's processes *)
(* fork, change what they run, end and are waited for. PIDs are not used      *)
(* again within a check.                                                      *)
EXTENDS Integers

CONSTANTS Pids,    \* the PIDs the kernel gives, 1 to some number, lower ones first
          Programs \* what processes run that have a type

VARIABLE model
-----------------------------------------------------------------------------
Root == 0    \* os.Getpid()
Reaper == -1 \* who is given orphans, and waits for them

NoProcess == [state |-> "none", parent |-> Reaper, args |-> "none"]

NoReader == [names |-> {}, stat |-> <<>>, table |-> {}, missed |-> {}, late |-> FALSE]

\* realAtStop, unseen, unlisted: a history of who was a descendant at the stop,
\* and of whom the last sample and the listing left out.
NewModel ==
    [procs |-> [p \in Pids |-> NoProcess], at |-> "running", reader |-> <<>>,
     sampler |-> "idle", seen |-> <<>>, clean |-> FALSE, realAtStop |-> {},
     unseen |-> {}, unlisted |-> {}]

Exists(m, p) == m.procs[p].state \in {"alive", "zombie"}

\* Whom f, from PIDs to parents, leads from Root to. Parents have lower PIDs.
Walk(f) ==
    LET found[p \in Pids] == /\ p \in DOMAIN f
                             /\ f[p] = Root \/ (f[p] \in Pids /\ found[f[p]])
    IN  {p \in DOMAIN f : found[p]}

\* The descendants that are found without those hidden.
Reachable(m, hidden) == Walk([p \in {q \in Pids \ hidden : Exists(m, q)} |-> m.procs[p].parent])

RealDescendants(m) == Reachable(m, {})
-----------------------------------------------------------------------------
(* The processes of CEF. *)

\* The browser process starts others only while CEF runs in it.
Fork(m, parent, p) ==
    [m EXCEPT !.procs[p] = [state |-> "alive", parent |-> parent,
                            args |-> IF parent = Root THEN "app" ELSE m.procs[parent].args]]

\* What a process runs after its fork: with a type, or some helper without.
Execute(m, p, args) == [m EXCEPT !.procs[p].args = args]

\* A zombie has no command line; its children are the reaper's.
Exit(m, p) ==
    [m EXCEPT !.procs = [q \in Pids |-> IF q = p THEN [@[p] EXCEPT !.state = "zombie", !.args = "none"]
                                        ELSE IF @[q].parent = p THEN [@[q] EXCEPT !.parent = Reaper]
                                        ELSE @[q]]]

WaitFor(m, p) == [m EXCEPT !.procs[p] = [NoProcess EXCEPT !.state = "gone"]]
-----------------------------------------------------------------------------
(* readProcTable: the names first, then of each, in the order of their texts, *)
(* the parent and the command line. A process that is gone by then is left    *)
(* out, and so is one of which either cannot be read.                         *)

Begin(m, late) ==
    [m EXCEPT !.reader = <<[NoReader EXCEPT !.late = late, !.names = {p \in Pids : Exists(m, p)}]>>]

CanRead(r, p) == p \in r.names /\ (r.stat # <<>> => r.stat[1].pid = p)

ReadNext(m, p, fails) ==
    LET r == m.reader[1]
        next == [r EXCEPT !.names = @ \ {p}, !.stat = <<>>]
    IN  [m EXCEPT !.reader[1] =
            IF fails \/ ~Exists(m, p) THEN [next EXCEPT !.missed = @ \cup {p}]
            ELSE IF r.stat = <<>> THEN [r EXCEPT !.stat = <<[pid |-> p, ppid |-> m.procs[p].parent]>>]
            ELSE [next EXCEPT !.table = @ \cup {[pid |-> p, ppid |-> r.stat[1].ppid, args |-> m.procs[p].args]}]]

\* CEFProcessTypeFromArgs, and what listDescendantProcesses calls a process
\* without a command line.
TypeOf(args) == CASE args = "none" -> "cef-child"
                  [] args = "app"  -> ""
                  [] OTHER         -> args

\* The descendants in what was read, with their types.
Listed(r) ==
    LET RowOf(p) == CHOOSE row \in r.table : row.pid = p
        parents == [p \in {row.pid : row \in r.table} |-> RowOf(p).ppid]
    IN  [p \in Walk(parents) |-> TypeOf(RowOf(p).args)]
-----------------------------------------------------------------------------
(* The sampler's goroutine: run and sample. *)

SamplerAfter(late) == IF late THEN "done" ELSE "idle"

\* /proc cannot be listed: nothing is recorded, and the sampler goes on as if.
SampleFails(m, late) == [m EXCEPT !.sampler = SamplerAfter(late),
                                  !.unseen = IF late THEN Pids ELSE {}]

\* A later look replaces an earlier one.
Sampled(m) ==
    LET found == Listed(m.reader[1]) late == m.reader[1].late IN
    [m EXCEPT !.reader = <<>>,
              !.seen = [p \in DOMAIN @ \cup DOMAIN found |->
                            IF p \in DOMAIN found THEN found[p] ELSE @[p]],
              !.sampler = SamplerAfter(late),
              !.unseen = IF late THEN m.reader[1].missed ELSE {}]

\* ProcessTypesFromObservations
Types(m) == {m.seen[p] : p \in DOMAIN m.seen} \ {""}

Stopped(m) == m.at # "running"
-----------------------------------------------------------------------------
Init == model = NewModel

\* CEF's side.
Forking ==
    \E p \in Pids, parent \in {Root} \cup Pids :
        /\ model.procs[p].state = "none" /\ \A q \in Pids : q < p => model.procs[q].state # "none"
        /\ IF parent = Root THEN model.at = "running" ELSE model.procs[parent].state = "alive"
        /\ model' = Fork(model, parent, p)
Executing ==
    \E p \in Pids, args \in Programs :
        /\ model.procs[p].state = "alive" /\ model.procs[p].args = "app"
        /\ model' = Execute(model, p, args)
Exiting == \E p \in Pids : model.procs[p].state = "alive" /\ model' = Exit(model, p)

\* A process waits for its children, Root only as long as CEF runs in it.
Waiting ==
    \E p \in Pids :
        /\ model.procs[p].state = "zombie"
        /\ model.procs[p].parent = Root => model.at = "running"
        /\ model' = WaitFor(model, p)

\* The sampler. Of a tick and the stop the select takes either; a sample begun
\* by the stop is the last.
Sample == /\ model.sampler = "idle" /\ model.reader = <<>>
          /\ \E late \in {FALSE, Stopped(model)} :
                 \/ model' = [Begin(model, late) EXCEPT !.sampler = "sampling"]
                 \/ model' = SampleFails(model, late)
Read   == /\ model.reader # <<>>
          /\ \E p \in Pids, fails \in BOOLEAN :
                 CanRead(model.reader[1], p) /\ model' = ReadNext(model, p, fails)
SampleEnds == /\ model.sampler = "sampling" /\ model.reader[1].names = {}
              /\ model' = Sampled(model)

\* stopAndReport: close(s.stop), and <-s.done, which the Faulty one forgets.
Stop == /\ model.at = "running"
        /\ model' = [model EXCEPT !.at = "stopping", !.realAtStop = RealDescendants(model)]

FaultyReport == model.at = "stopping" /\ model' = [model EXCEPT !.at = "reaping"]

Report == model.at = "stopping" /\ model.sampler = "done" /\ model' = [model EXCEPT !.at = "reaping"]

\* reapExitedChildren, until there are no children or the time is up.
ReapExitedChild ==
    \E p \in Pids : /\ model.at = "reaping"
                    /\ model.procs[p].state = "zombie" /\ model.procs[p].parent = Root
                    /\ model' = WaitFor(model, p)
ReapingEnds == model.at = "reaping" /\ model' = [Begin(model, FALSE) EXCEPT !.at = "listing"]

\* NoZombieDescendants: whoever is listed, alive or not.
Clean(m) == DOMAIN Listed(m.reader[1]) = {}

ListingEnds ==
    /\ model.at = "listing" /\ model.reader[1].names = {}
    /\ \E read \in BOOLEAN :
          model' = [model EXCEPT !.at = "reported", !.reader = <<>>, !.clean = read /\ Clean(model),
                                 !.unlisted = model.reader[1].missed]

Next == Forking \/ Executing \/ Exiting \/ Waiting \/ Sample \/ Read \/ SampleEnds \/ Stop
        \/ Report \/ ReapExitedChild \/ ReapingEnds \/ ListingEnds

Spec == Init /\ [][Next]_model
-----------------------------------------------------------------------------
\* When the report says that no descendant remained there is none, living or
\* dead, that its parents still connect with the process, but through one that
\* the listing could not read.
CleanMeansAlone ==
    model.at = "reported" /\ model.clean => Reachable(model, model.unlisted) = {}

\* Whoever was a descendant at the stop, and still is one, is in the report as
\* far as the look at /proc after the stop could read it and those before it:
\* there is such a look, and it is over before the report. Where /proc could not
\* be listed nobody is promised, and the report does not say so.
LastLookCounts ==
    model.at \in {"reaping", "listing", "reported"} =>
        model.realAtStop \cap Reachable(model, model.unseen) \subseteq DOMAIN model.seen

\* Once types have been observed some remain, though a look at a zombie
\* replaces what was known of it.
TypesRemain == Types(model) # {} => Types(model') # {}
=============================================================================
