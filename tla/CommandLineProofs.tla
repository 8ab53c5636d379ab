------------------------- MODULE CommandLineProofs --------------------------
(***************************************************************************)
(* Theorems about CommandLine, for any arguments, any number of them, and  *)
(* any systems.                                                            *)
(***************************************************************************)
EXTENDS CommandLine, SequenceTheorems, WellFoundedInduction, TLAPS

-----------------------------------------------------------------------------
(* The arguments, and the flags among them. *)

Arguments == Tokens \cup {Order[i] : i \in DOMAIN Order}

LEMMA LeastOfNaturals ==
  ASSUME NEW I, I \subseteq Nat, I # {}
  PROVE  Min(I) \in I /\ \A n \in I : Min(I) <= n
<1>1. PICK m \in I : \A n \in I : <<n, m>> \notin OpToRel(<, Nat)
  BY NatLessThanWellFounded, WFMin
<1>2. \A n \in I : m <= n
  <2>1. OpToRel(<, Nat) = {ss \in Nat \X Nat : ss[1] < ss[2]}
    BY Zenon DEF OpToRel
  <2>2. ASSUME NEW n \in I
        PROVE  m <= n
    <3>1. m \in Nat /\ n \in Nat
      OBVIOUS
    <3>2. <<n, m>> \notin {ss \in Nat \X Nat : ss[1] < ss[2]}
      BY <1>1, <2>1
    <3>3. QED
      BY <3>1, <3>2
  <2>3. QED
    BY <2>2
<1>3. QED
  BY <1>2 DEF Min

LEMMA LinesAreSequences == Lines \subseteq Seq(Arguments)
<1>1. ASSUME NEW m \in 0..MaxTokens
      PROVE  [1..m -> Tokens] \subseteq Seq(Arguments)
  BY SeqDef DEF Arguments
<1>2. SeqOf(Tokens, MaxTokens) \subseteq Seq(Arguments)
  BY <1>1 DEF SeqOf
<1>3. \A i \in DOMAIN Order : <<Order[i]>> \in Seq(Arguments)
  BY DEF Arguments
<1>4. QED
  BY <1>2, <1>3 DEF Lines

\* The flags stand at the beginning of the line.
LEMMA FlagsAreArguments ==
  ASSUME NEW args \in Seq(Arguments), NEW t, Contains(Flags(args), t)
  PROVE  Contains(args, t)
<1> DEFINE I == {i \in 1..Len(args) : ~IsFlag(args[i])}
           n == IF I # {} THEN Min(I) ELSE 0
<1>1. Flags(args) = IF n = 0 THEN args ELSE SubSeq(args, 1, n - 1)
  BY DEF Flags, SelectInSeq
<1>2. CASE I = {}
  BY <1>1, <1>2
<1>3. CASE I # {}
  <2>1. n \in 1..Len(args)
    <3>1. I \subseteq Nat /\ I \subseteq 1..Len(args)
      OBVIOUS
    <3> HIDE DEF I
    <3>2. QED
      BY <1>3, <3>1, LeastOfNaturals
  <2>2. Flags(args) = SubSeq(args, 1, n - 1)
    <3> HIDE DEF n
    <3>1. QED
      BY <1>1, <2>1
  <2> HIDE DEF n
  <2>3. PICK i \in 1..Len(Flags(args)) : Flags(args)[i] = t
    BY DEF Contains
  <2>4. i \in 1..Len(args) /\ args[i] = t
    <3>1. \A j \in 1..n-1 : args[j] \in Arguments
      BY <2>1
    <3>2. /\ Len(SubSeq(args, 1, n - 1)) = IF 1 <= n - 1 THEN n - 1 - 1 + 1 ELSE 0
          /\ \A j \in 1..(n - 1 - 1 + 1) : SubSeq(args, 1, n - 1)[j] = args[1 + j - 1]
      BY <2>1, <3>1, SubSeqProperties
    <3>3. QED
      BY <2>1, <2>2, <2>3, <3>2
  <2>5. QED
    BY <2>4 DEF Contains
<1>4. QED
  BY <1>2, <1>3

\* The fast path leaves no flags: the line is empty or begins with the app.
LEMMA FastPathHasNoFlags ==
  ASSUME NEW args \in Seq(Arguments), FastPath(args), NEW t
  PROVE  ~Contains(Flags(args), t)
<1> DEFINE I == {i \in 1..Len(args) : ~IsFlag(args[i])}
           n == IF I # {} THEN Min(I) ELSE 0
<1>1. Flags(args) = IF n = 0 THEN args ELSE SubSeq(args, 1, n - 1)
  BY DEF Flags, SelectInSeq
<1>2. CASE args = <<>>
  <2>1. I = {} /\ Flags(args) = args
    BY <1>1, <1>2
  <2>2. QED
    BY <1>2, <2>1 DEF Contains
<1>3. CASE args # <<>>
  <2>1. 1 \in I
    BY <1>3 DEF FastPath, IsFlag
  <2>2. n = 1
    <3>1. I \subseteq Nat /\ \A i \in I : i >= 1
      OBVIOUS
    <3> HIDE DEF I
    <3>2. Min(I) \in I /\ Min(I) <= 1
      BY <2>1, <3>1, LeastOfNaturals
    <3>3. Min(I) \in Nat /\ Min(I) >= 1
      BY <3>1, <3>2
    <3>4. \A k \in Nat : k >= 1 /\ k <= 1 => k = 1
      OBVIOUS
    <3>5. Min(I) = 1 /\ I # {}
      BY <2>1, <3>2, <3>3, <3>4
    <3>6. QED
      BY <3>5
  <2>3. Flags(args) = SubSeq(args, 1, 0)
    <3> HIDE DEF n
    <3>1. QED
      BY <1>1, <2>2
  <2>4. Len(SubSeq(args, 1, 0)) = 0
    BY SubSeqEmpty
  <2>5. QED
    BY <2>3, <2>4 DEF Contains
<1>4. QED
  BY <1>2, <1>3

-----------------------------------------------------------------------------
(* What a code of 0 says of the report. *)

LEMMA SafeStorageTells == SafeStorage.answers.roundTrip => ~SafeStorage.error
<1> DEFINE storage == CHOOSE s \in D!NewStorage("basic_text", TRUE, "") : TRUE
           cipher  == D!EncryptStringAsync(storage, "token", FALSE)
<1>1. storage.available
  <2>1. "basic_text" \in D!Backends \cup {""}
    BY DEF D!Backends
  <2>2. \E s \in D!NewStorage("basic_text", TRUE, "") : TRUE
    BY <2>1 DEF D!NewStorage
  <2>3. \A s \in D!NewStorage("basic_text", TRUE, "") : s.available
    BY <2>1 DEF D!NewStorage
  <2>4. QED
    BY <2>2, <2>3
<1> HIDE DEF storage
<1>2. cipher # <<>>
  BY <1>1 DEF D!EncryptStringAsync, D!EncryptString
<1>3. SafeStorage.error = (cipher = <<>>)
  BY DEF SafeStorage, Report, storage
<1>4. QED
  BY <1>2, <1>3

LEMMA CodeTellsTheReport ==
  ASSUME NEW flag, NEW os, NEW disk, ReportCode(flag, Check(flag, os, disk)) = 0
  PROVE  ~Check(flag, os, disk).error
<1>1. CASE flag = "safe_storage"
  <2>1. Check(flag, os, disk) = SafeStorage
    BY <1>1 DEF Check
  <2>2. QED
    BY <1>1, <2>1, SafeStorageTells DEF ReportCode
<1>2. CASE flag # "safe_storage"
  BY <1>2 DEF ReportCode
<1>3. QED
  BY <1>1, <1>2

-----------------------------------------------------------------------------
(* The invariant: what a run has done by the time it is at a place. *)

IInv ==
  /\ line \in Seq(Arguments) /\ environ \in BOOLEAN
  /\ at \in {"start", "arguments", "answer", "launch", "exited"}
  /\ at \in {"start", "arguments"} => ~environ /\ launched = <<>> /\ said = <<>>
  /\ at # "start" /\ at # "exited" => (IsChild(line) => machine.cef)
  /\ at = "answer" => environ /\ launched = <<>> /\ said = <<>>
  /\ at = "launch" => environ /\ launched # <<>> /\ said = <<>>
  /\ ExitTellsTheReport

LEMMA InvInit == Init => IInv
BY LinesAreSequences DEF Init, IInv, ExitTellsTheReport

LEMMA InvStep ==
  ASSUME IInv, [Next]_vars
  PROVE  IInv'
<1>1. CASE ExecuteSubprocess
  BY <1>1 DEF IInv, ExecuteSubprocess, Exits, ExitTellsTheReport
<1>2. CASE TakeFastPath
  <2>1. ~Contains(Flags(line), "transform")
    BY <1>2, FastPathHasNoFlags DEF IInv, TakeFastPath
  <2>2. QED
    BY <1>2, <2>1 DEF IInv, TakeFastPath, ExitTellsTheReport
<1>3. CASE ParseFlags
  <2>1. Contains(Flags(line), "transform") => Contains(line, "transform")
    BY FlagsAreArguments DEF IInv
  <2>2. QED
    <3>1. CASE BadFlags(line)
      BY <1>3, <3>1 DEF IInv, ParseFlags, Exits, ExitTellsTheReport
    <3>2. CASE ~BadFlags(line) /\ Answers(line) # <<>>
      BY <1>3, <3>2 DEF IInv, ParseFlags, ExitTellsTheReport
    <3>3. CASE ~BadFlags(line) /\ Answers(line) = <<>>
      <4>1. /\ UNCHANGED <<line, machine, said, exit>> /\ at = "arguments"
            /\ at' = "launch" /\ environ' = TRUE
            /\ launched' # <<>> /\ launched'[1].transform = Contains(line, "transform")
        BY <1>3, <3>3 DEF ParseFlags, Transform
      <4>2. QED
        BY <2>1, <4>1 DEF IInv, ExitTellsTheReport
    <3>4. QED
      BY <3>1, <3>2, <3>3
<1>4. CASE Answer
  <2> DEFINE flag == Answers(line)[1]
             report == Check(flag, machine.os, machine.disk)
  <2>1. /\ at = "answer" /\ at' = "exited"
        /\ UNCHANGED <<machine, line, environ, launched>>
    BY <1>4 DEF Answer, Exits
  <2>2. /\ exit' \in {0, 1}
        /\ \/ said' = said
           \/ /\ said' = <<[flag |-> flag, report |-> report]>>
              /\ exit' = ReportCode(flag, report)
    BY <1>4 DEF Answer, Exits, ReportCode
  <2>3. exit' = 0 /\ said' # <<>> => ~said'[1].report.error
    BY <2>1, <2>2, CodeTellsTheReport DEF IInv
  <2> HIDE DEF flag, report
  <2>4. QED
    BY <2>1, <2>2, <2>3 DEF IInv, ExitTellsTheReport
<1>5. CASE LaunchApp
  BY <1>5 DEF IInv, LaunchApp, Exits, Loadable, ExitTellsTheReport
<1>6. CASE RunWarmBenchmark
  BY <1>6 DEF IInv, RunWarmBenchmark, Exits, ExitTellsTheReport
<1>7. CASE UNCHANGED vars
  BY <1>7 DEF IInv, vars, Loadable, ExitTellsTheReport
<1>8. QED
  BY <1>1, <1>2, <1>3, <1>4, <1>5, <1>6, <1>7 DEF Next, Done

\* An exit code tells what happened: 0 hides no report with an error, 2 is a
\* run that did nothing, 78 one that lacked the native runtime; no run both
\* answers and launches (main.go: main, runArgs, the ...-check handlers).
THEOREM ExitAlwaysTells == Spec => []ExitTellsTheReport
<1>1. IInv => ExitTellsTheReport
  BY DEF IInv
<1>2. QED
  BY <1>1, InvInit, InvStep, PTL DEF Spec
=============================================================================
