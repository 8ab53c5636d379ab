---------------------------- MODULE CefFetchProofs ----------------------------
(***************************************************************************)
(* Theorems about the fetcher, for any versions, files and order of them,  *)
(* and any number of runs.                                                 *)
(***************************************************************************)
EXTENDS CefFetch, TLAPS

-----------------------------------------------------------------------------
(* Lists of files. *)

\* The first file of a list, and those left when it is done.
LEMMA FilesLeft ==
  ASSUME NEW s \in Seq(Range(Files)), s # <<>>
  PROVE  /\ Head(s) \in Range(Files) /\ Head(s) \in Range(s)
         /\ Tail(s) \in Seq(Range(Files))
         /\ Range(s) \subseteq {Head(s)} \cup Range(Tail(s))
<1>1. Head(s) \in Range(Files) /\ Tail(s) \in Seq(Range(Files))
  OBVIOUS
<1>2. Head(s) \in Range(s)
  BY DEF Range
<1>3. ASSUME NEW i \in DOMAIN s PROVE s[i] \in {Head(s)} \cup Range(Tail(s))
  <2>1. CASE i = 1
    BY <2>1
  <2>2. CASE i # 1
    <3>1. i - 1 \in DOMAIN Tail(s) /\ Tail(s)[i - 1] = s[i]
      BY <2>2
    <3>2. QED
      BY <3>1 DEF Range
  <2>3. QED
    BY <2>1, <2>2
<1>4. QED
  BY <1>1, <1>2, <1>3 DEF Range

\* A list that is done.
LEMMA NoFilesLeft == Range(<<>>) = {}
  BY DEF Range

\* Every archive has Libcef.
LEMMA LibcefIsAFile == Libcef \in Range(Files)
  BY FileAssumption

-----------------------------------------------------------------------------
(* The inductive invariant. *)

\* A run that downloads has found no Libcef.
NotThere ==
  pc \in {"download", "receive", "verify"} =>
    trees[wanted][Libcef] = "missing"

\* A run that extracts has yet to extract what is not whole.
Progress ==
  (Extracting /\ wanted \in Checked) =>
    \A f \in Range(Files) : trees[wanted][f] = "whole" \/ f \in Range(todo)

\* A run past the extraction has Libcef.
There ==
  (pc \in {"link", "symlink", "stage", "copy", "copying", "clean", "success"}
     /\ wanted \in Checked) => trees[wanted][Libcef] # "missing"

\* A directory that is taken for extracted is, unless its extraction was cut
\* short or is going on.
TreesAreWhole ==
  \A v \in Checked \ interrupted :
    (trees[v][Libcef] # "missing" /\ ~(Extracting /\ wanted = v)) =>
      \A f \in Range(Files) : trees[v][f] = "whole"

\* The link leads to Libcef and away from a directory being extracted.
LinkIsGood ==
  current \in Checked =>
    trees[current][Libcef] # "missing" /\ ~(Extracting /\ wanted = current)

\* A run that stages has yet to copy what is not whole in bin.
CopyProgress ==
  (pc \in {"copy", "copying"} /\ wanted \in Checked \ interrupted) =>
    \A f \in Range(Files) : bin[f] = <<wanted, "whole">> \/ f \in Range(todo)

CopyDone ==
  staged =>
    /\ pc \in {"clean", "success"}
    /\ wanted \in Checked \ interrupted =>
         \A f \in Range(Files) : bin[f] = <<wanted, "whole">>

IInv ==
  /\ TypeOK /\ OnlyVerifiedFiles
  /\ NotThere /\ Progress /\ There /\ TreesAreWhole /\ LinkIsGood
  /\ CopyProgress /\ CopyDone

-----------------------------------------------------------------------------
(* Initially. *)

\* Before the first run there is nothing.
LEMMA InitHolds == Init => IInv
<1> SUFFICES ASSUME Init PROVE IInv
  OBVIOUS
<1>1. TypeOK
  <2>1. /\ archives \in [Versions -> Contents \cup {"missing"}]
        /\ trees \in [Versions -> [Range(Files) -> Contents \cup {"missing"}]]
        /\ dirs \in [Versions -> SUBSET Directories]
        /\ bin \in [Range(Files) -> (Versions \X Contents) \cup {None}]
    BY DEF Init
  <2>2. todo \in Seq(Range(Files))
    BY DEF Init
  <2>3. QED
    BY <2>1, <2>2 DEF Init, TypeOK, Steps, Extracting
<1>2. OnlyVerifiedFiles
  BY VersionAssumption, NoneAssumption DEF Init, OnlyVerifiedFiles, Contents
<1>3. TreesAreWhole
  BY VersionAssumption, LibcefIsAFile DEF Init, TreesAreWhole
<1>4. LinkIsGood
  BY VersionAssumption, NoneAssumption DEF Init, LinkIsGood
<1>5. NotThere /\ Progress /\ There /\ CopyProgress /\ CopyDone
  BY DEF Init, NotThere, Progress, There, CopyProgress, CopyDone, Extracting
<1>6. QED
  BY <1>1, <1>2, <1>3, <1>4, <1>5 DEF IInv

-----------------------------------------------------------------------------
(* Every step keeps each part. *)

\* Types are kept; Verify is the way into the extraction.
LEMMA TypeStep == TypeOK /\ [Next]_vars => TypeOK'
<1> SUFFICES ASSUME TypeOK, [Next]_vars PROVE TypeOK'
  OBVIOUS
<1> USE DEF TypeOK, Contents, Steps, Extracting, Directories, files
<1>1. CASE UNCHANGED vars
  BY <1>1 DEF vars
<1>2. ASSUME NEW v \in Versions, Start(v) PROVE TypeOK'
  BY <1>2 DEF Start, Reusable
<1>3. CASE CreateArchive
  BY <1>3 DEF CreateArchive
<1>4. CASE Receive
  BY <1>4 DEF Receive
<1>5. CASE Verify
  BY <1>5, FileAssumption, VersionAssumption DEF Verify, Mismatch
<1>6. CASE MakeDirectory
  BY <1>6, FilesLeft DEF MakeDirectory, DirectoryOf
<1>7. CASE OpenFile
  BY <1>7, FilesLeft DEF OpenFile
<1>8. CASE WriteFile
  BY <1>8, FilesLeft DEF WriteFile
<1>9. CASE EndOfArchive
  BY <1>9 DEF EndOfArchive
<1>10. CASE RemoveLink
  BY <1>10 DEF RemoveLink
<1>11. CASE MakeLink
  BY <1>11 DEF MakeLink
<1>12. CASE LeaveLink
  BY <1>12 DEF LeaveLink
<1>13. CASE Stage
  BY <1>13, FileAssumption DEF Stage
<1>14. CASE SkipFile
  BY <1>14, FilesLeft DEF SkipFile, IsThere
<1>15. CASE OpenCopy
  BY <1>15, FilesLeft DEF OpenCopy, IsThere
<1>16. CASE WriteCopy
  BY <1>16, FilesLeft DEF WriteCopy
<1>17. CASE EndOfStage
  BY <1>17 DEF EndOfStage
<1>18. CASE LeaveBin
  BY <1>18 DEF LeaveBin
<1>19. CASE Clean
  BY <1>19 DEF Clean
<1>20. CASE Exit
  BY <1>20 DEF Exit
<1>21. CASE Stop
  <2>1. interrupted' \subseteq Versions
    BY <1>21 DEF Stop
  <2>2. /\ pc' = "idle" /\ wanted' = None
        /\ fresh' = FALSE /\ staged' = FALSE
        /\ UNCHANGED <<archives, trees, dirs, current, bin>>
    BY <1>21 DEF Stop
  <2>3. todo' \in Seq(Range(Files))
    BY <1>21 DEF Stop
  <2>4. QED
    BY <2>1, <2>2, <2>3
<1>22. QED
  BY <1>1, <1>2, <1>3, <1>4, <1>5, <1>6, <1>7, <1>8, <1>9, <1>10, <1>11,
     <1>12, <1>13, <1>14, <1>15, <1>16, <1>17, <1>18, <1>19, <1>20, <1>21
  DEF Next

\* No step lets an unverified file in.
LEMMA VerifiedStep ==
  TypeOK /\ OnlyVerifiedFiles /\ [Next]_vars => OnlyVerifiedFiles'
<1> SUFFICES ASSUME TypeOK, OnlyVerifiedFiles, [Next]_vars
             PROVE  OnlyVerifiedFiles'
  OBVIOUS
<1> USE DEF OnlyVerifiedFiles, TypeOK, files, Extracting
<1>1. CASE UNCHANGED vars
  BY <1>1 DEF vars
<1>2. ASSUME NEW v \in Versions, Start(v) PROVE OnlyVerifiedFiles'
  BY <1>2 DEF Start, Reusable
<1>3. CASE OpenFile
  BY <1>3, FilesLeft DEF OpenFile
<1>4. CASE WriteFile
  BY <1>4, FilesLeft DEF WriteFile
<1>5. CASE OpenCopy
  BY <1>5, FilesLeft DEF OpenCopy, IsThere
<1>6. CASE WriteCopy
  BY <1>6, FilesLeft DEF WriteCopy
<1>7. CASE CreateArchive \/ Receive \/ Verify \/ MakeDirectory \/ EndOfArchive \/
         RemoveLink \/ MakeLink \/ LeaveLink \/ Stage \/ SkipFile \/
         EndOfStage \/ LeaveBin \/ Clean \/ Exit \/ Stop
  BY <1>7
  DEF CreateArchive, Receive, Verify, Mismatch, MakeDirectory, EndOfArchive,
      RemoveLink, MakeLink, LeaveLink, Stage, SkipFile, IsThere, EndOfStage,
      LeaveBin, Clean, Exit, Stop
<1>8. QED
  BY <1>1, <1>2, <1>3, <1>4, <1>5, <1>6, <1>7 DEF Next

\* A download is not started, or gone on with, once Libcef is there.
LEMMA NotThereStep ==
  TypeOK /\ NotThere /\ [Next]_vars => NotThere'
<1> SUFFICES ASSUME TypeOK, NotThere, [Next]_vars PROVE NotThere'
  OBVIOUS
<1> USE DEF NotThere, TypeOK, files, Extracting
<1>1. CASE UNCHANGED vars
  BY <1>1 DEF vars
<1>2. ASSUME NEW v \in Versions, Start(v) PROVE NotThere'
  BY <1>2 DEF Start, Reusable
<1>3. CASE CreateArchive
  BY <1>3 DEF CreateArchive
<1>4. CASE Receive
  BY <1>4 DEF Receive
<1>5. CASE Verify \/ MakeDirectory \/ OpenFile \/ WriteFile \/ EndOfArchive \/
         RemoveLink \/ MakeLink \/ LeaveLink \/ Stage \/ SkipFile \/
         OpenCopy \/ WriteCopy \/ EndOfStage \/ LeaveBin \/ Clean \/ Exit \/
         Stop
  BY <1>5
  DEF Verify, Mismatch, MakeDirectory, OpenFile, WriteFile, EndOfArchive,
      RemoveLink, MakeLink, LeaveLink, Stage, SkipFile, IsThere, OpenCopy,
      WriteCopy, EndOfStage, LeaveBin, Clean, Exit, Stop
<1>6. QED
  BY <1>1, <1>2, <1>3, <1>4, <1>5 DEF Next

\* Extraction takes the files in order and leaves none out.
LEMMA ProgressStep ==
  TypeOK /\ Progress /\ [Next]_vars => Progress'
<1> SUFFICES ASSUME TypeOK, Progress, [Next]_vars PROVE Progress'
  OBVIOUS
<1> USE DEF Progress, TypeOK, files, Extracting
<1>1. CASE UNCHANGED vars
  BY <1>1 DEF vars
<1>2. ASSUME NEW v \in Versions, Start(v) PROVE Progress'
  BY <1>2 DEF Start, Reusable
<1>3. CASE OpenFile
  BY <1>3, FilesLeft DEF OpenFile
<1>4. CASE WriteFile
  BY <1>4, FilesLeft DEF WriteFile
<1>5. CASE CreateArchive \/ Receive \/ Verify \/ MakeDirectory \/ EndOfArchive \/
         RemoveLink \/ MakeLink \/ LeaveLink \/ Stage \/ SkipFile \/
         OpenCopy \/ WriteCopy \/ EndOfStage \/ LeaveBin \/ Clean \/ Exit \/
         Stop
  BY <1>5
  DEF CreateArchive, Receive, Verify, Mismatch, MakeDirectory, EndOfArchive,
      RemoveLink, MakeLink, LeaveLink, Stage, SkipFile, IsThere, OpenCopy,
      WriteCopy, EndOfStage, LeaveBin, Clean, Exit, Stop
<1>6. QED
  BY <1>1, <1>2, <1>3, <1>4, <1>5 DEF Next

\* No run gets past the extraction without Libcef.
LEMMA ThereStep ==
  TypeOK /\ Progress /\ There /\ [Next]_vars => There'
<1> SUFFICES ASSUME TypeOK, Progress, There, [Next]_vars PROVE There'
  OBVIOUS
<1> USE DEF There, Progress, TypeOK, files, Extracting
<1>1. CASE UNCHANGED vars
  BY <1>1 DEF vars
<1>2. ASSUME NEW v \in Versions, Start(v) PROVE There'
  BY <1>2 DEF Start, Reusable
<1>3. CASE OpenFile
  BY <1>3 DEF OpenFile
<1>4. CASE WriteFile
  BY <1>4 DEF WriteFile
<1>5. CASE EndOfArchive
  BY <1>5, NoFilesLeft, LibcefIsAFile DEF EndOfArchive
<1>6. CASE CreateArchive \/ Receive \/ Verify \/ MakeDirectory \/ RemoveLink \/
         MakeLink \/ LeaveLink \/ Stage \/ SkipFile \/ OpenCopy \/ WriteCopy \/
         EndOfStage \/ LeaveBin \/ Clean \/ Exit \/ Stop
  BY <1>6
  DEF CreateArchive, Receive, Verify, Mismatch, MakeDirectory, RemoveLink,
      MakeLink, LeaveLink, Stage, SkipFile, IsThere, OpenCopy, WriteCopy,
      EndOfStage, LeaveBin, Clean, Exit, Stop
<1>7. QED
  BY <1>1, <1>2, <1>3, <1>4, <1>5, <1>6 DEF Next

\* A directory becomes whole when its extraction ends, and stays so.
LEMMA TreesStep ==
  TypeOK /\ Progress /\ TreesAreWhole /\ [Next]_vars => TreesAreWhole'
<1> SUFFICES ASSUME TypeOK, Progress, TreesAreWhole, [Next]_vars
             PROVE  TreesAreWhole'
  OBVIOUS
<1> USE DEF TreesAreWhole, Progress, TypeOK, files, Extracting
<1>1. CASE UNCHANGED vars
  BY <1>1 DEF vars
<1>2. ASSUME NEW v \in Versions, Start(v) PROVE TreesAreWhole'
  BY <1>2 DEF Start, Reusable
<1>3. CASE Verify
  BY <1>3 DEF Verify, Mismatch
<1>4. CASE OpenFile
  BY <1>4 DEF OpenFile
<1>5. CASE WriteFile
  BY <1>5 DEF WriteFile
<1>6. CASE EndOfArchive
  BY <1>6, NoFilesLeft DEF EndOfArchive
<1>7. CASE Stop
  BY <1>7 DEF Stop
<1>8. CASE CreateArchive \/ Receive \/ MakeDirectory \/ RemoveLink \/ MakeLink \/
         LeaveLink \/ Stage \/ SkipFile \/ OpenCopy \/ WriteCopy \/
         EndOfStage \/ LeaveBin \/ Clean \/ Exit
  BY <1>8
  DEF CreateArchive, Receive, MakeDirectory, RemoveLink, MakeLink, LeaveLink,
      Stage, SkipFile, IsThere, OpenCopy, WriteCopy, EndOfStage, LeaveBin,
      Clean, Exit
<1>9. QED
  BY <1>1, <1>2, <1>3, <1>4, <1>5, <1>6, <1>7, <1>8 DEF Next

\* The link is only made past the extraction.
LEMMA LinkStep ==
  TypeOK /\ NotThere /\ There /\ LinkIsGood /\ [Next]_vars => LinkIsGood'
<1> SUFFICES ASSUME TypeOK, NotThere, There, LinkIsGood, [Next]_vars
             PROVE  LinkIsGood'
  OBVIOUS
<1> USE DEF LinkIsGood, NotThere, There, TypeOK, files, Extracting
<1>1. CASE UNCHANGED vars
  BY <1>1 DEF vars
<1>2. ASSUME NEW v \in Versions, Start(v) PROVE LinkIsGood'
  BY <1>2 DEF Start, Reusable
<1>3. CASE Verify
  BY <1>3 DEF Verify, Mismatch
<1>4. CASE OpenFile
  BY <1>4 DEF OpenFile
<1>5. CASE WriteFile
  BY <1>5 DEF WriteFile
<1>6. CASE RemoveLink
  BY <1>6, NoneAssumption, VersionAssumption DEF RemoveLink
<1>7. CASE MakeLink
  BY <1>7 DEF MakeLink
<1>8. CASE CreateArchive \/ Receive \/ MakeDirectory \/ EndOfArchive \/
         LeaveLink \/ Stage \/ SkipFile \/ OpenCopy \/ WriteCopy \/
         EndOfStage \/ LeaveBin \/ Clean \/ Exit \/ Stop
  BY <1>8
  DEF CreateArchive, Receive, MakeDirectory, EndOfArchive, LeaveLink, Stage,
      SkipFile, IsThere, OpenCopy, WriteCopy, EndOfStage, LeaveBin, Clean,
      Exit, Stop
<1>9. QED
  BY <1>1, <1>2, <1>3, <1>4, <1>5, <1>6, <1>7, <1>8 DEF Next

\* Staging takes the files in order and leaves none of a whole directory out.
LEMMA CopyStep ==
  TypeOK /\ There /\ TreesAreWhole /\ CopyProgress /\ [Next]_vars
    => CopyProgress'
<1> SUFFICES ASSUME TypeOK, There, TreesAreWhole, CopyProgress, [Next]_vars
             PROVE  CopyProgress'
  OBVIOUS
<1> USE DEF CopyProgress, There, TreesAreWhole, TypeOK, files, Extracting
<1>1. CASE UNCHANGED vars
  BY <1>1 DEF vars
<1>2. ASSUME NEW v \in Versions, Start(v) PROVE CopyProgress'
  BY <1>2 DEF Start, Reusable
<1>3. CASE Stage
  BY <1>3 DEF Stage
<1>4. CASE SkipFile
  BY <1>4, FilesLeft, LibcefIsAFile DEF SkipFile, IsThere
<1>5. CASE OpenCopy
  BY <1>5, FilesLeft DEF OpenCopy, IsThere
<1>6. CASE WriteCopy
  BY <1>6, FilesLeft DEF WriteCopy
<1>7. CASE Stop
  BY <1>7 DEF Stop
<1>8. CASE CreateArchive \/ Receive \/ Verify \/ MakeDirectory \/ OpenFile \/
         WriteFile \/ EndOfArchive \/ RemoveLink \/ MakeLink \/ LeaveLink \/
         EndOfStage \/ LeaveBin \/ Clean \/ Exit
  BY <1>8
  DEF CreateArchive, Receive, Verify, Mismatch, MakeDirectory, OpenFile,
      WriteFile, EndOfArchive, RemoveLink, MakeLink, LeaveLink, EndOfStage,
      LeaveBin, Clean, Exit
<1>9. QED
  BY <1>1, <1>2, <1>3, <1>4, <1>5, <1>6, <1>7, <1>8 DEF Next

\* What staging has copied stays until the run exits.
LEMMA CopyDoneStep ==
  TypeOK /\ CopyProgress /\ CopyDone /\ [Next]_vars => CopyDone'
<1> SUFFICES ASSUME TypeOK, CopyProgress, CopyDone, [Next]_vars PROVE CopyDone'
  OBVIOUS
<1> USE DEF CopyDone, CopyProgress, TypeOK, files, Extracting
<1>1. CASE UNCHANGED vars
  BY <1>1 DEF vars
<1>2. ASSUME NEW v \in Versions, Start(v) PROVE CopyDone'
  BY <1>2 DEF Start, Reusable
<1>3. CASE EndOfStage
  BY <1>3, NoFilesLeft DEF EndOfStage
<1>4. CASE Clean
  BY <1>4 DEF Clean
<1>5. CASE CreateArchive \/ Receive \/ Verify \/ MakeDirectory \/ OpenFile \/
         WriteFile \/ EndOfArchive \/ RemoveLink \/ MakeLink \/ LeaveLink \/
         Stage \/ SkipFile \/ OpenCopy \/ WriteCopy \/ LeaveBin \/ Exit \/
         Stop
  BY <1>5
  DEF CreateArchive, Receive, Verify, Mismatch, MakeDirectory, OpenFile,
      WriteFile, EndOfArchive, RemoveLink, MakeLink, LeaveLink, Stage,
      SkipFile, IsThere, OpenCopy, WriteCopy, LeaveBin, Exit, Stop
<1>6. QED
  BY <1>1, <1>2, <1>3, <1>4, <1>5 DEF Next

-----------------------------------------------------------------------------
(* The theorems. *)

\* The invariant holds in every behaviour.
LEMMA Inductive == Spec => []IInv
<1>1. Init => IInv
  BY InitHolds
<1>2. IInv /\ [Next]_vars => IInv'
  BY TypeStep, VerifiedStep, NotThereStep, ProgressStep, ThereStep, TreesStep,
     LinkStep, CopyStep, CopyDoneStep DEF IInv
<1>3. QED
  BY <1>1, <1>2, PTL DEF Spec

\* Every variable keeps its type, and what a run extracts has passed its
\* checksum: run and downloadFile.
THEOREM TypeCorrect == Spec => []TypeOK
<1>1. IInv => TypeOK
  BY DEF IInv
<1>2. QED
  BY <1>1, Inductive, PTL

\* No file of a version with a checksum is ever anything but its own, in its
\* directory and in bin, whatever was received: run and extractTarBzip2.
THEOREM OnlyVerified == Spec => []OnlyVerifiedFiles
<1>1. IInv => OnlyVerifiedFiles
  BY DEF IInv
<1>2. QED
  BY <1>1, Inductive, PTL

\* The link leads to the files of its version, all of them if no extraction was
\* cut short: run and replaceSymlink.
THEOREM LinkUsable == Spec => []CurrentIsUsable
<1>1. IInv => CurrentIsUsable
  BY DEF IInv, CurrentIsUsable, LinkIsGood, TreesAreWhole
<1>2. QED
  BY <1>1, Inductive, PTL

\* A run that succeeds has staged the whole runtime, if no extraction of the
\* version was cut short: stageCEFLayout.
THEOREM StagedWhole == Spec => []StagedIsWhole
<1>1. IInv => StagedIsWhole
  BY DEF IInv, StagedIsWhole, CopyDone
<1>2. QED
  BY <1>1, Inductive, PTL

\* No step writes to the directory the link points to.
LEMMA StableStep ==
  IInv /\ [Next]_vars =>
    [\A v \in Checked : current = v => trees'[v] = trees[v]]_vars
<1> SUFFICES ASSUME IInv, [Next]_vars, NEW v \in Checked, current = v
             PROVE  trees'[v] = trees[v]
  OBVIOUS
<1> USE DEF IInv, TypeOK
<1>1. ~(Extracting /\ wanted = v)
  BY DEF LinkIsGood
<1>2. CASE OpenFile
  BY <1>1, <1>2 DEF OpenFile, Extracting
<1>3. CASE WriteFile
  BY <1>1, <1>3 DEF WriteFile, Extracting
<1>4. CASE ~OpenFile /\ ~WriteFile
  <2>1. UNCHANGED trees
    BY <1>4 DEF Next, vars, files, Start, CreateArchive, Receive, Verify,
       MakeDirectory, EndOfArchive, RemoveLink, MakeLink, LeaveLink, Stage,
       SkipFile, OpenCopy, WriteCopy, EndOfStage, LeaveBin, Clean, Exit, Stop
  <2>2. QED
    BY <2>1
<1>5. QED
  BY <1>2, <1>3, <1>4

\* A build that reads the runtime through the link sees the same files as long
\* as the link stays: run never extracts to a directory it takes for extracted.
THEOREM LinkStable == Spec => CurrentIsStable
<1>1. IInv /\ [Next]_vars =>
        [\A v \in Checked : current = v => trees'[v] = trees[v]]_vars
  BY StableStep
<1>2. QED
  BY <1>1, Inductive, PTL DEF Spec, CurrentIsStable
===============================================================================
