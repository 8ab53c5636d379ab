-------------------------------- MODULE CefFetch --------------------------------
(***************************************************************************)
(* tools/ceffetch: it downloads the CEF archive the manifest resolves to,  *)
(* checks it, extracts it into a directory of its own, points the link     *)
(* `current' there and copies the runtime files to bin.                    *)
(*                                                                         *)
(* The files outlive the runs: one run follows another, for any version,   *)
(* and each may end at any point, by an error or because it is killed.     *)
(* Both leave the files as they are, so they are one action, Stop.         *)
(***************************************************************************)
EXTENDS Naturals, Sequences, Functions

CONSTANTS
  Versions,    \* the archives a manifest may resolve to
  Checked,     \* those with a known checksum
  Files,       \* what is staged from an archive, in its order
  Release,     \* the files of directory Release; the others are in Resources
  Libcef,
  None

ASSUME VersionAssumption == Checked \subseteq Versions
ASSUME FileAssumption ==
  Files \in Seq(Range(Files)) /\ Libcef \in Release \cap Range(Files)

VARIABLES
  archives,     \* the archive of each version in the output directory
  trees,        \* the files of its extracted directory
  dirs,         \* and the directories in it
  current,      \* the version the link points to
  bin,          \* the staged files, with the version they are of
  pc,           \* where the run is
  wanted,       \* the version it fetches
  todo,         \* the files it has yet to extract or to copy
  fresh,        \* it has downloaded the archive
  staged,       \* it has populated bin
  interrupted   \* history: extractions that ended early and left Libcef

files == <<archives, trees, dirs, current, bin>>
vars == <<files, pc, wanted, todo, fresh, staged, interrupted>>

Directories == {"Release", "Resources"}

DirectoryOf(f) == IF f \in Release THEN "Release" ELSE "Resources"

\* A file is missing, cut short, as published, or something else.
Contents == {"cut", "whole", "bad"}

ASSUME NoneAssumption == None \notin Versions \cup (Versions \X Contents)

Init ==
  /\ archives = [v \in Versions |-> "missing"]
  /\ trees = [v \in Versions |-> [f \in Range(Files) |-> "missing"]]
  /\ dirs = [v \in Versions |-> {}]
  /\ current = None
  /\ bin = [f \in Range(Files) |-> None]
  /\ pc = "idle"
  /\ wanted = None
  /\ todo = <<>>
  /\ fresh = FALSE
  /\ staged = FALSE
  /\ interrupted = {}

-----------------------------------------------------------------------------
(* What run asks. *)

FaultyDirectoryIsEnough(v) == dirs[v] # {}

FaultyExtractAlways(v) == FALSE

\* The directory is taken for extracted if it has a regular file Libcef.
Reusable(v) == trees[v][Libcef] # "missing"

FaultyMismatch(v) == archives[v] = "cut"

\* A checksum that is known is not that of what was received.
Mismatch(v) == v \in Checked /\ archives[v] # "whole"

FaultyIsThere(f) == f \in Release /\ trees[wanted][f] # "missing"

\* What copyGlob finds, or regularFile.
IsThere(f) == trees[wanted][f] # "missing"

-----------------------------------------------------------------------------
(* A run. *)

Start(v) ==
  /\ pc = "idle"
  /\ wanted' = v
  /\ fresh' = ~Reusable(v)
  /\ staged' = FALSE
  /\ pc' = IF Reusable(v) THEN "link" ELSE "download"
  /\ UNCHANGED <<files, todo, interrupted>>

\* downloadFile creates or truncates the archive once it has a response...
CreateArchive ==
  /\ pc = "download"
  /\ archives' = [archives EXCEPT ![wanted] = "cut"]
  /\ pc' = "receive"
  /\ UNCHANGED <<trees, dirs, current, bin, wanted, todo, fresh, staged,
                 interrupted>>

\* ...and writes what it receives, which need not be what was published.
Receive ==
  /\ pc = "receive"
  /\ \E content \in {"whole", "bad"} :
       archives' = [archives EXCEPT ![wanted] = content]
  /\ pc' = "verify"
  /\ UNCHANGED <<trees, dirs, current, bin, wanted, todo, fresh, staged,
                 interrupted>>

Verify ==
  /\ pc = "verify"
  /\ ~Mismatch(wanted)
  /\ pc' = "extract"
  /\ todo' = Files
  /\ UNCHANGED <<files, wanted, fresh, staged, interrupted>>

\* extractTarBzip2 makes the directories, opens a file with O_TRUNC, and then
\* copies into it.
MakeDirectory ==
  /\ pc = "extract" /\ todo # <<>>
  /\ dirs' = [dirs EXCEPT ![wanted] = @ \cup {DirectoryOf(Head(todo))}]
  /\ dirs' # dirs
  /\ UNCHANGED <<archives, trees, current, bin, pc, wanted, todo, fresh, staged,
                 interrupted>>

OpenFile ==
  /\ pc = "extract" /\ todo # <<>>
  /\ DirectoryOf(Head(todo)) \in dirs[wanted]
  /\ trees' = [trees EXCEPT ![wanted][Head(todo)] = "cut"]
  /\ pc' = "write"
  /\ UNCHANGED <<archives, dirs, current, bin, wanted, todo, fresh, staged,
                 interrupted>>

WriteFile ==
  /\ pc = "write"
  /\ trees' = [trees EXCEPT ![wanted][Head(todo)] = archives[wanted]]
  /\ todo' = Tail(todo)
  /\ pc' = "extract"
  /\ UNCHANGED <<archives, dirs, current, bin, wanted, fresh, staged,
                 interrupted>>

\* The archive ends; one that is not as published may end anywhere.
EndOfArchive ==
  /\ pc = "extract"
  /\ todo = <<>> \/ archives[wanted] = "bad"
  /\ todo' = <<>>
  /\ pc' = "link"
  /\ UNCHANGED <<files, wanted, fresh, staged, interrupted>>

\* replaceSymlink removes the link, then makes it again.
RemoveLink ==
  /\ pc = "link"
  /\ current' = None
  /\ pc' = "symlink"
  /\ UNCHANGED <<archives, trees, dirs, bin, wanted, todo, fresh, staged,
                 interrupted>>

MakeLink ==
  /\ pc = "symlink"
  /\ current' = wanted
  /\ pc' = "stage"
  /\ UNCHANGED <<archives, trees, dirs, bin, wanted, todo, fresh, staged,
                 interrupted>>

\* --link-current=false
LeaveLink ==
  /\ pc = "link"
  /\ pc' = "stage"
  /\ UNCHANGED <<files, wanted, todo, fresh, staged, interrupted>>

\* stageCEFLayout wants both directories, and takes what they hold.
Stage ==
  /\ pc = "stage"
  /\ dirs[wanted] = Directories
  /\ todo' = Files
  /\ pc' = "copy"
  /\ UNCHANGED <<files, wanted, fresh, staged, interrupted>>

SkipFile ==
  /\ pc = "copy" /\ todo # <<>>
  /\ ~IsThere(Head(todo))
  /\ todo' = Tail(todo)
  /\ UNCHANGED <<files, pc, wanted, fresh, staged, interrupted>>

OpenCopy ==
  /\ pc = "copy" /\ todo # <<>>
  /\ IsThere(Head(todo))
  /\ bin' = [bin EXCEPT ![Head(todo)] = <<wanted, "cut">>]
  /\ pc' = "copying"
  /\ UNCHANGED <<archives, trees, dirs, current, wanted, todo, fresh, staged,
                 interrupted>>

WriteCopy ==
  /\ pc = "copying"
  /\ bin' = [bin EXCEPT ![Head(todo)] = <<wanted, trees[wanted][Head(todo)]>>]
  /\ todo' = Tail(todo)
  /\ pc' = "copy"
  /\ UNCHANGED <<archives, trees, dirs, current, wanted, fresh, staged,
                 interrupted>>

EndOfStage ==
  /\ pc = "copy" /\ todo = <<>>
  /\ staged' = TRUE
  /\ pc' = "clean"
  /\ UNCHANGED <<files, wanted, todo, fresh, interrupted>>

\* without --stage-bin
LeaveBin ==
  /\ pc = "stage"
  /\ pc' = "clean"
  /\ UNCHANGED <<files, wanted, todo, fresh, staged, interrupted>>

\* A run that downloaded the archive removes it, unless it is kept or that
\* fails.
Clean ==
  /\ pc = "clean"
  /\ \/ fresh /\ archives' = [archives EXCEPT ![wanted] = "missing"]
     \/ UNCHANGED archives
  /\ pc' = "success"
  /\ UNCHANGED <<trees, dirs, current, bin, wanted, todo, fresh, staged,
                 interrupted>>

Exit ==
  /\ pc = "success"
  /\ pc' = "idle"
  /\ wanted' = None
  /\ fresh' = FALSE
  /\ staged' = FALSE
  /\ UNCHANGED <<files, todo, interrupted>>

Extracting == pc \in {"extract", "write"}

\* An error, a checksum that does not match or a missing directory among them,
\* or the end of the process.
Stop ==
  /\ pc \notin {"idle", "success"}
  /\ interrupted' = IF Extracting /\ trees[wanted][Libcef] # "missing"
                      THEN interrupted \cup {wanted} ELSE interrupted
  /\ pc' = "idle"
  /\ wanted' = None
  /\ todo' = <<>>
  /\ fresh' = FALSE
  /\ staged' = FALSE
  /\ UNCHANGED files

Next ==
  \/ \E v \in Versions : Start(v)
  \/ CreateArchive \/ Receive \/ Verify
  \/ MakeDirectory \/ OpenFile \/ WriteFile \/ EndOfArchive
  \/ RemoveLink \/ MakeLink \/ LeaveLink
  \/ Stage \/ SkipFile \/ OpenCopy \/ WriteCopy \/ EndOfStage \/ LeaveBin
  \/ Clean \/ Exit \/ Stop

Spec == Init /\ [][Next]_vars

-----------------------------------------------------------------------------
(* Properties. *)

Steps == {"idle", "download", "receive", "verify", "extract", "write", "link",
          "symlink", "stage", "copy", "copying", "clean", "success"}

\* Every variable has its type, and a run knows what it fetches and has a file
\* at hand whenever it writes one; what it extracts has passed its checksum.
TypeOK ==
  /\ archives \in [Versions -> Contents \cup {"missing"}]
  /\ trees \in [Versions -> [Range(Files) -> Contents \cup {"missing"}]]
  /\ dirs \in [Versions -> SUBSET Directories]
  /\ current \in Versions \cup {None}
  /\ bin \in [Range(Files) -> (Versions \X Contents) \cup {None}]
  /\ pc \in Steps
  /\ wanted \in Versions \cup {None}
  /\ pc # "idle" => wanted \in Versions
  /\ todo \in Seq(Range(Files))
  /\ pc \in {"write", "copying"} => todo # <<>>
  /\ pc = "copying" => trees[wanted][Head(todo)] # "missing"
  /\ pc = "verify" \/ Extracting => archives[wanted] \in {"whole", "bad"}
  /\ Extracting /\ wanted \in Checked => archives[wanted] = "whole"
  /\ fresh \in BOOLEAN
  /\ staged \in BOOLEAN
  /\ interrupted \subseteq Versions

\* docs/cef-bootstrap.md: the checksum is verified before anything is extracted.
\* So whatever archives were received, kept or cut short by this and earlier
\* runs, no file of a version with a known checksum is anything but its own,
\* neither in its directory nor in bin.
OnlyVerifiedFiles ==
  \A v \in Checked, f \in Range(Files) :
    trees[v][f] # "bad" /\ bin[f] # <<v, "bad">>

\* If the link points to the directory of a version with a checksum, Libcef is
\* there and nothing is being extracted to it; and unless an extraction of the
\* version was cut short, all its files are there.
CurrentIsUsable ==
  current \in Checked =>
    /\ trees[current][Libcef] # "missing"
    /\ ~(Extracting /\ wanted = current)
    /\ current \notin interrupted =>
         \A f \in Range(Files) : trees[current][f] = "whole"

\* What a build reads through the link does not change under it: no run writes
\* to the directory the link points to, if its version has a checksum.
CurrentIsStable ==
  [][\A v \in Checked : current = v => trees'[v] = trees[v]]_vars

\* README.md: the fetcher "stages bin/libcef.so plus required runtime
\* resources".  The code does, if the checksum is known and no extraction of
\* the version was cut short.
StagedIsWhole ==
  (pc = "success" /\ staged /\ wanted \in Checked \ interrupted) =>
    \A f \in Range(Files) : bin[f] = <<wanted, "whole">>

\* The same, as the README says it for every run.  The code breaks this: after
\* an extraction that was cut short the next run finds Libcef, takes the
\* directory for complete and stages what it holds.
StagesRequiredResources ==
  (pc = "success" /\ staged /\ wanted \in Checked) =>
    \A f \in Range(Files) : bin[f] = <<wanted, "whole">>
===============================================================================
