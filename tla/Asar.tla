-------------------------------- MODULE Asar --------------------------------
(* ASAR archives (internal/asar): Write puts packed files into one file       *)
(* behind a header, unpacked ones into the directory beside it; Open reads    *)
(* the header into a table, and reads through the table go to the disk again, *)
(* to files another Write may have replaced since. Write takes several steps, *)
(* each of which the disk may fail. A file's content is a sequence of bytes.  *)
EXTENDS Integers, SequencesExt

CONSTANTS Files,       \* paths of files in an archive: sequences of names
          Contents,    \* what files hold: sequences of bytes
          MaxWrites,   \* bound: calls of Write
          MaxHeader    \* bound: length of a header, for the pickles

VARIABLE asar
-----------------------------------------------------------------------------
\* Lengths. A pickle is its payload size, the value, and padding to four.
Align4(n)           == IF n % 4 = 0 THEN n ELSE n + (4 - (n % 4))
WritePickle(length) == [payload |-> Align4(4 + length), length |-> length,
                        buffer |-> 4 + Align4(4 + length)]
ReadPickle(p)       == IF \/ p.buffer < 8 \/ p.payload < 4 \/ p.payload > p.buffer - 4
                          \/ p.length > p.payload - 4 \/ 8 + p.length > p.buffer
                       THEN <<>> ELSE <<p.length>>

Under(path, dir) == IsStrictPrefix(dir, path)

\* Loses the offset.
FaultyFileNode(offset, size, unpacked) ==
    [dir |-> FALSE, offset |-> 0, size |-> size, unpacked |-> unpacked]

\* addHeaderWriteFile, into the header: a function from paths to nodes. A file
\* where a directory was takes its place with all that was in it; a directory
\* where a file is cannot be made: the code writes to a nil map and panics.
FileNode(offset, size, unpacked) ==
    [dir |-> FALSE, offset |-> offset, size |-> size, unpacked |-> unpacked]

DirNode == [dir |-> TRUE, offset |-> 0, size |-> 0, unpacked |-> FALSE]

Panics(header, path) == \E p \in DOMAIN header : Under(path, p) /\ ~header[p].dir

AddHeaderFile(header, path, node) ==
    LET kept == {p \in DOMAIN header : p # path /\ ~Under(p, path)}
        dirs == {SubSeq(path, 1, n) : n \in 1..Len(path) - 1}
    IN [p \in kept \cup dirs \cup {path} |->
           IF p = path THEN node ELSE IF p \in kept THEN header[p] ELSE DirNode]

NoHeader == [p \in {} |-> DirNode]

\* The packed files one after the other: their nodes and their contents.
Pack(packed, order) ==
    FoldLeft(LAMBDA sofar, path :
                 [header  |-> AddHeaderFile(sofar.header, path,
                                  FileNode(Len(sofar.content), Len(packed[path]), FALSE)),
                  content |-> sofar.content \o packed[path]],
             [header |-> NoHeader, content |-> <<>>], order)
-----------------------------------------------------------------------------
\* What json makes of the header: sizes of zero and an empty set of files are
\* left out. Reading refuses a file without a size and a root without files.
HeaderIsReadable(header) ==
    /\ header # NoHeader
    /\ \A p \in DOMAIN header : header[p].dir \/ header[p].size > 0

Idle == [at |-> "idle", unpacked |-> <<>>, header |-> NoHeader,
         content |-> <<>>, todo |-> <<>>]

\* disk: the archive file, if there is one, and the files of the directory
\* beside it. handle: the table of an opened archive. since: whether the
\* handle was opened after the last Write began; ok: whether that Write ended
\* well. last: what it was given.
New == [disk |-> <<>>, beside |-> [p \in {} |-> <<>>], handle |-> <<>>, writer |-> Idle,
        since |-> FALSE, ok |-> FALSE, writes |-> 0, last |-> [packed |-> <<>>, unpacked |-> <<>>],
        ret |-> "ok"]

Put(f, key, value) == [k \in DOMAIN f \cup {key} |-> IF k = key THEN value ELSE f[k]]

Ends(a, ret) == [a EXCEPT !.writer = Idle, !.ok = (ret = "ok"), !.ret = ret]

\* Write up to the unpacked files: the packed ones are in memory only.
BeginWrite(a, packed, unpacked, order, todo) ==
    LET begun == [a EXCEPT !.since = FALSE, !.writes = @ + 1, !.last = [packed |-> packed, unpacked |-> unpacked]]
        p     == Pack(packed, order)
    IN IF \E f, g \in DOMAIN packed : Under(f, g) THEN Ends(begun, "panic")
       ELSE [begun EXCEPT !.writer = [at |-> "writing", unpacked |-> unpacked,
                header |-> p.header, content |-> p.content, todo |-> todo]]

\* One unpacked file: into the header, then onto the disk.
WriteUnpacked(a, fails) ==
    LET w == a.writer path == w.todo[1] IN
    IF Panics(w.header, path) THEN Ends(a, "panic")
    ELSE IF fails THEN Ends(a, "error")
    ELSE [a EXCEPT !.beside = Put(@, path, w.unpacked[path]),
                   !.writer.todo = Tail(@),
                   !.writer.header = AddHeaderFile(@, path,
                                        FileNode(0, Len(w.unpacked[path]), TRUE))]

\* The archive file itself. os.WriteFile truncates before it writes: a disk
\* that fails leaves the header with the first bytes of the content, or
\* nothing that can be opened.
WriteArchive(a, written) ==
    LET w == a.writer
        n == Len(w.content)
    IN IF written = n THEN Ends([a EXCEPT !.disk = <<[header |-> w.header,
                                                      content |-> w.content]>>], "ok")
       ELSE Ends([a EXCEPT !.disk = IF written < 0 THEN <<>>
                      ELSE <<[header |-> w.header, content |-> SubSeq(w.content, 1, written)]>>],
                 "error")

Open(a) ==
    IF a.disk = <<>> THEN [a EXCEPT !.ret = "error"]
    ELSE IF ~HeaderIsReadable(a.disk[1].header) THEN [a EXCEPT !.ret = "ErrInvalidPath"]
    ELSE [a EXCEPT !.handle = <<a.disk[1].header>>, !.since = (a.writer = Idle), !.ret = "ok"]

\* What ReadFile returns for a path in the table of the handle: <<>> for an
\* error. The end of the file is no error: what is missing reads as zeros. It
\* is asked only through a handle that is as new as the archive: an older one
\* has the length of another header, which is not kept here.
ReadFile(a, path) ==
    LET table == a.handle[1] IN
    IF path \notin DOMAIN table \/ table[path].dir THEN <<>>
    ELSE LET e == table[path] IN
         IF e.unpacked THEN IF path \in DOMAIN a.beside THEN <<a.beside[path]>> ELSE <<>>
         ELSE IF a.disk = <<>> THEN <<>>
         ELSE <<[i \in 1..e.size |->
                    IF e.offset + i <= Len(a.disk[1].content)
                    THEN a.disk[1].content[e.offset + i] ELSE 0]>>

\* The first of the candidates (the specifier, with .js, with .json, its
\* index.js) that is a file decides, also when it is unpacked and refused.
ResolveModule(table, candidates) ==
    LET found == SelectSeq(candidates, LAMBDA p : p \in DOMAIN table /\ ~table[p].dir) IN
    IF found = <<>> THEN "ErrEntryNotFound"
    ELSE IF table[found[1]].unpacked THEN "ErrEntryUnpacked" ELSE "ok"
-----------------------------------------------------------------------------
Init == asar = New

Maps(n) == UNION {[fs -> Contents] : fs \in {s \in SUBSET Files : Cardinality(s) <= n}}

\* sortedByteMapKeys: a directory comes before what is in it.
Orders(map) == {o \in SetToSeqs(DOMAIN map) :
                    \A i, j \in DOMAIN o : Under(o[j], o[i]) => i < j}

Next ==
    \/ \E packed \in Maps(2), unpacked \in Maps(1) :
           /\ asar.writer.at = "idle" /\ asar.writes < MaxWrites
           /\ \E order \in Orders(packed), todo \in Orders(unpacked) :
                  asar' = BeginWrite(asar, packed, unpacked, order, todo)
    \/ \E fails \in BOOLEAN :
           /\ asar.writer.at = "writing" /\ asar.writer.todo # <<>>
           /\ asar' = WriteUnpacked(asar, fails)
    \/ \E written \in -1..Len(asar.writer.content) :
           /\ asar.writer.at = "writing" /\ asar.writer.todo = <<>>
           /\ asar' = WriteArchive(asar, written)
    \/ asar' = Open(asar)

Spec == Init /\ [][Next]_asar
-----------------------------------------------------------------------------
\* The files of the last Write that no other of its files took the place of.
Written(map, other) == {f \in DOMAIN map : \A g \in DOMAIN other : g # f /\ ~Under(f, g)}

\* An archive opened after the last Write, which ended well, gives back what
\* that Write was given, from the archive and from the directory beside it,
\* whatever failed Writes left there before.
ReadsBack ==
    asar.handle # <<>> /\ asar.since /\ asar.ok =>
        /\ \A f \in Written(asar.last.packed, asar.last.unpacked) :
              ReadFile(asar, f) = <<asar.last.packed[f]>>
        /\ \A f \in DOMAIN asar.last.unpacked : ReadFile(asar, f) = <<asar.last.unpacked[f]>>

\* A header of any length is read back from its pickle.
PicklesReadBack == \A n \in 0..MaxHeader : ReadPickle(WritePickle(n)) = <<n>>
=============================================================================
