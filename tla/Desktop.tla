------------------------------ MODULE Desktop -------------------------------
(* What an app uses of the desktop (internal/desktop, internal/safestorage):  *)
(* clipboard, shell, dialogs, capturer and the encryption of strings. Texts   *)
(* are values of a small set, "" is the empty one; paths are one of the kinds *)
(* the shell tells apart; trimming is left out.                               *)
EXTENDS Integers, Sequences

CONSTANTS Texts,      \* what is written and encrypted
          Keys,       \* keys of storages
          MaxJournal  \* bound: length of each journal of the shell

VARIABLE desktop
-----------------------------------------------------------------------------
\* The clipboard has a slot for each format, and buffers by the name of their
\* format. An empty slot reads as an error, an empty buffer does not.
Slots == {"text", "html", "rtf", "image"}

NewClipboard == [slots |-> [s \in Slots |-> ""], buffers |-> [f \in {} |-> ""]]

Write(c, slot, text) == [c EXCEPT !.slots[slot] = text]
Read(c, slot)        == IF c.slots[slot] = "" THEN "ErrClipboardEmpty" ELSE c.slots[slot]

\* WriteBuffer refuses the format without a name.
WriteBuffer(c, format, text) ==
    IF format = "" THEN c
    ELSE [c EXCEPT !.buffers = [f \in DOMAIN @ \cup {format} |-> IF f = format THEN text ELSE @[f]]]
ReadBuffer(c, format) ==
    IF format = "" THEN "ErrInvalidDialog"
    ELSE IF format \in DOMAIN c.buffers THEN c.buffers[format] ELSE "ErrClipboardEmpty"
-----------------------------------------------------------------------------
\* The shell keeps a journal of each of its operations. A path is "", relative,
\* there or missing; a URL has a scheme or not.
PathKinds == {"", "relative", "there", "missing"}
IsAbsolute(path) == path \in {"there", "missing"}

NewShell == [openExternal |-> <<>>, showItemInFolder |-> <<>>, trashItem |-> <<>>]

OpenExternal(s, scheme) == IF scheme = "" THEN s ELSE [s EXCEPT !.openExternal = Append(@, scheme)]
ShowItemInFolder(s, path) ==
    IF IsAbsolute(path) THEN [s EXCEPT !.showItemInFolder = Append(@, path)] ELSE s
TrashItem(s, path) == IF IsAbsolute(path) THEN [s EXCEPT !.trashItem = Append(@, path)] ELSE s

\* The message and the error of OpenPath; a missing path is no error.
OpenPath(path) == CASE path = "there"   -> [message |-> "", error |-> FALSE]
                    [] path = "missing" -> [message |-> "Path does not exist", error |-> FALSE]
                    [] OTHER            -> [message |-> "Path must be absolute", error |-> TRUE]

\* Events goes by the kind of event and not by the order of the calls.
Events(s) == s.openExternal \o s.showItemInFolder \o s.trashItem

\* NormalizeOpenDialog accepts a dialog; a filter is its name and extensions.
DialogProperties == {"openFile", "openDirectory", "multiSelections", "showHiddenFiles",
                     "createDirectory", "promptToCreate"}
AcceptsDialog(path, properties, filters) ==
    /\ path = "" \/ IsAbsolute(path)
    /\ properties \subseteq DialogProperties
    /\ \A f \in filters : f.name # "" /\ f.extensions # {} /\ f.extensions \cap {"", ".txt"} = {}

\* The capturer: a source is its id, name and type; no types asked for is all.
AcceptsSources(sources) ==
    \A i \in DOMAIN sources : /\ sources[i].id # "" /\ sources[i].name # ""
                              /\ sources[i].type \in {"screen", "window"}
GetSources(sources, types) == SelectSeq(sources, LAMBDA s : types = {} \/ s.type \in types)
-----------------------------------------------------------------------------
\* A ciphertext holds the backend in the clear and a code of key, backend and
\* text, which nobody forges.
Backends == {"basic_text", "keychain", "libsecret", "kwallet"}

\* New refuses a backend that is none of them: no storage.
NewStorage(backend, available, key) ==
    IF backend \notin Backends \cup {""} THEN {}
    ELSE {[backend |-> IF backend = "" THEN "basic_text" ELSE backend, available |-> available,
           key |-> IF key = "" THEN "electron-go-safe-storage" ELSE key]}

EncryptString(s, plain) ==
    IF ~s.available THEN <<>>
    ELSE <<[backend |-> s.backend, plain |-> plain, mac |-> <<s.key, s.backend, plain>>]>>

DecryptString(s, cipher) ==
    IF ~s.available THEN "ErrUnavailable"
    ELSE IF cipher.backend # s.backend \/ cipher.mac # <<s.key, s.backend, cipher.plain>>
    THEN "ErrInvalidCiphertext" ELSE cipher.plain

\* The Async forms ask the context first.
EncryptStringAsync(s, plain, ended) == IF ended THEN <<>> ELSE EncryptString(s, plain)
DecryptStringAsync(s, cipher, ended) ==
    IF ended THEN "context canceled" ELSE DecryptString(s, cipher)
-----------------------------------------------------------------------------
\* shown: what GetSources returned; dialog: whether the last one was accepted;
\* stored: the ciphertext an app kept, with who made it and of what.
Init == desktop = [clipboard |-> NewClipboard, shell |-> NewShell, capturer |-> <<>>,
                   shown |-> <<>>, dialog |-> FALSE, stored |-> {}]

Storages ==
    UNION {NewStorage(b, a, k) : b \in {"", "keychain", "rot13"}, a \in BOOLEAN, k \in Keys}

ASource(type) == [id |-> type, name |-> "n", type |-> type]

UsesClipboard ==
    \/ \E s \in Slots, t \in Texts :
           desktop' = [desktop EXCEPT !.clipboard = Write(@, s, t)]
    \/ \E f \in {"", "f"}, t \in Texts :
           desktop' = [desktop EXCEPT !.clipboard = WriteBuffer(@, f, t)]

UsesShell ==
    \/ \E u \in {"", "https"} :
           /\ Len(desktop.shell.openExternal) < MaxJournal
           /\ desktop' = [desktop EXCEPT !.shell = OpenExternal(@, u)]
    \/ \E p \in PathKinds :
           /\ Len(desktop.shell.showItemInFolder) < MaxJournal
           /\ desktop' = [desktop EXCEPT !.shell = ShowItemInFolder(@, p)]
    \/ \E p \in PathKinds :
           /\ Len(desktop.shell.trashItem) < MaxJournal
           /\ desktop' = [desktop EXCEPT !.shell = TrashItem(@, p)]

Captures ==
    \/ \E types \in {<<"screen">>, <<"screen", "window">>, <<"tab">>} :
           LET sources == [i \in DOMAIN types |-> ASource(types[i])] IN
           AcceptsSources(sources) /\ desktop' = [desktop EXCEPT !.capturer = sources]
    \/ \E types \in SUBSET {"screen", "window"} :
           desktop' = [desktop EXCEPT !.shown = GetSources(desktop.capturer, types)]

ShowsDialog ==
    \E p \in PathKinds, properties \in SUBSET {"openFile", "open"}, e \in {"txt", ".txt"} :
        desktop' = [desktop EXCEPT !.dialog =
            AcceptsDialog(p, properties, {[name |-> "n", extensions |-> {e}]})]

StoresText ==
    \E s \in Storages, t \in Texts, ended \in BOOLEAN :
        /\ desktop.stored = {}
        /\ desktop' = [desktop EXCEPT !.stored =
               {[by |-> s, of |-> t, cipher |-> c[1]] :
                    c \in {EncryptStringAsync(s, t, ended)} \ {<<>>}}]

Next == UsesClipboard \/ UsesShell \/ Captures \/ ShowsDialog \/ StoresText

Spec == Init /\ [][Next]_desktop
-----------------------------------------------------------------------------
\* A stored text comes back to the backend and key that encrypted it, while
\* encryption is available, and to nobody else.
OnlyItsOwnerDecrypts ==
    \A c \in desktop.stored, s \in Storages :
        LET plain == DecryptString(s, c.cipher)
            owner == s.available /\ s.backend = c.by.backend /\ s.key = c.by.key
        IN IF owner THEN plain = c.of ELSE plain \in {"ErrUnavailable", "ErrInvalidCiphertext"}
=============================================================================
