----------------------------- MODULE MCElectron -----------------------------
(* Small instances of the modules of Electron: two or three values of each    *)
(* kind, chosen so that calls are refused and values collide.                 *)
EXTENDS Electron

\* A menu template and the options of a notification.
MenuItem(level, id, type, parent) ==
    [level |-> level, id |-> id, type |-> type, parent |-> parent, enabled |-> <<>>,
     visible |-> <<>>, checked |-> FALSE, named |-> type # "separator"]
\* Dotted when a domain is given.
Cookie(name, value, host, scheme, domain, secure, path) ==
    [name |-> name, value |-> value, host |-> host, scheme |-> scheme, domain |-> domain,
     dotted |-> domain # "", secure |-> secure, path |-> path]
Value(kind, text, children) == [kind |-> kind, text |-> text, children |-> children]
Child(kind, text, key)      == [kind |-> kind, text |-> text, key |-> key]
BridgeValues ==
    {Value("string", "t", <<>>), Value("function", "", <<>>), Value("function", "f", <<>>),
     Value("object", "", <<Child("string", "t", "k")>>), Value("object", "", <<Child("string", "t", "")>>),
     Value("array", "", <<Child("function", "", "")>>), Value("unknown", "", <<>>)}
NoticeOption(actions, texts, unsigned, hasReply) ==
    [title |-> "t", id |-> "n1", urgency |-> "", actions |-> actions, texts |-> texts,
     choices |-> TRUE, hasReply |-> hasReply, unsigned |-> unsigned]

MCWidths == {-1, 0, 1}
MCCookies ==
    {Cookie("sid", 1, "h", "http", "", FALSE, ""), Cookie("sid", 2, "h", "https", "", FALSE, ""),
     Cookie("sid", 1, "h", "https", "", TRUE, "/app"), Cookie("sid", 1, "g", "https", "h", TRUE, "/"),
     Cookie("sid", 1, "g", "http", "", FALSE, ""),
     Cookie("", 1, "h", "https", "", FALSE, ""), Cookie("sid", 1, "", "https", "", FALSE, ""),
     Cookie("sid", 3, "h", "http", "", TRUE, "")}
MCAccelerators ==
    {<<"ctrl", "x">>, <<"control", "X">>, <<"x", "ctrl">>, <<"alt", "alt", "x">>}
MCTemplates ==
    {<<MenuItem(0, "a", "", TRUE), MenuItem(1, "b", "checkbox", FALSE),
       MenuItem(0, "", "separator", FALSE)>>,
     <<MenuItem(0, "a", "", FALSE), MenuItem(0, "a", "radio", FALSE)>>}
MCNoticeOptions ==
    {NoticeOption(a, t, u, r) : a \in {<<>>, <<"">>}, t, u, r \in BOOLEAN}
MCWorlds        == {-1, 0, 1}
MCConfigHomes   == {<<>>, <<"/", "cfg">>}
MCMoved         == <<"/", "moved">>
MCArguments     == {<<>>, <<"--x">>}
MCFiles         == {<<"a">>, <<"d", "b">>, <<"d">>}
MCContents      == {<<1>>, <<2, 3>>}
=============================================================================
