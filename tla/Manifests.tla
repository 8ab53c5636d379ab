----------------------------- MODULE Manifests ------------------------------
(* What the packages without state of their own accept and what they make of  *)
(* it: package.json (internal/appmeta), packaging manifests, the versions of  *)
(* a process, Chromium features, WebAuthn settings and client requests. A     *)
(* text is told from others only as far as it is checked; trimming is left    *)
(* out.                                                                       *)
EXTENDS Integers, Sequences
-----------------------------------------------------------------------------
\* appmeta.Load. The benchmark fixture needs no package.json. main is "", a
\* path inside, an absolute one, or one whose first name starts with two dots.
LoadMetadata(dir, package) ==
    IF dir = "benchmark-hello" THEN <<"main.js">>
    ELSE IF package \in {"missing", "malformed"} THEN <<>>
    ELSE CASE package = ""                        -> <<"index.js">>
           [] package \in {"/main.js", "../main"} -> <<>>
           [] OTHER                               -> <<package>>

\* packaging.Validate and Summary.
FuseNames == {"runAsNode", "enableCookieEncryption", "onlyLoadAppFromAsar"}
PackageNames == {"dmg", "mas", "nsis", "msix", "deb", "rpm"}

ValidManifest(m) ==
    /\ m.name # "" /\ m.executable # "" /\ m.resources # {} /\ "" \notin m.helpers
    /\ m.fuses \subseteq FuseNames /\ m.packages \subseteq PackageNames
    /\ "mas" \in m.packages => m.masCompliant
    /\ m.packages \cap {"dmg", "mas", "msix"} # {} => m.identity # ""
    /\ m.notarized => m.hardenedRuntime /\ m.identity # ""

\* nodecompat: the versions of a process.
ProcessVersions(v) ==
    IF "" \in {v.electron, v.chrome, v.node, v.v8} THEN <<>>
    ELSE <<[n \in DOMAIN v \ (IF v.modules = "" THEN {"modules"} ELSE {}) |-> v[n]]>>

-----------------------------------------------------------------------------
\* chromium.NewRegistry: the textures once each, in a fixed order.
Textures == <<"rgba8", "bgra8", "rgb10a2">>
NormalizeTextures(given) == SelectSeq(Textures, LAMBDA t : t \in given)

NewFeatures(version, textures) ==
    IF version = "" \/ ~(textures \subseteq {"rgba8", "bgra8", "rgb10a2"}) THEN <<>>
    ELSE <<[textures |-> NormalizeTextures(textures), features |-> {}, diagnostics |-> <<>>]>>

SetFeature(r, name, on)   == [r EXCEPT !.features = IF on THEN @ \cup {name} ELSE @ \ {name}]
RecordDiagnostic(r, kind) == IF kind = "" THEN r ELSE [r EXCEPT !.diagnostics = Append(@, kind)]

\* webauthn: a configuration that is refused leaves the one there was.
Configure(manager, group) ==
    IF group \in {"", "nul"} THEN [manager EXCEPT !.ret = "ErrInvalidConfig"]
    ELSE [manager EXCEPT !.group = group, !.ret = "ok"]
SupportsTouchID(os) == os \in {"darwin", "macos"}

\* netrequest.NewClientRequest; headers is whether all of them are well-formed.
NewClientRequest(method, url, headers, policy) ==
    IF method = "two words" \/ url = "" \/ ~headers
       \/ policy \notin {"", "follow", "error", "manual"} THEN <<>>
    ELSE <<[method |-> IF method = "" THEN "GET" ELSE method, url |-> url, ended |-> FALSE,
            policy |-> IF policy = "" THEN "follow" ELSE policy]>>
End(request) == [request EXCEPT !.ended = TRUE]
=============================================================================
