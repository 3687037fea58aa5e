----------------------------- MODULE MCAIBridge -----------------------------
EXTENDS AIBridge

Config(section, providers, complete, provider) ==
    [section |-> section, providers |-> providers, complete |-> complete,
     provider |-> provider]

\* A usable provider; an incomplete one; one that is not configured; no bridge.
BridgeConfigs ==
    {Config("ok", {"openai"}, TRUE, "openai"),
     Config("ok", {"openai", "cloudflare_azure"}, FALSE, "cloudflare_azure"),
     Config("ok", {"azopenai", "cloudflare_openai", "gemini"}, TRUE, "gemini"),
     Config("missing", {}, TRUE, "openai")}

\* The two servers with one credential, or with two.
BridgeLogins == {[s \in Servers |-> "a"], [s \in Servers |-> IF s = "s1" THEN "a" ELSE "b"]}

\* A later turn, with a system message of its own and a call answered before.
BridgeChats ==
    {<<Message("system", "own"), User, Assistant(<<[id |-> "k0"]>>),
       Message("tool", "k0"), User>>}

\* Two tags with one function name, and another.
BridgeTools == [t \in {"t1", "t2", "t3"} |-> IF t = "t3" THEN "g" ELSE "f"]
Call(id, name) ==
    [id |-> id, type |-> "function", name |-> name, arguments |-> <<>>]
BridgeCalls == {<<>>, <<Call("k1", "f")>>}

\* The call k1 is opened with name and arguments, k2 without; in a stream that ends
\* then it names no function.
Delta(index, id, type, name, piece) ==
    [index |-> index, id |-> id, type |-> type, name |-> name, piece |-> piece]
BridgeDeltas ==
    {Delta(0, "k1", "function", "f", TRUE), Delta(1, "k2", "function", "", FALSE),
     Delta(1, "", "", "g", TRUE)}
=============================================================================
