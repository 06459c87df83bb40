----------------------------- MODULE MCGateway -----------------------------
(* A request of any kind and a plain one, by two clients. *)
EXTENDS Gateway

MCFolded ==
    [n \in {"", "WFS", "WMS", "WMTS", "WPS", "CSW", "WCS", "GetFeature", "getfeature",
            "GetMap", "Execute", "Transaction", "ann", "Editor", "editor",
            "topp"} |->
       CASE n = "getfeature" -> "GetFeature" [] n = "Editor" -> "editor" [] OTHER -> n]
MCRoles == ("" :> {}) @@ ("ann" :> {"editor"})

Say(s, q, v) == [service |-> s, request |-> q, version |-> v]
Get(user, kvp) == [NoMessage EXCEPT !.user = user, !.kvp = kvp, !.workspace = "topp"]
Features == Say("WFS", "getfeature", <<1, 5>>)

MCMessages ==
    ("r1" :> { Get("ann", Features), Get("", Features), Get("ann", Say("WMS", "GetMap", <<2>>)),
               [Get("ann", Features) EXCEPT !.valid = FALSE],
               [Get("ann", Features) EXCEPT !.read = << "c" >>],
               [Get("ann", Say("", "GetFeature", <<>>)) EXCEPT !.endpoint = "wfs"],
               Get("ann", Say("", "GetFeature", <<>>)), Get("ann", Say("WFS", "", <<>>)),
               Get("ann", Say("WPS", "Execute", <<>>)),
               [Get("ann", Features) EXCEPT !.post = TRUE, !.body = Say("WFS", "getfeature", <<0, 9>>)],
               [Get("ann", Nothing) EXCEPT !.post = TRUE, !.body = Say("WFS", "Transaction", <<2, 0, 0>>)],
               [Get("ann", Nothing) EXCEPT !.post = TRUE, !.xml = FALSE] })
    @@ ("r2" :> { [Get("ann", Features) EXCEPT !.valid = FALSE] })

Rule(p, user, role, op, access, read) ==
    [priority |-> p, username |-> user, rolename |-> role, service |-> "WFS", request |-> op,
     workspace |-> "*", layer |-> "*", access |-> access, read |-> read, write |-> <<>>]
MCNewRules ==
    { Rule(1, "*", "*", "GetFeature", "LIMIT", << "a" >>),
      Rule(2, "ann", "*", "*", "LIMIT", << "b" >>),
      Rule(2, "*", "Editor", "*", "ALLOW", <<>>),
      Rule(1, "*", "*", "GetFeature", "DENY", <<>>) }
=============================================================================
