------------------------------ MODULE MCSetup ------------------------------
EXTENDS Setup, TLC

Names == {"Work", "App", "app", "screenshots", "gallery-shots", "testdata", "visual", "node_modules",
          "A*"}

MCLower ==
    [s \in Names |-> IF s = "App" THEN "app" ELSE IF s = "Work" THEN "work"
                    ELSE IF s = "A*" THEN "a*" ELSE s]
    @@ (".png" :> ".png" @@ ".PNG" :> ".png" @@ ".webp" :> ".webp" @@ ".txt" :> ".txt")

MCProjectNames == {Empty, "p", "app", "work", "a*"}

MCTexts ==
    Names \cup MCProjectNames \cup {".png", ".PNG", ".webp", ".txt"}
          \cup {"/", "~", "home", "data", "reviews", "shots"}
          \cup {Endpoint, OtherScheme, DefaultModel}

Shots == <<"App", "screenshots">>
Visual == <<"app", "testdata", "visual">>
Skipped == <<"app", "node_modules", "screenshots">>

Starred == <<"A*", "screenshots">>

MCDirs == {<<"screenshots">>, <<"app", "visual">>, Shots, Visual, Starred, Skipped}
PlainDirs == MCDirs \ {Starred}

File(dir, ext, view, modified) == [dir |-> dir, ext |-> ext, view |-> view, modified |-> modified]

MCFiles ==
    {File(Shots, ".png", "home", 1), File(Visual, ".webp", "home", 2),
     File(Starred, ".png", "home", 1), File(<<"screenshots">>, ".png", "home", 1)}

\* Another tree, with an extension in upper case and a file that is no image.
ShoutedFiles ==
    {File(Shots, ".png", "home", 1), File(Shots, ".txt", "home", 1),
     File(<<"screenshots">>, ".PNG", "login", 1)}

MCMatched == [name \in MCTexts |-> IF name = "A*" THEN {"A*", "App"} ELSE {name}]

MCAbsRoot == <<"/", "Work">>
MCRoots == {MCAbsRoot, <<"Work">>}
MCUnreadable == {{}, {Skipped}, {Visual}}
MCHomes == {Absent, <<"/", "home">>}

RetryStanza(enabled, attempts, initial, multiplier) ==
    [enabled |-> enabled, maxAttempts |-> attempts, initialBackoff |-> initial,
     maxBackoff |-> Absent, multiplier |-> multiplier]

MCValues ==
    [model |-> {Null},
     baseUrl |-> {OtherScheme},
     interval |-> {Null, 0, Second},
     timeout |-> {Malformed, -1},
     dataDir |-> {<<>>, <<"data">>},
     reviewsDir |-> {<<"~", "reviews">>, <<"/", "reviews">>},
     projects |-> {Null, ("p" :> {}), ("p" :> {[dir |-> <<"~", "shots">>, ext |-> ".png"]}),
                   (Empty :> {[dir |-> MCAbsRoot, ext |-> ".png"]})},
     retry |-> {Null, RetryStanza(Absent, Absent, Absent, Absent),
                RetryStanza(FALSE, 5, 100, 20), RetryStanza(Null, 1, Empty, 5),
                RetryStanza(TRUE, 2, -1, 10)},
     healthGate |-> {[enabled |-> FALSE, probeTimeout |-> Second],
                     [enabled |-> Absent, probeTimeout |-> -1],
                     [enabled |-> TRUE, probeTimeout |-> Malformed]}]
=============================================================================
