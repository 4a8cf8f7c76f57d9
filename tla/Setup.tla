------------------------------- MODULE Setup -------------------------------
(***************************************************************************)
(* Setting visionreviewd up: screenshots appear in a tree, discover        *)
(* suggests projects for it, the suggestion is pasted into the             *)
(* configuration, which is edited, loaded and written back.                *)
(***************************************************************************)
EXTENDS Config, Discovery

CONSTANTS
    Dirs, AllFiles,   \* the directories of the tree, and the files it may hold
    Roots,            \* the ways its root can be given to discover
    Unreadable,       \* the directories that may be unreadable together
    Homes,            \* the home directories, Absent among them
    Values,           \* Values[member]: what an edit may set a member to
    LastModified,     \* bounds the times of the files
    MaxEdits          \* bounds the edits

EmptyDocument == [member \in DOMAIN Values |-> Absent]

\* The operating system names home directories by absolute paths.  An absolute root is the
\* one AbsRoot spells, and a shell expands "~" before discover sees it.
ASSUME SetupAssumption ==
    /\ Dirs \subseteq Paths /\ AbsRoot \in Paths
    /\ \A dir \in Dirs \ {<<>>} : projectOf(dir) \in ProjectNames
    /\ \A f \in AllFiles : Lower[f.ext] \in Texts /\ f.modified \in 0..LastModified
    /\ LastModified \in Nat
    /\ \A root \in Roots :
          /\ root \in Paths /\ root # <<>>
          /\ ~IsHomePath(root) /\ (IsAbs(root) => root = AbsRoot)
    /\ \A h \in Homes \ {Absent} : h \in Paths /\ IsAbs(h)
    /\ IsDocument(EmptyDocument)
    /\ \A member \in DOMAIN Values : \A value \in Values[member] :
          IsDocument([EmptyDocument EXCEPT ![member] = value])

VARIABLES
    files,      \* the screenshots taken
    suggested,  \* what discover printed, and the files it saw
    pasted,     \* the suggestion the projects of the document come from
    document,   \* the configuration file
    home, loaded, edits

vars == <<files, suggested, pasted, document, home, loaded, edits>>

NoSuggestion == [projects |-> [p \in {} |-> {}], seen |-> {}]

Init ==
    /\ files = {}
    /\ suggested = NoSuggestion
    /\ pasted = NoSuggestion
    /\ document = EmptyDocument
    /\ home \in Homes
    /\ loaded = NoConfig
    /\ edits = 0

Shoot(f) ==
    /\ f \notin files
    /\ files' = files \cup {f}
    /\ UNCHANGED <<suggested, pasted, document, home, loaded, edits>>

\* runDiscover; when the walk fails it prints nothing.
RunDiscover(root, unreadable) ==
    /\ ~WalkFails(Dirs, unreadable)
    /\ suggested' = [projects |-> DiscoverProjects(root, Dirs, files), seen |-> files]
    /\ UNCHANGED <<files, pasted, document, home, loaded, edits>>

\* SuggestedConfigJSON, put in the place of the document's projects.
Paste ==
    /\ suggested # NoSuggestion
    /\ pasted' = suggested
    /\ document' = [document EXCEPT !.projects =
                       [p \in DOMAIN suggested.projects |-> suggested.projects[p].globs]]
    /\ UNCHANGED <<files, suggested, home, loaded, edits>>

Edit(member, value) ==
    /\ edits < MaxEdits
    /\ document' = [document EXCEPT ![member] = value]
    /\ pasted' = IF member = "projects" THEN NoSuggestion ELSE pasted
    /\ edits' = edits + 1
    /\ UNCHANGED <<files, suggested, home, loaded>>

Load ==
    /\ loaded' = LoadConfig(document, home)
    /\ UNCHANGED <<files, suggested, pasted, document, home, edits>>

\* A program writes back what it loaded.
Save ==
    /\ loaded # NoConfig
    /\ loaded = LoadConfig(document, home)
    /\ document' = MarshalJSON(loaded)
    /\ UNCHANGED <<files, suggested, pasted, home, loaded, edits>>

Next ==
    \/ \E f \in AllFiles : Shoot(f)
    \/ \E root \in Roots, unreadable \in Unreadable : RunDiscover(root, unreadable)
    \/ Paste
    \/ \E member \in DOMAIN Values : \E value \in Values[member] : Edit(member, value)
    \/ Load
    \/ Save

Spec == Init /\ [][Next]_vars

-----------------------------------------------------------------------------
(* A configuration that loaded also loads once it is written back, and     *)
(* what runs with it is the same: the model and its endpoint, the times,   *)
(* the directories, the projects, the retries of a call and the gate of a  *)
(* pass (MarshalJSON against UnmarshalJSON, Normalize and Validate).       *)
SavedConfigRunsAlike ==
    loaded # NoConfig =>
        LET again == LoadConfig(MarshalJSON(loaded), home)
        IN  again # NoConfig /\ RunsAs(again) = RunsAs(loaded)

\* The images a pass captures for a project of the loaded configuration.
Captured(p) == ScanProject(loaded.Projects[p], files)

IsPasted == loaded # NoConfig /\ loaded = LoadConfig(document, home) /\ pasted # NoSuggestion

\* The names on the way to a directory are no patterns, and no pattern of another directory
\* matches them.
IsPlain(path) == \A i \in DOMAIN path : Matched[path[i]] = {path[i]}

ReadAsItself(dir) ==
    /\ IsPlain(AbsRoot \o dir)
    /\ \A other \in ScreenshotDirs(Dirs) :
          Reads(AbsRoot \o other, AbsRoot \o dir) => IsPlain(AbsRoot \o other)

(* When a suggestion was pasted and the configuration loads, a screenshot  *)
(* discover saw in a directory with a telling name is seen by the passes   *)
(* of exactly one project: they capture it or a newer one of its view, and *)
(* no other project captures it, however the directories are spread below  *)
(* the root.  Its extension is in lower case, it can be read as a view,    *)
(* and its path is neither taken for a pattern nor matched by a directory  *)
(* whose name is one (discover.go:227 joins names into patterns as they    *)
(* are).                                                                   *)
EveryScreenshotHasOneProject ==
    IsPasted =>
        \A f \in pasted.seen :
            /\ f.dir \in ScreenshotDirs(Dirs) /\ ReadAsItself(f.dir)
            /\ isScreenshotExtension(f.ext) /\ f.ext = Lower[f.ext] /\ f.view # NoView
            => \E p \in DOMAIN loaded.Projects :
                   /\ \E g \in Captured(p) : g.view = f.view /\ g.modified >= f.modified
                   /\ \A q \in DOMAIN loaded.Projects \ {p} : f \notin Captured(q)

(* discover.go:28 says of a suggested project that its absolute screenshot *)
(* globs cover everything the walker found for it.                         *)
GlobsCoverEverythingFound ==
    IsPasted => \A p \in DOMAIN pasted.projects :
                    pasted.projects[p].images \subseteq Matching(loaded.Projects[p], files)
=============================================================================
