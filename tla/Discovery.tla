----------------------------- MODULE Discovery -----------------------------
(***************************************************************************)
(* visionreviewd discover (discover.go): a walk of a directory tree that   *)
(* counts the screenshots in directories with a telling name and suggests  *)
(* projects with globs for them, and what those globs find when a pass     *)
(* scans them (scan.go).                                                   *)
(*                                                                         *)
(* A directory is the sequence of names from the root of the walk.  A file *)
(* is its directory, its extension as it is written, the view its name     *)
(* stands for, and when it was modified.                                   *)
(***************************************************************************)
EXTENDS Integers, Sequences, FiniteSets

CONSTANTS
    Lower,     \* Lower[s]: a name or extension in lower case
    RootName,  \* the base name of the root
    AbsRoot,   \* the absolute path of the root
    Matched,   \* Matched[name]: the names that a directory's name matches in a pattern;
               \* one without any of * ? [ \\ in it matches itself
    NoView     \* a name that is no view key, or a file that cannot be read

ScreenshotExtensions == {".png", ".jpg", ".jpeg", ".webp"}

isScreenshotDirBase(base) == base \in {"gallery-shots", "screenshots", "ui-screenshots"}

isWalkSkipDir(name) ==
    name \in {".git", ".cache", ".venv", "node_modules", "result", "target", "vendor"}

\* A directory the walk enters: no name on its way is skipped.
Entered(dir) == \A i \in DOMAIN dir : ~isWalkSkipDir(dir[i])

ParentBase(dir) == IF Len(dir) = 1 THEN RootName ELSE dir[Len(dir) - 1]

isScreenshotDir(dir) ==
    /\ dir # <<>>
    /\ \/ isScreenshotDirBase(dir[Len(dir)])
       \/ dir[Len(dir)] = "visual" /\ ParentBase(dir) = "testdata"

\* The first name under the root owns a directory, or the root itself.
projectOf(dir) == IF Len(dir) = 1 THEN Lower[RootName] ELSE Lower[dir[1]]

isScreenshotExtension(ext) == Lower[ext] \in ScreenshotExtensions

ImagesIn(files, dir) == {f \in files : f.dir = dir /\ isScreenshotExtension(f.ext)}

countImagesByExtension(files, dir) ==
    [ext \in {Lower[f.ext] : f \in ImagesIn(files, dir)} |->
        Cardinality({f \in ImagesIn(files, dir) : Lower[f.ext] = ext})]

ScreenshotDirs(dirs) == {dir \in dirs : Entered(dir) /\ isScreenshotDir(dir)}

Found(dirs) == {projectOf(dir) : dir \in ScreenshotDirs(dirs)}

\* (mutant) a project starts anew with each of its directories
LastDirOf(dirs, project) ==
    {CHOOSE dir \in ScreenshotDirs(dirs) : projectOf(dir) = project}

DirsOf(dirs, project) == {dir \in ScreenshotDirs(dirs) : projectOf(dir) = project}

\* One glob for each extension in each directory of the project, under the root as
\* it was given.
suggestionOf(root, dirs, files, project) ==
    [globs |-> UNION {{[dir |-> root \o dir, ext |-> ext] :
                          ext \in DOMAIN countImagesByExtension(files, dir)} :
                      dir \in DirsOf(dirs, project)},
     images |-> UNION {ImagesIn(files, dir) : dir \in DirsOf(dirs, project)}]

\* A directory on the way that cannot be read fails the whole walk.
WalkFails(dirs, unreadable) == \E dir \in dirs \cap unreadable : Entered(dir)

DiscoverProjects(root, dirs, files) ==
    [p \in Found(dirs) |-> suggestionOf(root, dirs, files, p)]

-----------------------------------------------------------------------------
\* filepath.Glob matches each name on the way to a file against the pattern's, and the
\* extension behind "*" as it is written.
Reads(pattern, path) ==
    Len(pattern) = Len(path) /\ \A i \in DOMAIN path : path[i] \in Matched[pattern[i]]

GlobMatches(glob, file) == Reads(glob.dir, AbsRoot \o file.dir) /\ glob.ext = file.ext

Matching(globs, files) == {f \in files : \E g \in globs : GlobMatches(g, f)}

\* A match is taken when it is a screenshot that captureOf can name and read.
Taken(globs, files) ==
    {f \in Matching(globs, files) : isScreenshotExtension(f.ext) /\ f.view # NoView}

\* The newest file of a view; of equally new ones the code has the first it came to.
latest(taken, view) ==
    CHOOSE f \in taken : f.view = view /\ \A g \in taken : g.view = view => g.modified <= f.modified

\* One capture for each view.
ScanProject(globs, files) ==
    LET taken == Taken(globs, files)
    IN  {latest(taken, view) : view \in {f.view : f \in taken}}
=============================================================================
