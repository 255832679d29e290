------------------------------ MODULE LocalFiles ------------------------------
(* PPB_Flash_File_ModuleLocal: the plugin names files below its data directory *)
(* by paths of its own making.  to_abs_path resolves "." and ".." before the   *)
(* system sees the path, which is what keeps the plugin in its directory.      *)
EXTENDS Naturals, Sequences, FiniteSets, SequencesExt, FiniteSetsExt

CONSTANTS
  MaxPath,      \* bound on the length of the paths the plugin gives
  MaxResolved   \* bound on the length of the paths that are resolved for comparison

ASSUME LocalAssumption == MaxPath \in Nat /\ MaxResolved \in Nat

\* Characters, as far as to_abs_path tells them apart.
Letter == "a"
Chars == {"/", "\\", ".", Letter}
PathsUpTo(n) == UNION {[1..k -> Chars] : k \in 0..n}
EntryPaths == {<<Letter>>, <<Letter, Letter>>}   \* what can exist below the root, by its names
Modes == SUBSET {"write", "create", "exclusive"} \* reading is always possible

VARIABLES
  tree,      \* [EntryPaths -> "none", "file" or "dir"]
  outside,   \* whether anything outside the data directory was named
  lastLocal  \* the last call: [op, at, result]

localVars == <<tree, outside, lastLocal>>

LocalInit ==
  /\ tree = [e \in EntryPaths |-> "none"]
  /\ outside = FALSE
  /\ lastLocal = [op |-> "none", at |-> <<>>, result |-> "ok"]

-----------------------------------------------------------------------------
\* The written part up to its last slash, without the slash.
DropLast(dst) ==
  LET slashes == {k \in 1..Len(dst) : dst[k] = "/"} IN
  IF slashes = {} THEN <<>> ELSE SubSeq(dst, 1, Max(slashes) - 1)

\* Back over the dots just written, and for two of them over the name before.
Back(dst, dots) ==
  CASE dots = 1 -> DropLast(dst) [] dots = 2 -> DropLast(DropLast(dst)) [] OTHER -> dst

\* One character of the loop of to_abs_path.
ToAbsStep(s, c) ==
  CASE c \in {"/", "\\"} ->
         [dst |-> Append(Back(s.dst, s.dots), "/"), dots |-> 0, afterSlash |-> TRUE]
    [] c = "." ->
         [s EXCEPT !.dst = Append(@, "."), !.dots = IF s.afterSlash THEN @ + 1 ELSE @]
    [] OTHER -> [dst |-> Append(s.dst, c), dots |-> 0, afterSlash |-> FALSE]

\* Mutant: dots at the end of the path are left as they are.
AbsPathAsWritten(path) ==
  FoldLeft(ToAbsStep, [dst |-> <<>>, dots |-> 0, afterSlash |-> TRUE], <<"/">> \o path).dst

\* to_abs_path, below the root.
to_abs_path(path) ==
  LET s == FoldLeft(ToAbsStep, [dst |-> <<>>, dots |-> 0, afterSlash |-> TRUE],
                    <<"/">> \o path) IN
  IF s.afterSlash /\ s.dots \in {1, 2} THEN Append(Back(s.dst, s.dots), "/") ELSE s.dst

\* The names between the slashes, none of them empty.
SplitNames(s) ==
  FoldLeft(LAMBDA ns, c :
             IF c \in {"/", "\\"} THEN Append(ns, <<>>)
                                  ELSE [ns EXCEPT ![Len(ns)] = Append(@, c)],
           << <<>> >>, s)
Parts(s) == SelectSeq(SplitNames(s), LAMBDA n : n # <<>>)

Above == << <<".", ".">> >>
\* How the system resolves a path from the root: Above once it leaves it.
SystemResolves(s) ==
  FoldLeft(LAMBDA at, n :
             IF at = Above \/ n = <<".">> THEN at
             ELSE IF n = <<".", ".">> THEN IF at = <<>> THEN Above ELSE SubSeq(at, 1, Len(at) - 1)
             ELSE Append(at, n),
           <<>>, Parts(s))

\* Where the call ends up: an entry by its names, and whether it has to be a directory.
Reach(path) == SystemResolves(to_abs_path(path))
NeedsDir(path) == LET s == to_abs_path(path) IN s[Len(s)] = "/"

\* The paths of the model's plugin, as far as they stay among the modelled entries.
Flat(names) == [k \in 1..Len(names) |-> IF names[k] = <<Letter>> THEN Letter ELSE "other"]
LocalPaths ==
  {p \in PathsUpTo(MaxPath) :
     /\ "\\" \notin Range(p)
     /\ Reach(p) \in {Above, <<>>} \/ Flat(Reach(p)) \in EntryPaths}

-----------------------------------------------------------------------------
Kind(t, at) == IF at = <<>> THEN "dir" ELSE IF at = Above THEN "dir" ELSE t[Flat(at)]
Parent(at) == SubSeq(at, 1, Len(at) - 1)
InPlace(t, at) == at = <<>> \/ at = Above \/ Kind(t, Parent(at)) = "dir"

\* create_subdirectories_recursively: everything before the last slash, as far as the system
\* makes it: a file in the way, or a full disk, stops it, and nobody looks.
MakeDir(t, at) ==
  IF Kind(t, at) = "none" /\ InPlace(t, at) THEN [t EXCEPT ![Flat(at)] = "dir"] ELSE t
Subdirs(t, path) ==
  LET at == Reach(path)
      way == IF at \in {<<>>, Above} THEN <<>> ELSE IF NeedsDir(path) THEN at ELSE Parent(at) IN
  {FoldLeft(LAMBDA u, k : MakeDir(u, SubSeq(way, 1, k)), t, [k \in 1..n |-> k]) : n \in 0..Len(way)}

Answer(op, path, result) ==
  /\ lastLocal' = [op |-> op, at |-> Reach(path), result |-> result]
  /\ outside' = (outside \/ Reach(path) = Above)

\* ppb_flash_file_modulelocal_open_file.  The system opens what exists, except a directory
\* for writing, and makes what does not if it may.
OpenFile(path, mode) ==
  LET at == Reach(path)
      kind(t) == Kind(t, at) IN
  \E t \in IF "create" \in mode THEN Subdirs(tree, path) ELSE {tree} :
    \/ /\ kind(t) = "file" /\ ~NeedsDir(path) /\ ~({"create", "exclusive"} \subseteq mode)
       /\ tree' = t /\ Answer("open", path, "ok")
    \/ /\ kind(t) = "dir" /\ mode \cap {"write", "create"} = {}
       /\ tree' = t /\ Answer("open", path, "ok")
    \/ /\ kind(t) = "none" /\ InPlace(t, at) /\ "create" \in mode /\ ~NeedsDir(path)
       /\ tree' = [t EXCEPT ![Flat(at)] = "file"] /\ Answer("open", path, "ok")
    \/ /\ tree' = t
       /\ Answer("open", path, IF kind(t) = "none" /\ "create" \notin mode
                                  THEN "not_found" ELSE "failed")

\* ppb_flash_file_modulelocal_create_dir: one that is there already is a success too, and so
\* is a file of that name.
CreateDir(path) ==
  LET at == Reach(path) IN
  \E t \in Subdirs(tree, path) :
    \/ /\ Kind(t, at) = "none" /\ InPlace(t, at)
       /\ tree' = [t EXCEPT ![Flat(at)] = "dir"] /\ Answer("mkdir", path, "ok")
    \/ /\ Kind(t, at) # "none"
       /\ tree' = t /\ Answer("mkdir", path, "ok")
    \/ Kind(t, at) = "none" /\ tree' = t /\ Answer("mkdir", path, "failed")

\* ppb_flash_file_modulelocal_delete_file_or_dir: files only, recursive or not.
DeleteFileOrDir(path) ==
  LET at == Reach(path) IN
  \/ /\ Kind(tree, at) = "file" /\ ~NeedsDir(path)
     /\ tree' = [tree EXCEPT ![Flat(at)] = "none"] /\ Answer("delete", path, "ok")
  \/ tree' = tree /\ Answer("delete", path, "failed")

\* ppb_flash_file_modulelocal_rename_file, for files.
RenameFile(from, to) ==
  LET a == Reach(from)
      b == Reach(to) IN
  \/ /\ Kind(tree, a) = "file" /\ ~NeedsDir(from) /\ ~NeedsDir(to)
     /\ Kind(tree, b) \in {"none", "file"} /\ InPlace(tree, b)
     /\ tree' = [[tree EXCEPT ![Flat(a)] = "none"] EXCEPT ![Flat(b)] = "file"]
     /\ Answer("rename", to, "ok")
  \/ tree' = tree /\ Answer("rename", to, "failed")

\* ppb_flash_file_modulelocal_query_file.
QueryFile(path) ==
  /\ Answer("query", path, IF Kind(tree, Reach(path)) = "none" THEN "not_found" ELSE "ok")
  /\ UNCHANGED tree

\* ppb_flash_file_modulelocal_get_dir_contents: the names in a directory.
GetDirContents(path) ==
  /\ Answer("list", path, IF Kind(tree, Reach(path)) = "dir" THEN "ok" ELSE "failed")
  /\ UNCHANGED tree

LocalNext ==
  \E path \in LocalPaths :
    \/ \E mode \in Modes : OpenFile(path, mode)
    \/ CreateDir(path) \/ DeleteFileOrDir(path) \/ QueryFile(path) \/ GetDirContents(path)
    \/ \E to \in LocalPaths : RenameFile(path, to)

-----------------------------------------------------------------------------
\* The reference: names in turn, where ".." at the root stays at the root.
Resolved(path) ==
  FoldLeft(LAMBDA at, n :
             CASE n = <<".">> -> at
               [] n = <<".", ".">> -> IF at = <<>> THEN at ELSE SubSeq(at, 1, Len(at) - 1)
               [] OTHER -> Append(at, n),
           <<>>, Parts(path))

NoEmptyName(p) ==
  LET q == <<"/">> \o p IN \A k \in 2..Len(q) : ~({q[k-1], q[k]} \subseteq {"/", "\\"})

\* A path names what its names say, one after the other, unless a name in it is empty: the
\* code takes back an empty name where the system would take back the one before it.
PathsAreResolved ==
  \A p \in PathsUpTo(MaxResolved) :
    LET at == Reach(p) IN
    /\ at # Above
    /\ NoEmptyName(p) => at = Resolved(p)

\* Nothing the plugin names is outside its data directory (to_abs_path), and a call that
\* succeeded left what was asked for: an opened or made entry exists, a deleted one does not.
LocalFilesStayLocal ==
  /\ PathsAreResolved
  /\ ~outside
  /\ lastLocal.result = "ok" /\ lastLocal.op # "none" =>
       (Kind(tree, lastLocal.at) = "none" <=> lastLocal.op = "delete")
=============================================================================
