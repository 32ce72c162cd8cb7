---------------------------- MODULE CatalogPaths ----------------------------
(***************************************************************************)
(* The paths of a command and the files below them: ResolvedPath,          *)
(* CatalogDirectory and CatalogLeaf of conkit/catalog/path.rs, the walks   *)
(* of catalog/source.rs and catalog/store.rs that use them.  A command     *)
(* resolves its roots once, opens each once, reads what is below them and  *)
(* changes one name below the contracts root; between any two system calls *)
(* somebody else may unlink, move away or replace an entry by a link.      *)
(*                                                                         *)
(* The disk is a set of nodes: directories with their entries, files, and  *)
(* links with a path from the top.  A handle is a node and keeps it,       *)
(* whatever happens to its name.                                           *)
(***************************************************************************)
EXTENDS Naturals, Sequences, SequencesExt, FiniteSets

CONSTANTS
    Node,        \* the nodes a disk may have; Top is the first
    Top,
    Found,       \* the disk, and the errand: the roots, the name below one of them, what is
                 \* done with it, and how often somebody else may change the disk meanwhile
    Away,        \* the entry of Top that something is moved away to
    Outside,     \* where a link put in by somebody else leads
    Fuel         \* bound: links followed in one path

VARIABLES
    volume,      \* node -> what it is
    swaps,       \* changes by somebody else
    errand,      \* the paths chosen by the user
    stage,       \* the next step of the command, or how it ended
    retained,    \* the handle of each root, once it is open
    frames,      \* the directories being read, innermost last
    focus,       \* the directory and the name the next step is about
    within,      \* the components of the name still to be walked
    seen,        \* the files read, per root
    reach,       \* history: everything that ever was below a root since it was opened
    touched,     \* history: everything opened, made or changed, per root
    original     \* history: the disk the command found

pathVars == <<volume, swaps, errand, stage, retained, frames, focus, within, seen, reach, touched, original>>

NoNode == 0
Roles == {"source", "contracts"}
Blank(kind) == [kind |-> kind, entries |-> <<>>, to |-> <<>>, text |-> "none"]
Spare(d) == {n \in Node : d[n].kind = "unused"}
NextFree(d) == CHOOSE n \in Spare(d) : \A k \in Spare(d) : n <= k
KindOf(d, n, name) == IF name \in DOMAIN d[n].entries THEN d[d[n].entries[name]].kind ELSE "missing"
Without(entries, name) == [k \in DOMAIN entries \ {name} |-> entries[k]]
Joining(entries, name, n) == [k \in DOMAIN entries \cup {name} |-> IF k = name THEN n ELSE entries[k]]

\* What is below some nodes by real entries, the nodes with it.
RECURSIVE Below(_, _)
Below(d, nodes) ==
    LET more == nodes \cup UNION {{d[n].entries[k] : k \in DOMAIN d[n].entries} : n \in nodes}
    IN  IF more = nodes THEN nodes ELSE Below(d, more)

-----------------------------------------------------------------------------
(* Paths from the top, links followed: the names and nodes of the real path. *)

Location(status, names, nodes) == [status |-> status, names |-> names, nodes |-> nodes]
AtTop == Location("ok", <<>>, <<Top>>)
Here(at) == Last(at.nodes)
Up(at) == IF at.names = <<>> THEN at ELSE Location("ok", Front(at.names), Front(at.nodes))
RECURSIVE Canonical(_, _, _, _)
Canonical(d, at, rest, fuel) ==
    IF rest = <<>> THEN at
    ELSE IF d[Here(at)].kind # "dir" THEN Location("not_dir", <<>>, <<>>)
    ELSE IF Head(rest) = ".." THEN Canonical(d, Up(at), Tail(rest), fuel)
    ELSE IF KindOf(d, Here(at), Head(rest)) = "missing" THEN Location("missing", <<>>, <<>>)
    ELSE LET n == d[Here(at)].entries[Head(rest)]
         IN  IF d[n].kind # "link"
             THEN Canonical(d, Location("ok", Append(at.names, Head(rest)), Append(at.nodes, n)), Tail(rest), fuel)
             ELSE IF fuel = 0 THEN Location("loop", <<>>, <<>>)
             ELSE Canonical(d, AtTop, d[n].to \o Tail(rest), fuel - 1)
Followed(d, path) == Canonical(d, AtTop, path, Fuel)

\* What the last name of a path is, a link not followed.
Lexical(d, path) ==
    LET parent == Followed(d, Front(path))
    IN  IF path = <<>> \/ Last(path) = ".." THEN Followed(d, path).status
        ELSE IF parent.status # "ok" THEN parent.status
        ELSE IF d[Here(parent)].kind # "dir" THEN "not_dir"
        ELSE KindOf(d, Here(parent), Last(path))

\* ResolvedPath::new: the nearest ancestor that is there, and the rest as it is spelled.
SpelledFrom(names, suffix) == FoldLeft(LAMBDA at, c : IF c = ".." THEN Front(at) ELSE Append(at, c), names, suffix)
RECURSIVE ResolvedFrom(_, _, _)
ResolvedFrom(d, path, k) ==
    LET head == SubSeq(path, 1, k)
        found == Followed(d, head)
        rest == SubSeq(path, k + 1, Len(path))
    IN  IF found.status = "ok"
        THEN IF rest # <<>> /\ d[Here(found)].kind # "dir" THEN [ok |-> FALSE, names |-> <<>>]
             ELSE [ok |-> TRUE, names |-> SpelledFrom(found.names, rest)]
        ELSE IF found.status = "missing" /\ Lexical(d, head) = "missing" THEN ResolvedFrom(d, path, k - 1)
        ELSE [ok |-> FALSE, names |-> <<>>]
Resolved(d, path) == ResolvedFrom(d, path, Len(path))
Disjoint(one, other) == ~IsPrefix(one, other) /\ ~IsPrefix(other, one)
\* relative_path_to: up to what both share, then down.
Shared(one, other) == LongestCommonPrefix({one, other})
RelativePath(from, to) ==
    LET n == Len(Shared(from, to))
    IN  [i \in 1..(Len(from) - n) |-> ".."] \o SubSeq(to, n + 1, Len(to))

-----------------------------------------------------------------------------
PathsInit ==
    /\ \E f \in Found : volume = f.disk /\ errand = f.errand
    /\ swaps = 0 /\ stage = "resolve" /\ retained = [r \in Roles |-> NoNode] /\ frames = <<>>
    /\ focus = [role |-> "source", node |-> Top, name |-> ""] /\ within = <<>>
    /\ seen = [r \in Roles |-> {}] /\ reach = [r \in Roles |-> {}] /\ touched = [r \in Roles |-> {}]
    /\ original = volume

Role == focus.role
\* Somebody else may go on, the command does not.
Ended == {"done", "failed", "refused"}
Now(next) == stage' = next
Look(kind) == KindOf(volume, focus.node, focus.name) = kind
\* Nodes opened, made or changed by a step; a root that is open keeps everything below it.
Touch(nodes) == touched' = [touched EXCEPT ![Role] = @ \cup nodes]
Reach == reach' = [r \in Roles |-> IF retained'[r] = NoNode THEN {} ELSE Below(volume', reach[r] \cup {retained'[r]})]
Untouched == UNCHANGED touched
SameDisk == UNCHANGED volume
Aim(node, name) == focus' = [focus EXCEPT !.node = node, !.name = name]

\* ensure_disjoint over the roots of the command.
Resolve ==
    /\ stage = "resolve"
    /\ LET one == Resolved(volume, errand.source)
           two == Resolved(volume, errand.contracts)
       IN  IF one.ok /\ two.ok /\ Disjoint(one.names, two.names) THEN Now("open") ELSE Now("refused")
    /\ SameDisk /\ Untouched /\ UNCHANGED <<retained, frames, focus, within, seen>>

\* is_lexically_absent: a contracts root that is not there is read as empty.
Absence ==
    /\ stage = "absence"
    /\ IF retained.contracts = NoNode /\ Lexical(volume, errand.contracts) = "missing"
       THEN Now("leaf") ELSE Now("open")
    /\ SameDisk /\ Untouched /\ UNCHANGED <<retained, frames, focus, within, seen>>

\* A name is opened without following a link.
Following(d, n, name) ==
    LET e == IF name \in DOMAIN d[n].entries THEN d[n].entries[name] ELSE n
        to == Followed(d, d[e].to)
    IN  IF d[e].kind = "link" THEN to ELSE Location(IF KindOf(d, n, name) = "missing" THEN "failed" ELSE "ok", <<name>>, <<e>>)
NoFollow(d, n, name) == Location(IF KindOf(d, n, name) \in {"missing", "link"} THEN "failed" ELSE "ok",
                                 <<name>>, <<IF name \in DOMAIN d[n].entries THEN d[n].entries[name] ELSE n>>)
Direct == NoFollow(volume, focus.node, focus.name)
\* open_selected_file: one listed source, read and not written.
Selecting == errand.act = "select"
\* acquire_root: the selected path is opened once, links followed.
Retain(n, next) == retained' = [retained EXCEPT ![Role] = n] /\ Touch({n}) /\ Now(next)
Frame(node, path) == [node |-> node, path |-> path, listed |-> FALSE, pending |-> {}]
OpenRoot ==
    /\ stage = "open"
    /\ LET found == Followed(volume, errand[Role])
       IN  IF found.status = "ok" /\ volume[Here(found)].kind = "dir"
           THEN /\ Retain(Here(found), IF Role = "contracts" THEN "namespace"
                                      ELSE IF Selecting THEN "component" ELSE "list")
                /\ frames' = <<Frame(Here(found), <<>>)>>
                /\ IF Selecting THEN Aim(Here(found), Head(errand.name)) /\ within' = errand.name
                   ELSE UNCHANGED <<focus, within>>
           ELSE Now("failed") /\ Untouched /\ UNCHANGED <<retained, frames, focus, within>>
    /\ SameDisk /\ UNCHANGED seen

\* validate_reserved_namespace: what the tool keeps below the contracts root is a
\* directory of that exact name, with its own files and nothing else.
Metadata == "m"
Spellings == {Metadata, "M"}
OwnNames == {"own", "lock"}
Namespace ==
    /\ stage = "namespace"
    /\ LET names == DOMAIN volume[retained.contracts].entries \cap Spellings
       IN  /\ Now(IF names = {} THEN "list" ELSE IF names = {Metadata} THEN "metadata" ELSE "failed")
           /\ Aim(retained.contracts, Metadata)
    /\ SameDisk /\ Untouched /\ UNCHANGED <<retained, frames, within, seen>>
OpenMetadata ==
    /\ stage = "metadata"
    /\ Now(IF Look("dir") THEN "own_names" ELSE "failed")
    /\ SameDisk /\ Untouched /\ UNCHANGED <<retained, frames, focus, within, seen>>
OwnFiles ==
    /\ stage = "own_names"
    /\ IF Direct.status # "ok" \/ volume[Here(Direct)].kind # "dir" THEN Now("failed") /\ Untouched
       ELSE LET entries == volume[Here(Direct)].entries
            IN  /\ Touch({Here(Direct)})
                /\ Now(IF \A k \in DOMAIN entries : k \in OwnNames /\ volume[entries[k]].kind = "file"
                       THEN "list" ELSE "failed")
    /\ SameDisk /\ UNCHANGED <<retained, frames, focus, within, seen>>

\* A leaf below a root that is not open yet: the root and its parents are made when absent.
OpenToWrite ==
    /\ stage = "leaf"
    /\ within' = errand.name
    /\ LET found == Followed(volume, errand.contracts)
       IN  IF Head(errand.name) \in Spellings /\ errand.act # "lock"
           THEN Now("failed") /\ Untouched /\ UNCHANGED <<retained, focus>>
           ELSE IF retained.contracts # NoNode
           THEN Now("component") /\ Aim(retained.contracts, Head(errand.name)) /\ Untouched /\ UNCHANGED retained
           ELSE IF found.status = "ok" /\ volume[Here(found)].kind = "dir"
           THEN Retain(Here(found), "component") /\ Aim(Here(found), Head(errand.name))
           ELSE /\ IF found.status = "missing" /\ Lexical(volume, errand.contracts) = "missing"
                   THEN Now("make_root") ELSE Now("failed")
                /\ Untouched /\ UNCHANGED <<retained, focus>>
    /\ SameDisk /\ UNCHANGED <<frames, seen>>
\* create_ambient_dir_all: the missing names of the path, each below the one before.
RECURSIVE Made(_, _)
Made(d, path) ==
    IF path = <<>> \/ Followed(d, path).status # "missing" THEN d
    ELSE LET above == Made(d, Front(path))
             parent == Followed(above, Front(path))
             n == NextFree(above)
         IN  IF parent.status # "ok" \/ Last(path) = ".." \/ Lexical(above, path) # "missing" THEN above
             ELSE [above EXCEPT ![n] = Blank("dir"), ![Here(parent)].entries = Joining(@, Last(path), n)]
MakeRoot ==
    /\ stage = "make_root"
    /\ volume' = Made(volume, errand.contracts)
    /\ Now("reopen")
    /\ Untouched /\ UNCHANGED <<retained, frames, focus, within, seen>>
Reopen ==
    /\ stage = "reopen"
    /\ LET found == Followed(volume, errand.contracts)
       IN  IF found.status = "ok" /\ volume[Here(found)].kind = "dir"
           THEN Retain(Here(found), "component") /\ Aim(Here(found), Head(within))
           ELSE Now("failed") /\ Untouched /\ UNCHANGED <<retained, focus>>
    /\ SameDisk /\ UNCHANGED <<frames, within, seen>>

-----------------------------------------------------------------------------
(* Reading everything below a root. *)

Inner == Last(frames)
List ==
    /\ stage = "list" /\ ~Inner.listed
    /\ LET entries == volume[Inner.node].entries
       IN  frames' = [frames EXCEPT ![Len(frames)].listed = TRUE,
                          ![Len(frames)].pending = {[name |-> k, kind |-> volume[entries[k]].kind] : k \in DOMAIN entries}]
    /\ SameDisk /\ Untouched /\ UNCHANGED <<stage, retained, focus, within, seen>>

\* The metadata directory is not part of the catalog, and a source is Rust.
Rust == {"f.rs"}
Participates(e) ==
    /\ e.kind \in {"dir", "file"}
    /\ Role = "contracts" => ~(e.name = Metadata /\ Inner.path = <<>>)
    /\ Role = "source" => e.kind = "dir" \/ e.name \in Rust
Visit ==
    /\ stage = "list" /\ Inner.listed
    /\ \E e \in Inner.pending :
         /\ frames' = [frames EXCEPT ![Len(frames)].pending = @ \ {e}]
         /\ IF ~Participates(e) THEN UNCHANGED <<stage, focus>>
            ELSE /\ Aim(Inner.node, e.name)
                 /\ Now(IF e.kind = "dir" THEN "child" ELSE "regular")
    /\ SameDisk /\ Untouched /\ UNCHANGED <<retained, within, seen>>

\* A directory is left; after the last one the command goes on to its next root.
Leave ==
    /\ stage = "list" /\ Inner.listed /\ Inner.pending = {}
    /\ frames' = Front(frames)
    /\ IF Len(frames) > 1 THEN UNCHANGED <<stage, focus>>
       ELSE /\ Now(IF Role = "source" THEN "absence" ELSE "leaf")
            /\ focus' = [focus EXCEPT !.role = "contracts"]
    /\ SameDisk /\ Untouched /\ UNCHANGED <<retained, within, seen>>

\* open_directory_child: looked at, then opened without following it.
Child ==
    /\ stage = "child"
    /\ IF Look("dir") THEN Now("enter") ELSE Now("failed")
    /\ SameDisk /\ Untouched /\ UNCHANGED <<retained, frames, focus, within, seen>>
Enter ==
    /\ stage = "enter"
    /\ IF Direct.status # "ok" \/ volume[Here(Direct)].kind # "dir"
       THEN Now("failed") /\ Untouched /\ UNCHANGED <<frames, focus, within>>
       ELSE /\ Touch({Here(Direct)})
            /\ IF within = <<>>
               THEN /\ frames' = Append(frames, Frame(Here(Direct), Append(Inner.path, focus.name)))
                    /\ Now("list") /\ UNCHANGED <<focus, within>>
               ELSE /\ within' = Tail(within) /\ Aim(Here(Direct), Head(within'))
                    /\ Now("component") /\ UNCHANGED frames
    /\ SameDisk /\ UNCHANGED <<retained, seen>>

\* open_regular: looked at, opened without following it, and looked at again.
Regular ==
    /\ stage = "regular"
    /\ IF Look("file") THEN Now("read") ELSE Now("failed")
    /\ SameDisk /\ Untouched /\ UNCHANGED <<retained, frames, focus, within, seen>>
Read ==
    /\ stage = "read"
    /\ IF Direct.status # "ok" THEN Now("failed") /\ Untouched /\ UNCHANGED seen
       ELSE /\ Touch({Here(Direct)})
            /\ IF volume[Here(Direct)].kind # "file" THEN Now("failed") /\ UNCHANGED seen
               ELSE /\ Now(IF Selecting THEN "done" ELSE "list")
                    /\ LET path == IF Selecting THEN errand.name ELSE Append(Inner.path, focus.name)
                       IN  seen' = [seen EXCEPT ![Role] = @ \cup {[path |-> path, text |-> volume[Here(Direct)].text]}]
    /\ SameDisk /\ UNCHANGED <<retained, frames, focus, within>>

-----------------------------------------------------------------------------
(* Changing one name below the contracts root. *)

\* CatalogDirectory::leaf: the components before the last are entered, or made.
Component ==
    /\ stage = "component"
    /\ Now(IF Len(within) = 1 THEN IF Selecting THEN "regular" ELSE errand.act
           ELSE IF Look("dir") THEN "enter"
           ELSE IF Look("missing") /\ ~Selecting THEN "make" ELSE "failed")
    /\ SameDisk /\ Untouched /\ UNCHANGED <<retained, frames, focus, within, seen>>

Put(name, kind, text) ==
    LET n == NextFree(volume)
    IN  /\ volume' = [volume EXCEPT ![n] = [Blank(kind) EXCEPT !.text = text], ![focus.node].entries = Joining(@, name, n)]
        /\ Touch({n, focus.node})
Take(name) ==
    /\ volume' = [volume EXCEPT ![focus.node].entries = Without(@, name)]
    /\ Touch({focus.node})

\* create_directory_child: looked at again; somebody else may have made it meanwhile.
Make ==
    /\ stage = "make"
    /\ IF Look("missing") THEN Put(focus.name, "dir", "none") /\ Now("child")
       ELSE SameDisk /\ Untouched /\ Now(IF Look("dir") THEN "child" ELSE "failed")
    /\ UNCHANGED <<retained, frames, focus, within, seen>>

\* ContractPublication: a new sibling is written and renamed over the name.
Sibling == "t"
Prepare ==
    /\ stage = "publish"
    /\ Put(Sibling, "file", "new") /\ Now("rename")
    /\ UNCHANGED <<retained, frames, focus, within, seen>>
Rename ==
    /\ stage = "rename"
    /\ IF KindOf(volume, focus.node, Sibling) = "missing" THEN Now("failed") /\ SameDisk /\ Untouched
       ELSE IF Look("dir") THEN Take(Sibling) /\ Now("failed")
       ELSE /\ volume' = [volume EXCEPT ![focus.node].entries =
                            Joining(Without(@, Sibling), focus.name, @[Sibling])]
            /\ Touch({focus.node}) /\ Now("done")
    /\ UNCHANGED <<retained, frames, focus, within, seen>>

\* open_lock_file: looked at, then opened or made without following it.
Lock ==
    /\ stage = "lock"
    /\ Now(IF Look("missing") \/ Look("file") THEN "open_lock" ELSE "failed")
    /\ SameDisk /\ Untouched /\ UNCHANGED <<retained, frames, focus, within, seen>>
OpenLock ==
    /\ stage = "open_lock"
    /\ IF Look("missing") THEN Put(focus.name, "file", "empty") /\ Now("done")
       ELSE /\ SameDisk
            /\ IF Direct.status = "ok" /\ volume[Here(Direct)].kind = "file"
               THEN Touch({Here(Direct)}) /\ Now("done") ELSE Untouched /\ Now("failed")
    /\ UNCHANGED <<retained, frames, focus, within, seen>>

\* write_new_synced: made where there is nothing; taken away again when it cannot be written.
WriteNew ==
    /\ stage = "new"
    /\ IF Look("missing") THEN Put(focus.name, "file", "new") /\ (Now("done") \/ Now("undo"))
       ELSE Now("failed") /\ SameDisk /\ Untouched
    /\ UNCHANGED <<retained, frames, focus, within, seen>>
Undo ==
    /\ stage = "undo"
    /\ IF Look("missing") \/ Look("dir") THEN SameDisk /\ Untouched ELSE Take(focus.name)
    /\ Now("failed")
    /\ UNCHANGED <<retained, frames, focus, within, seen>>

\* remove_file.
RemoveFile ==
    /\ stage = "remove"
    /\ IF Look("missing") \/ Look("dir") THEN Now("failed") /\ SameDisk /\ Untouched
       ELSE Take(focus.name) /\ Now("done")
    /\ UNCHANGED <<retained, frames, focus, within, seen>>

PathStep ==
    /\ \/ Resolve \/ Absence \/ OpenRoot \/ Namespace \/ OpenMetadata \/ OwnFiles \/ OpenToWrite \/ MakeRoot \/ Reopen
       \/ List \/ Visit \/ Leave \/ Child \/ Enter \/ Regular \/ Read
       \/ Component \/ Make \/ Prepare \/ Rename \/ Lock \/ OpenLock \/ WriteNew \/ Undo \/ RemoveFile
    /\ Reach
    /\ UNCHANGED <<swaps, errand, original>>

\* Somebody else unlinks an entry, or moves it away and leaves nothing, a link or a new
\* directory in its place, or makes the contracts root.
Swap ==
    /\ stage \notin Ended \cup {"resolve"} /\ swaps < errand.swaps
    /\ swaps' = swaps + 1
    /\ \/ Followed(volume, errand.contracts).status = "missing" /\ volume' = Made(volume, errand.contracts)
       \/ \E n \in Below(volume, {Top}) : \E k \in DOMAIN volume[n].entries :
            LET old == volume[n].entries[k]
                new == NextFree(volume)
                moved == [volume EXCEPT ![n].entries = Without(@, k)]
                kept == [moved EXCEPT ![Top].entries = Joining(@, Away, old)]
            IN  /\ <<n, k>> \notin {<<Top, Away>>, <<Top, Outside[1]>>}
                /\ \/ volume[old].entries = <<>> /\ volume' = moved
                   \/ Away \notin DOMAIN volume[Top].entries /\ volume' = kept
                   \/ /\ Away \notin DOMAIN volume[Top].entries
                      /\ \E other \in {[Blank("link") EXCEPT !.to = Outside], Blank("dir")} :
                           volume' = [kept EXCEPT ![new] = other, ![n].entries = Joining(@, k, new)]
    /\ UNCHANGED <<errand, stage, retained, frames, focus, within, seen, touched, original>>
    /\ Reach

PathNext == PathStep \/ Swap

-----------------------------------------------------------------------------
(* Properties *)

\* Whatever is put in place of an entry, a command opens, makes and changes only what
\* really was below the directory its root named when it was opened, and keeps to that
\* one directory until it ends.
Confined == \A r \in Roles : touched[r] \subseteq reach[r]

\* Roots accepted as disjoint are so on the disk, links and missing parents included, and
\* the path from one to the other leads there.  A path that climbs back out of a directory
\* that is not there is spelled out and not looked up: such a path is left out here.
ClimbsBack(path) ==
    \E k \in 1..Len(path) : path[k] = ".." /\ Followed(original, SubSeq(path, 1, k - 1)).status = "missing"
RootsAreApart ==
    (swaps = 0 /\ ~ClimbsBack(errand.contracts) /\ \A r \in Roles : retained[r] # NoNode) =>
        /\ retained.source \notin Below(volume, {retained.contracts})
        /\ retained.contracts \notin Below(volume, {retained.source})
        /\ LET from == Followed(volume, errand.contracts)
               across == RelativePath(Resolved(original, errand.contracts).names, Resolved(original, errand.source).names)
           IN  Here(Canonical(volume, from, across, 0)) = retained.source

\* Undisturbed, a command reads exactly the regular files below its roots, and fails exactly
\* when a root is no directory or the name is behind, or is, something it does not replace.
RECURSIVE FilesBelow(_, _)
FilesBelow(n, path) ==
    UNION {LET e == original[n].entries[k]
               here == Append(path, k)
           IN  CASE original[e].kind = "file" -> {[path |-> here, text |-> original[e].text]}
                 [] original[e].kind = "dir" -> FilesBelow(e, here)
                 [] OTHER -> {} : k \in DOMAIN original[n].entries}
Expected(r) ==
    {x \in FilesBelow(Here(Followed(original, errand[r])), <<>>) :
        IF Selecting THEN r = "source" /\ x.path = errand.name ELSE IF r = "source" THEN Last(x.path) \in Rust ELSE Head(x.path) # Metadata}
RECURSIVE Obstructed(_, _)
Obstructed(n, name) ==
    LET kind == KindOf(original, n, Head(name))
    IN  IF Len(name) = 1
        THEN kind \notin (CASE errand.act = "publish" -> {"missing", "file", "link"}
                            [] errand.act = "lock" -> {"missing", "file"}
                            [] errand.act = "new" -> {"missing"}
                            [] errand.act = "remove" -> {"file", "link"}
                            [] errand.act = "select" -> {"file"})
        ELSE \/ kind \in {"link", "file"} \/ (kind = "missing" /\ errand.act \in {"remove", "select"})
             \/ (kind = "dir" /\ Obstructed(original[n].entries[Head(name)], Tail(name)))
IsDirectory(r) == LET at == Followed(original, errand[r]) IN at.status = "ok" /\ original[Here(at)].kind = "dir"
\* The reserved directory is what the tool made it.
Reserved(n) ==
    LET names == DOMAIN original[n].entries \cap Spellings
        own == original[original[n].entries[Metadata]]
    IN  /\ names # {} => names = {Metadata} /\ own.kind = "dir"
        /\ names # {} => \A k \in DOMAIN own.entries : k \in OwnNames /\ original[own.entries[k]].kind = "file"
NameAllowed == errand.act = "lock" \/ Head(errand.name) \notin Spellings
Writable ==
    LET target == Followed(original, Resolved(original, errand.contracts).names)
    IN  /\ NameAllowed
        /\ IF target.status = "missing" THEN errand.act # "remove"
           ELSE /\ target.status = "ok" /\ original[Here(target)].kind = "dir"
                /\ IsDirectory("contracts") => Reserved(Here(target))
                /\ ~Obstructed(Here(target), errand.name)
WalkIsExact ==
    swaps = 0 =>
        /\ stage = "done" =>
               /\ \A r \in Roles : seen[r] = IF IsDirectory(r) /\ ~(Selecting /\ r = "contracts") THEN Expected(r) ELSE {}
               /\ IF Selecting THEN ~Obstructed(retained.source, errand.name) ELSE Writable
        /\ stage = "failed" /\ errand.act # "new" =>
               \/ ~IsDirectory("source")
               \/ IF Selecting THEN Obstructed(retained.source, errand.name) ELSE ~Writable

\* Paths are walked below the directories the user chose, and nowhere else.
\* (ResolvedPath, CatalogDirectory, CatalogLeaf)
PathsAreConfined == Confined /\ RootsAreApart /\ WalkIsExact
=============================================================================
