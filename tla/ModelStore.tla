----------------------------- MODULE ModelStore -----------------------------
(***************************************************************************)
(* Duplicates in the model store.  registry.audit groups the large files   *)
(* of one name by size into a manifest; registry.gc --dedupe-hardlink      *)
(* --apply, run later, compares the members of each group byte by byte and *)
(* replaces those equal to the canonical one by hard links to it, through  *)
(* a temporary link beside the duplicate.  Downloads change the store      *)
(* between the audit and the gc, and the gc may die between two system     *)
(* calls and be run again.                                                 *)
(*                                                                         *)
(* The store is seen through one file name in several places.  A directory *)
(* entry is a file (an inode) or a symbolic link; os.link does not follow  *)
(* the latter, and a relative one is resolved from the directory it is in. *)
(* Modes, owners and the byte counts of the report are left out, and       *)
(* nothing writes to the store while the gc runs.                          *)
(***************************************************************************)
EXTENDS Naturals, FiniteSets

CONSTANTS
  Paths,       \* where the file is
  Before,      \* Before[p]: the paths that sort before p by length, then by name
  DirOf,       \* the directory of a path
  Keep,        \* the keep list
  Inodes,
  Contents,
  SizeOf,
  MaxChanges,  \* bound on the downloads and removals
  None

File == [kind : {"file"}, inode : Inodes]
Link == [kind : {"symlink"}, to : Paths, dir : {DirOf[p] : p \in Paths}]
Entry == File \cup Link

ASSUME StoreConstants ==
  /\ IsFiniteSet(Paths)
  /\ Before \in [Paths -> SUBSET Paths]
  /\ Keep \subseteq Paths
  /\ MaxChanges \in Nat
  /\ None \notin Paths \cup Inodes \cup Contents \cup Entry

VARIABLES
  disk,      \* the directory entry at each path
  temp,      \* the entry at .<name>.hardlink-tmp beside it
  data,      \* what each inode holds
  manifest,  \* the duplicate sets the audit found
  gc,        \* where the gc is
  groups,    \* duplicate sets it has still to do
  members,   \* members of the current set still to do
  canonical,
  dup,       \* the member being replaced
  changes

gcVars == <<gc, groups, members, canonical, dup>>
vars == <<disk, temp, data, manifest, gcVars, changes>>

TypeOK ==
  /\ disk \in [Paths -> Entry \cup {None}]
  /\ temp \in [Paths -> Entry \cup {None}]
  /\ data \in [Inodes -> Contents]
  /\ manifest \subseteq SUBSET Paths
  /\ gc \in {"off", "sets", "members", "verified", "linked"}
  /\ groups \subseteq SUBSET Paths
  /\ members \subseteq Paths
  /\ IF gc \in {"off", "sets"} THEN canonical = None ELSE canonical \in Paths
  /\ IF gc \in {"verified", "linked"} THEN dup \in Paths ELSE dup = None
  /\ changes \in 0..MaxChanges

-----------------------------------------------------------------------------
IsFile(e) == e # None /\ e.kind = "file"

\* Where a symbolic link at p leads, seen from the directory it is in.
Follow(p) == IF disk[p] \in Link /\ disk[p].dir = DirOf[p] THEN {disk[p].to} ELSE {}

\* The paths that a system call on p goes through.
Route(p) ==
  LET onward[S \in SUBSET Paths] ==
        LET next == S \cup UNION {Follow(q) : q \in S}
        IN  IF next = S THEN S ELSE onward[next]
  IN  onward[{p}]

\* The inode that the system calls that follow links reach at p, or None.
Stat(p) ==
  IF \E q \in Route(p) : IsFile(disk[q])
  THEN disk[CHOOSE q \in Route(p) : IsFile(disk[q])].inode
  ELSE None

Read(p) == IF Stat(p) = None THEN None ELSE data[Stat(p)]

\* Inodes no directory entry holds.
Unused ==
  {i \in Inodes : \A p \in Paths : [kind |-> "file", inode |-> i] \notin {disk[p], temp[p]}}

-----------------------------------------------------------------------------
\* Any store: with hard links, chains and cycles of links, and links to nothing.
Init ==
  /\ disk \in [Paths -> Entry \cup {None}]
  /\ temp = [p \in Paths |-> None]
  /\ data \in [Inodes -> Contents]
  /\ manifest = {}
  /\ gc = "off" /\ groups = {} /\ members = {} /\ canonical = None /\ dup = None
  /\ changes = 0

\* A download replaces the entry by a new file.
Download(p) ==
  /\ gc = "off" /\ changes < MaxChanges
  /\ \E i \in Unused, c \in Contents :
       /\ disk' = [disk EXCEPT ![p] = [kind |-> "file", inode |-> i]]
       /\ data' = [data EXCEPT ![i] = c]
  /\ changes' = changes + 1
  /\ UNCHANGED <<temp, manifest, gcVars>>

\* gc --orphans: the operator deletes paths that are not on the keep list.
DeleteOrphan(p) ==
  /\ gc = "off" /\ changes < MaxChanges
  /\ p \notin Keep /\ Stat(p) # None
  /\ disk' = [disk EXCEPT ![p] = None]
  /\ changes' = changes + 1
  /\ UNCHANGED <<temp, data, manifest, gcVars>>

\* The audit takes equal sizes for duplicates.
Audit ==
  /\ gc = "off"
  /\ LET found == {p \in Paths : Stat(p) # None}
         sized(p) == {q \in found : SizeOf[Read(q)] = SizeOf[Read(p)]}
     IN manifest' = {g \in {sized(p) : p \in found} : Cardinality(g) > 1}
  /\ UNCHANGED <<disk, temp, data, gcVars, changes>>

Start ==
  /\ gc = "off" /\ manifest # {}
  /\ gc' = "sets"
  /\ groups' = manifest
  /\ UNCHANGED <<disk, temp, data, manifest, members, canonical, dup, changes>>

\* The next duplicate set; its first path is the canonical one, if it is still there.
NextSet ==
  /\ gc = "sets"
  /\ \E g \in groups :
       /\ groups' = groups \ {g}
       /\ \E c \in g :
            /\ g \cap Before[c] = {}
            /\ IF Stat(c) = None
               THEN UNCHANGED <<gc, members, canonical>>
               ELSE gc' = "members" /\ members' = g \ {c} /\ canonical' = c
  /\ UNCHANGED <<disk, temp, data, manifest, dup, changes>>

\* Mutant: name and size alone.
ReplaceableUnverified(p) ==
  /\ p \notin Keep
  /\ Stat(p) # None
  /\ Stat(p) # Stat(canonical)

\* The next member is skipped, or compares equal to the canonical file.
Replaceable(p) ==
  /\ p \notin Keep
  /\ Stat(p) # None
  /\ Stat(p) # Stat(canonical)
  /\ Read(p) = Read(canonical)

NextMember ==
  /\ gc = "members"
  /\ \E p \in members :
       /\ members \cap Before[p] = {}
       /\ members' = members \ {p}
       /\ IF Replaceable(p) THEN gc' = "verified" /\ dup' = p ELSE UNCHANGED <<gc, dup>>
  /\ UNCHANGED <<disk, temp, data, manifest, groups, canonical, changes>>

SetDone ==
  /\ gc = "members" /\ members = {}
  /\ gc' = "sets"
  /\ canonical' = None
  /\ UNCHANGED <<disk, temp, data, manifest, groups, members, dup, changes>>

\* Mutant: the duplicate is deleted first.
MakeTempUnlinkingFirst ==
  /\ gc = "verified" /\ temp[dup] = None
  /\ temp' = [temp EXCEPT ![dup] = disk[canonical]]
  /\ disk' = [disk EXCEPT ![dup] = None]
  /\ gc' = "linked"
  /\ UNCHANGED <<data, manifest, groups, members, canonical, dup, changes>>

\* os.link(canonical, tmp_path).
MakeTemp ==
  /\ gc = "verified" /\ temp[dup] = None
  /\ temp' = [temp EXCEPT ![dup] = disk[canonical]]
  /\ gc' = "linked"
  /\ UNCHANGED <<disk, data, manifest, groups, members, canonical, dup, changes>>

\* Mutant: the loop goes on with a member half replaced.
CannotLinkGoesOn ==
  /\ gc = "verified"
  /\ gc' = "members"
  /\ UNCHANGED <<disk, temp, data, manifest, groups, members, canonical, dup, changes>>

\* It fails: the temporary name is taken, or protected_hardlinks forbids the link.
CannotLink ==
  /\ gc = "verified"
  /\ gc' = "members"
  /\ dup' = None
  /\ UNCHANGED <<disk, temp, data, manifest, groups, members, canonical, changes>>

\* os.replace(tmp_path, dup_path).
Replace ==
  /\ gc = "linked"
  /\ disk' = [disk EXCEPT ![dup] = temp[dup]]
  /\ temp' = [temp EXCEPT ![dup] = None]
  /\ gc' = "members"
  /\ dup' = None
  /\ UNCHANGED <<data, manifest, groups, members, canonical, changes>>

\* It raises: the temporary link is removed, unless it dangles (exists follows links).
ReplaceRaises ==
  /\ gc = "linked"
  /\ LET dangles == ~IsFile(temp[dup]) /\ temp[dup].dir # DirOf[dup]
     IN temp' = IF dangles THEN temp ELSE [temp EXCEPT ![dup] = None]
  /\ gc' = "members"
  /\ dup' = None
  /\ UNCHANGED <<disk, data, manifest, groups, members, canonical, changes>>

Finish ==
  /\ gc = "sets" /\ groups = {}
  /\ gc' = "off"
  /\ UNCHANGED <<disk, temp, data, manifest, groups, members, canonical, dup, changes>>

\* The gc is killed: only the disk is left.
Crash ==
  /\ gc # "off"
  /\ gc' = "off" /\ groups' = {} /\ members' = {} /\ canonical' = None /\ dup' = None
  /\ UNCHANGED <<disk, temp, data, manifest, changes>>

Gc ==
  \/ NextSet \/ NextMember \/ SetDone \/ MakeTemp \/ CannotLink \/ Replace \/ ReplaceRaises
  \/ Finish \/ Crash

Next == (\E p \in Paths : Download(p) \/ DeleteOrphan(p)) \/ Audit \/ Start \/ Gc

Spec == Init /\ [][Next]_vars

-----------------------------------------------------------------------------
(* Properties. *)

\* Whatever the gc replaces, and wherever it stops, no content leaves the store: a content
\* that could be read at some path still can ("the duplicate is NEVER deleted before its
\* replacement hardlink is verified"), although the manifest may be stale and temporary
\* links may be left over from an earlier run.
Readable == {Read(p) : p \in Paths} \ {None}
ContentKept == [][gc # "off" => Readable' = Readable]_vars

\* Each path keeps its own content too, except those that led to a duplicate whose canonical
\* path is a relative symbolic link in another directory.
Dangles(p) == disk'[p] \in Link /\ disk'[p].dir # DirOf[p]
PathKeepsContent ==
  [][gc # "off" => \A p \in Paths :
       Read(p)' = Read(p) \/ (dup \in Route(p) /\ Dangles(dup))]_vars
=============================================================================
