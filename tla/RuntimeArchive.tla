---------------------------- MODULE RuntimeArchive ----------------------------
(***************************************************************************)
(* How a runtime archive becomes a directory, and how a full verification  *)
(* later recomputes from the archive what that directory must hold         *)
(* (extract_zip, extract_tar_gz, zip_tree_digests, tar_tree_digests and    *)
(* the path functions they share, in impossible-inferences-artifacts).     *)
(*                                                                         *)
(* A path is the sequence of its components; Root and Up are the special   *)
(* ones ("/" and "..").  The content of a file is the number of the entry  *)
(* that holds it, and its digest is the content.                           *)
(***************************************************************************)
EXTENDS Naturals, Sequences, FiniteSets, SequencesExt

CONSTANTS Names,      \* ordinary path components
          Root, Up,   \* Component::RootDir, Component::ParentDir
          Prefix,     \* RuntimeArtifact.strip_prefix
          Archives    \* the archives considered: sequences of entries

ASSUME ArchiveConstantsOK ==
    /\ Root \notin Names /\ Up \notin Names /\ Root # Up
    /\ Prefix \in Seq(Names)
    /\ \A entries \in Archives :
          /\ entries \in Seq(Range(entries))
          /\ \A i \in DOMAIN entries : entries[i].path \in Seq(Names \cup {Root, Up})
          /\ \A i \in DOMAIN entries : entries[i].kind = "link" =>
                /\ entries[i].target \in Seq(Names \cup {Root, Up})
                /\ \A n \in 2..Len(entries[i].target) : entries[i].target[n] # Root

VARIABLES format,   \* zip or targz
          archive,
          next,     \* the entry to be read
          links,    \* extract_tar_gz: the target of each link, by its path
          pending,  \* the links not copied yet
          disk,     \* what stands beneath the destination
          verdict   \* reading, linking, extracted or rejected

vars == <<format, archive, next, links, pending, disk, verdict>>

Directory == 0
Rejected == <<>>  \* the None and Err of the path functions; no path is empty

-----------------------------------------------------------------------------
(* Paths *)

Parent(path) == SubSeq(path, 1, Len(path) - 1)
Ancestors(path) == {SubSeq(path, 1, n) : n \in 1..Len(path)}

\* Broken variant: parent components are let through.
SafeRelativeLoose(path) == IF path # <<>> /\ path[1] # Root THEN path ELSE Rejected

SafeRelative(path) ==
    IF path # <<>> /\ \A i \in DOMAIN path : path[i] \in Names THEN path ELSE Rejected

\* strip_archive_prefix skips the entry that is the prefix itself.
Skipped(path) == SafeRelative(path) # Rejected /\ path = Prefix
StripPrefix(path) ==
    IF SafeRelative(path) # Rejected /\ IsStrictPrefix(Prefix, path)
    THEN SubSeq(path, Len(Prefix) + 1, Len(path)) ELSE Rejected

\* normalize_join: a stack that Up pops and must not pop when empty.
NormalizeJoin(base, target) ==
    LET walk[i \in 0..Len(target)] ==
            IF i = 0 THEN [ok |-> target = <<>> \/ target[1] # Root, parts |-> base]
            ELSE LET before == walk[i - 1]
                     part == target[i]
                 IN  IF ~before.ok THEN before
                     ELSE IF part # Up THEN [before EXCEPT !.parts = Append(@, part)]
                     ELSE IF before.parts = <<>> THEN [before EXCEPT !.ok = FALSE]
                     ELSE [before EXCEPT !.parts = Front(@)]
        end == walk[Len(target)]
    IN  IF end.ok THEN end.parts ELSE Rejected

\* Where link leads after i hops over the links in map.
Hops(link, map, i) ==
    LET at[n \in 0..i] ==
            IF n = 0 THEN link
            ELSE IF at[n - 1] \in DOMAIN map
                 THEN NormalizeJoin(Parent(at[n - 1]), map[at[n - 1]])
                 ELSE at[n - 1]
    IN  at[i]

\* Broken variant: one look too few (0..links.len()).
ResolveLinkSourceShort(link, map) ==
    LET end == Hops(link, map, Cardinality(DOMAIN map) - 1)
    IN  IF end \in DOMAIN map THEN Rejected ELSE end

\* resolve_link_source: looks 0..=links.len() times for a path that is no link.
ResolveLinkSource(link, map) ==
    LET end == Hops(link, map, Cardinality(DOMAIN map))
    IN  IF end \in DOMAIN map THEN Rejected ELSE end

-----------------------------------------------------------------------------
(* Extraction *)

Init ==
    /\ format \in {"zip", "targz"}
    /\ archive \in Archives
    /\ next = 1 /\ links = [p \in {} |-> <<>>] /\ pending = {}
    /\ disk = [p \in {} |-> Directory]
    /\ verdict = "reading"

Entry == archive[next]
Reading == verdict = "reading" /\ next <= Len(archive)
Target == StripPrefix(Entry.path)

\* create_dir_all succeeds unless a file is in the way.
CanCreate(path) == \A p \in Ancestors(path) \cap DOMAIN disk : disk[p] = Directory
CanWrite(path) == CanCreate(Parent(path)) /\ (path \in DOMAIN disk => disk[path] # Directory)

Created(path) ==
    [p \in DOMAIN disk \cup Ancestors(path) |-> IF p \in DOMAIN disk THEN disk[p] ELSE Directory]
Written(path, content) ==
    [p \in DOMAIN disk \cup Ancestors(path) |->
        IF p = path THEN content ELSE IF p \in DOMAIN disk THEN disk[p] ELSE Directory]

\* A link is refused in a ZIP, and everywhere when its target is absolute.
LinkAllowed(entry) == format = "targz" /\ Head(entry.target) # Root

Advance == next' = next + 1 /\ UNCHANGED <<format, archive, pending, verdict>>

SkipEntry ==
    /\ Reading /\ Skipped(Entry.path)
    /\ Advance /\ UNCHANGED <<links, disk>>

ExtractDirectory ==
    /\ Reading /\ Target # Rejected /\ Entry.kind = "dir" /\ CanCreate(Target)
    /\ disk' = Created(Target)
    /\ Advance /\ UNCHANGED links

ExtractFile ==
    /\ Reading /\ Target # Rejected /\ Entry.kind = "file" /\ CanWrite(Target)
    /\ disk' = Written(Target, next)
    /\ Advance /\ UNCHANGED links

\* A link is only noted, in place of an earlier one of the same path.
NoteLink ==
    /\ Reading /\ Target # Rejected /\ Entry.kind = "link" /\ LinkAllowed(Entry)
    /\ links' = [p \in DOMAIN links \cup {Target} |->
                    IF p = Target THEN Entry.target ELSE links[p]]
    /\ Advance /\ UNCHANGED disk

\* One error in one entry fails the extraction.
RejectEntry ==
    /\ Reading /\ ~Skipped(Entry.path)
    /\ \/ Target = Rejected
       \/ Entry.kind \notin {"file", "dir", "link"}
       \/ Entry.kind = "link" /\ ~LinkAllowed(Entry)
       \/ Entry.kind = "dir" /\ ~CanCreate(Target)
       \/ Entry.kind = "file" /\ ~CanWrite(Target)
    /\ verdict' = "rejected"
    /\ UNCHANGED <<format, archive, next, links, pending, disk>>

\* Broken variant: the pass over the links is left out.
EntriesDoneNoLinks ==
    /\ verdict = "reading" /\ next > Len(archive)
    /\ verdict' = "extracted"
    /\ UNCHANGED <<format, archive, next, links, pending, disk>>

EntriesDone ==
    /\ verdict = "reading" /\ next > Len(archive)
    /\ verdict' = "linking" /\ pending' = DOMAIN links
    /\ UNCHANGED <<format, archive, next, links, disk>>

\* The second pass.  The code takes the links in the order of their paths; a
\* source is never a link, so that the order cannot matter and is left open.
IsFile(path) == path \in DOMAIN disk /\ disk[path] # Directory
Copies(link) == IsFile(ResolveLinkSource(link, links)) /\ CanWrite(link)

CopyLink(link) ==
    /\ verdict = "linking" /\ link \in pending /\ Copies(link)
    /\ disk' = Written(link, disk[ResolveLinkSource(link, links)])
    /\ pending' = pending \ {link}
    /\ UNCHANGED <<format, archive, next, links, verdict>>

RejectLink(link) ==
    /\ verdict = "linking" /\ link \in pending /\ ~Copies(link)
    /\ verdict' = "rejected"
    /\ UNCHANGED <<format, archive, next, links, pending, disk>>

LinksDone ==
    /\ verdict = "linking" /\ pending = {}
    /\ verdict' = "extracted"
    /\ UNCHANGED <<format, archive, next, links, pending, disk>>

Next ==
    \/ SkipEntry \/ ExtractDirectory \/ ExtractFile \/ NoteLink \/ RejectEntry
    \/ EntriesDone \/ LinksDone
    \/ \E link \in pending : CopyLink(link) \/ RejectLink(link)

Spec == Init /\ [][Next]_vars

-----------------------------------------------------------------------------
(* Verification: the digests that the archive promises, and those found *)

Kept == {i \in DOMAIN archive : ~Skipped(archive[i].path)}
Of(kind) == {i \in Kept : archive[i].kind = kind}
PathOf(i) == StripPrefix(archive[i].path)
Admissible(i) ==
    /\ PathOf(i) # Rejected /\ archive[i].kind \in {"file", "dir", "link"}
    /\ archive[i].kind = "link" => LinkAllowed(archive[i])

\* zip_tree_digests and tar_tree_digests: a path may occur once, directories
\* are passed over, and every link must lead to an entry that is a file.
Named == Of("file") \cup Of("link")
EntryAt(p) == CHOOSE i \in Named : PathOf(i) = p
SourceOf(p) ==
    ResolveLinkSource(p, [q \in {PathOf(i) : i \in Of("link")} |-> archive[EntryAt(q)].target])

DigestsAccepted ==
    /\ \A i \in Kept : Admissible(i)
    /\ IsInjective([i \in Named |-> PathOf(i)])
    /\ \A i \in Of("link") : \E j \in Of("file") : PathOf(j) = SourceOf(PathOf(i))
ArchiveDigests == [p \in {PathOf(i) : i \in Named} |-> EntryAt(SourceOf(p))]

\* collect_tree_digests: files only, at any depth.
TreeDigests == [p \in {q \in DOMAIN disk : disk[q] # Directory} |-> disk[p]]

-----------------------------------------------------------------------------
(* Properties *)

\* What stands on disk, and what is read as the source of a link, lies beneath
\* the destination, whatever the paths and the link targets in the archive are
\* and however many links a link leads over: no component of it is special.
Contained ==
    /\ \A p \in DOMAIN disk : p # <<>> /\ \A i \in DOMAIN p : p[i] \in Names
    /\ \A p \in DOMAIN disk : disk[p] = Directory \/ archive[disk[p]].kind = "file"
    /\ \A l \in DOMAIN links : ResolveLinkSource(l, links) \in Seq(Names)
    /\ pending \subseteq DOMAIN links /\ next \in 1..Len(archive) + 1

\* A fresh install passes its own full verification: when the extraction of an
\* archive succeeds and verification accepts the archive at all, it finds on
\* disk exactly the files and contents that it computes from the archive.
InstalledVerifies ==
    verdict = "extracted" /\ DigestsAccepted => TreeDigests = ArchiveDigests

\* The reference for a good archive, without an order of entries, a bound on
\* hops or a disk: every entry is admissible, no file or link stands where
\* another entry needs a directory, and every link leads, over some number of
\* links, to a file of the archive.  A path leads to what is in every set that
\* holds the path's target and, with a link, the link's target.
Follow(link) == NormalizeJoin(Parent(link), links[link])
LeadsTo(p, q) ==
    \A S \in SUBSET {Follow(l) : l \in DOMAIN links} :
        Follow(p) \in S /\ (\A l \in S \cap DOMAIN links : Follow(l) \in S) => q \in S

Good ==
    /\ \A i \in Kept : Admissible(i)
    /\ \A i \in Of("file") \cup Of("link") : \A j \in Kept :
          ~ (IsStrictPrefix(PathOf(i), PathOf(j)) \/ (PathOf(i) = PathOf(j) /\ j \in Of("dir")))
    /\ \A p \in DOMAIN links : \E i \in Of("file") :
          PathOf(i) \notin DOMAIN links /\ LeadsTo(p, PathOf(i))

\* Extraction succeeds for exactly the good archives, in particular for link
\* chains of every length and order and not for cycles.
VerdictIsRight ==
    /\ verdict = "extracted" => Good
    /\ verdict = "rejected" => ~Good

=============================================================================
