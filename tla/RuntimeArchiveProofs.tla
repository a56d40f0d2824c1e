------------------------- MODULE RuntimeArchiveProofs -------------------------
(***************************************************************************)
(* Extraction of runtime archives, for archives of any length, paths of    *)
(* any depth and links of any number.                                      *)
(*                                                                         *)
(* The argument for containment: a path reaches the disk only through      *)
(* StripPrefix, which lets no special component through, and a link is a   *)
(* path of the same kind whose content is copied (Shape); the source of a  *)
(* link keeps to such components hop by hop (JoinIsSafe).  For a fresh     *)
(* install: when no path occurs twice, the files on disk are exactly the   *)
(* file entries read and the links copied so far, each with its entry's    *)
(* content (Faithful); a link's source is never a link, hence a file entry.*)
(* For the verdict: what stands on disk was put there by an entry that has *)
(* had its turn, and every such entry has its place (Laid), so that what   *)
(* stops an entry is another entry of the archive; and the bounded search  *)
(* of a link finds what any number of hops would find (WalkRepeats).       *)
(***************************************************************************)
EXTENDS RuntimeArchive, FiniteSetTheorems, SequenceTheorems, WellFoundedInduction, TLAPS

\* The paths that are safe to join to the destination.
SafePaths == Seq(Names) \ {<<>>}

\* The link targets considered: Root stands in front or nowhere.
LinkTargets ==
    {t \in Seq(Names \cup {Root, Up}) : \A n \in 2..Len(t) : t[n] # Root}

\* What the variables may hold.
Shape ==
    /\ archive \in Archives /\ next \in 1..Len(archive) + 1
    /\ links = [p \in DOMAIN links |-> links[p]]
    /\ DOMAIN links \subseteq SafePaths /\ IsFiniteSet(DOMAIN links)
    /\ pending \subseteq DOMAIN links
    /\ \A l \in DOMAIN links : links[l] \in LinkTargets
    /\ DOMAIN disk \subseteq SafePaths
    /\ \A p \in DOMAIN disk :
          disk[p] = Directory \/ (disk[p] \in 1..(next - 1) /\ archive[disk[p]].kind = "file")

\* The second pass begins when every entry has been read, and ends when every
\* link has been copied.
Stage ==
    /\ verdict \in {"reading", "linking", "extracted", "rejected"}
    /\ verdict \in {"linking", "extracted"} => next = Len(archive) + 1
    /\ verdict = "extracted" => pending = {}

\* No two entries that are files or links have the same path.
Distinct == \A i, j \in Named : PathOf(i) = PathOf(j) => i = j

FilesRead == {i \in Of("file") : i < next}
LinksRead == {i \in Of("link") : i < next}
Copied == {i \in Of("link") : verdict # "reading" /\ PathOf(i) \notin pending}
Files == {p \in DOMAIN disk : disk[p] # Directory}

\* The links noted are those read.
Noted ==
    /\ DOMAIN links = {PathOf(i) : i \in LinksRead}
    /\ \A i \in LinksRead : links[PathOf(i)] = archive[i].target

\* The files on disk are the file entries read and the links copied.
Faithful ==
    /\ Files = {PathOf(i) : i \in FilesRead \cup Copied}
    /\ \A i \in FilesRead : disk[PathOf(i)] = i
    /\ \A i \in Copied : \E j \in Of("file") :
          PathOf(j) = ResolveLinkSource(PathOf(i), links) /\ disk[PathOf(i)] = j

Agrees == Distinct /\ verdict # "rejected" => Noted /\ Faithful

\* The links whose content has been copied, the entries that have their place
\* on disk, and the directories that an entry needs.
Landed == IF verdict = "reading" THEN {} ELSE DOMAIN links \ pending
Settled == {j \in Kept : j < next /\ (archive[j].kind = "link" => PathOf(j) \in Landed)}
Needs(j) == IF archive[j].kind = "dir" THEN Ancestors(PathOf(j))
            ELSE Ancestors(PathOf(j)) \ {PathOf(j)}
Directories == {p \in DOMAIN disk : disk[p] = Directory}

\* The disk holds what the settled entries call for and nothing else, even when
\* paths occur more than once.
Laid ==
    /\ \A j \in Kept : j < next => Admissible(j)
    /\ DOMAIN links = {PathOf(i) : i \in LinksRead}
    /\ Files = {PathOf(j) : j \in Settled \ Of("dir")}
    /\ Directories = UNION {Needs(j) : j \in Settled}
    /\ \A l \in Landed : \E i \in Of("file") : PathOf(i) = ResolveLinkSource(l, links)

Judged == IF verdict = "rejected" THEN ~Good ELSE Laid

IInv == Shape /\ Stage /\ Agrees /\ Judged

-----------------------------------------------------------------------------
(* Paths *)

LEMMA ArchiveTypes ==
    ASSUME NEW entries \in Archives
    PROVE  /\ Len(entries) \in Nat /\ DOMAIN entries = 1..Len(entries)
           /\ \A i \in 1..Len(entries) :
                 /\ entries[i].path \in Seq(Names \cup {Root, Up})
                 /\ entries[i].kind = "link" => entries[i].target \in LinkTargets
<1>1. entries \in Seq(Range(entries))
  BY ArchiveConstantsOK
<1>2. Len(entries) \in Nat /\ DOMAIN entries = 1..Len(entries)
  BY <1>1, LenProperties
<1> QED BY <1>2, ArchiveConstantsOK DEF LinkTargets

\* What is left of a path after the prefix consists of ordinary components.
LEMMA StripPrefixSafe ==
    ASSUME NEW path \in Seq(Names \cup {Root, Up}), StripPrefix(path) # Rejected
    PROVE  StripPrefix(path) \in SafePaths
<1>1. /\ SafeRelative(path) # Rejected
      /\ StripPrefix(path) = SubSeq(path, Len(Prefix) + 1, Len(path))
  BY DEF StripPrefix
<1>2. \A i \in DOMAIN path : path[i] \in Names
  BY <1>1 DEF SafeRelative
<1>3. /\ Len(path) \in Nat /\ DOMAIN path = 1..Len(path) /\ Len(Prefix) \in Nat
  BY LenProperties, ArchiveConstantsOK
<1>4. SubSeq(path, Len(Prefix) + 1, Len(path)) \in Seq(Names)
  <2>1. \A i \in (Len(Prefix) + 1)..Len(path) : path[i] \in Names
    BY <1>2, <1>3
  <2> QED BY <1>3, <2>1, SubSeqProperties
<1> QED BY <1>1, <1>4 DEF SafePaths, Rejected

LEMMA SafePathProperties ==
    ASSUME NEW path \in SafePaths
    PROVE  /\ path # <<>> /\ \A i \in DOMAIN path : path[i] \in Names
           /\ Ancestors(path) \subseteq SafePaths /\ path \in Ancestors(path)
<1>1. /\ path \in Seq(Names) /\ path # <<>> /\ Len(path) \in Nat
      /\ DOMAIN path = 1..Len(path) /\ \A i \in 1..Len(path) : path[i] \in Names
  BY LenProperties, ElementOfSeq DEF SafePaths
<1>2. Len(path) >= 1
  BY <1>1, EmptySeq
<1>3. ASSUME NEW n \in 1..Len(path) PROVE SubSeq(path, 1, n) \in SafePaths
  <2>1. \A i \in 1..n : path[i] \in Names
    BY <1>1
  <2>2. n \in Int /\ 1 <= n
    BY <1>1
  <2>3. /\ SubSeq(path, 1, n) \in Seq(Names)
        /\ Len(SubSeq(path, 1, n)) = n
    BY <2>1, <2>2, SubSeqProperties
  <2>4. SubSeq(path, 1, n) # <<>>
    BY <2>2, <2>3, EmptySeq
  <2> QED BY <2>3, <2>4 DEF SafePaths
<1>4. path \in Ancestors(path)
  <2>1. SubSeq(path, 1, Len(path)) = path
    BY <1>1, SubSeqFull
  <2>2. Len(path) \in 1..Len(path)
    BY <1>1, <1>2
  <2> QED BY <2>1, <2>2 DEF Ancestors
<1> QED BY <1>1, <1>3, <1>4 DEF Ancestors

\* Something written beneath the destination stays there, and overwrites at
\* most the file at its own path.
LEMMA WrittenProperties ==
    ASSUME Shape, NEW path \in SafePaths, NEW content, disk' = Written(path, content)
    PROVE  /\ DOMAIN disk' = DOMAIN disk \cup Ancestors(path)
           /\ DOMAIN disk' \subseteq SafePaths
           /\ path \in DOMAIN disk' /\ disk'[path] = content
           /\ \A p \in DOMAIN disk' \ {path} :
                 disk'[p] = IF p \in DOMAIN disk THEN disk[p] ELSE Directory
  BY SafePathProperties DEF Shape, Written

LEMMA CreatedProperties ==
    ASSUME Shape, NEW path \in SafePaths, disk' = Created(path)
    PROVE  /\ DOMAIN disk' = DOMAIN disk \cup Ancestors(path)
           /\ DOMAIN disk' \subseteq SafePaths
           /\ \A p \in DOMAIN disk' :
                 disk'[p] = IF p \in DOMAIN disk THEN disk[p] ELSE Directory
  BY SafePathProperties DEF Shape, Created

LEMMA WrittenFiles ==
    ASSUME Shape, NEW path \in SafePaths, NEW content, disk' = Written(path, content),
           content # Directory
    PROVE  /\ Files' = Files \cup {path} /\ disk'[path] = content
           /\ \A p \in Files \ {path} : disk'[p] = disk[p]
<1>1. /\ DOMAIN disk \subseteq DOMAIN disk' /\ path \in DOMAIN disk' /\ disk'[path] = content
      /\ \A p \in DOMAIN disk' \ {path} :
            disk'[p] = IF p \in DOMAIN disk THEN disk[p] ELSE Directory
  BY WrittenProperties
<1>2. \A p \in Files \ {path} : disk'[p] = disk[p] /\ p \in Files'
  BY <1>1 DEF Files
<1>3. \A p \in Files' \ {path} : p \in Files
  BY <1>1 DEF Files
<1>4. path \in Files'
  BY <1>1 DEF Files
<1> QED BY <1>1, <1>2, <1>3, <1>4

\* The path of the entry that is read next.
LEMMA TargetSafe ==
    ASSUME Shape, Reading, Target # Rejected
    PROVE  /\ next \in 1..Len(archive) /\ next \in DOMAIN archive /\ Len(archive) \in Nat
           /\ Target \in SafePaths /\ Target = PathOf(next) /\ next \in Kept
<1>1. next \in 1..Len(archive) /\ Len(archive) \in Nat /\ DOMAIN archive = 1..Len(archive)
  BY ArchiveTypes DEF Shape, Reading
<1>2. Entry.path \in Seq(Names \cup {Root, Up})
  BY <1>1, ArchiveTypes DEF Shape, Entry
<1>3. Target \in SafePaths
  BY <1>2, StripPrefixSafe DEF Target
<1>4. Entry.path # Prefix
  BY DEF Target, StripPrefix, IsStrictPrefix
<1> QED BY <1>1, <1>3, <1>4 DEF Target, Entry, PathOf, Kept, Skipped

-----------------------------------------------------------------------------
(* Hops over links *)

\* One hop, or none when path is no link.
Hop(path, map) ==
    IF path \in DOMAIN map THEN NormalizeJoin(Parent(path), map[path]) ELSE path

\* f is what the recursion of Hops computes for up to n hops.
IsWalk(f, link, map, n) ==
    f = [m \in 0..n |-> IF m = 0 THEN link
                        ELSE IF f[m - 1] \in DOMAIN map
                             THEN NormalizeJoin(Parent(f[m - 1]), map[f[m - 1]])
                             ELSE f[m - 1]]

\* There is a walk of every length: the least that were missing could be had by
\* one more hop.
LEMMA WalkExists ==
    ASSUME NEW link, NEW map, NEW n \in Nat
    PROVE  \E f : IsWalk(f, link, map, n)
<1> DEFINE Missing == {k \in Nat : ~ \E f : IsWalk(f, link, map, k)}
<1> SUFFICES ASSUME n \in Missing PROVE FALSE
  OBVIOUS
<1>1. PICK k \in Missing : \A l \in Missing : <<l, k>> \notin OpToRel(<, Nat)
  <2>1. Missing \subseteq Nat /\ Missing # {}
    OBVIOUS
  <2> QED BY <2>1, WFMin, NatLessThanWellFounded
<1>2. k # 0
  <2>1. IsWalk([m \in 0..0 |-> link], link, map, 0)
    BY DEF IsWalk
  <2> QED BY <2>1
<1>3. k - 1 \in Nat /\ k - 1 \notin Missing
  <2>1. k \in Nat
    BY <1>1
  <2>2. k - 1 \in Nat /\ k - 1 < k
    BY <1>2, <2>1
  <2>3. <<k - 1, k>> \in OpToRel(<, Nat)
    BY <2>1, <2>2 DEF OpToRel
  <2> QED BY <1>1, <2>2, <2>3
<1>4. PICK f : IsWalk(f, link, map, k - 1)
  BY <1>3
<1> DEFINE g == [m \in 0..k |-> IF m = k THEN Hop(f[k - 1], map) ELSE f[m]]
<1>5. IsWalk(g, link, map, k)
  <2>1. \A m \in 0..k : m # k => m \in 0..(k - 1) /\ g[m] = f[m]
    BY <1>3
  <2>2. /\ f[0] = link
        /\ \A m \in 1..(k - 1) : f[m] = Hop(f[m - 1], map)
    <3>1. f[0] = link
      BY <1>3, <1>4 DEF IsWalk
    <3>2. \A m \in 1..(k - 1) : f[m] = Hop(f[m - 1], map)
      BY <1>3, <1>4 DEF IsWalk, Hop
    <3> QED BY <3>1, <3>2
  <2>3. \A m \in 1..k : m - 1 \in 0..k /\ g[m - 1] = f[m - 1]
    BY <1>3
  <2>4. g[0] = link
    BY <1>3, <2>1, <2>2
  <2>5. ASSUME NEW m \in 1..k PROVE g[m] = Hop(g[m - 1], map)
    <3>1. CASE m = k
      BY <1>3, <2>3, <3>1
    <3>2. CASE m # k
      BY <2>1, <2>2, <2>3, <3>2
    <3> QED BY <3>1, <3>2
  <2> HIDE DEF g
  <2>6. g = [m \in 0..k |-> g[m]]
    BY DEF g
  <2>7. \A m \in 0..k : m # 0 => m \in 1..k
    OBVIOUS
  <2> QED BY <2>4, <2>5, <2>6, <2>7 DEF IsWalk, Hop
<1> QED BY <1>1, <1>5

LEMMA HopsWalk ==
    ASSUME NEW link, NEW map, NEW n \in Nat
    PROVE  \E f : /\ Hops(link, map, n) = f[n] /\ f[0] = link
                  /\ \A m \in 1..n : f[m] = Hop(f[m - 1], map)
<1> DEFINE f == CHOOSE g : IsWalk(g, link, map, n)
<1>1. Hops(link, map, n) = f[n]
  BY DEF Hops, IsWalk
<1>2. IsWalk(f, link, map, n)
  BY WalkExists
<1> HIDE DEF f
<1>3. f[0] = link
  BY <1>2 DEF IsWalk
<1>4. \A m \in 1..n : f[m] = Hop(f[m - 1], map)
  BY <1>2 DEF IsWalk, Hop
<1> QED BY <1>1, <1>3, <1>4

\* Walks agree as far as both go.
LEMMA HopsStep ==
    ASSUME NEW link, NEW map, NEW n \in Nat
    PROVE  /\ Hops(link, map, 0) = link
           /\ Hops(link, map, n + 1) = Hop(Hops(link, map, n), map)
<1>1. Hops(link, map, 0) = link
  BY HopsWalk
<1>2. PICK f : /\ Hops(link, map, n) = f[n] /\ f[0] = link
               /\ \A m \in 1..n : f[m] = Hop(f[m - 1], map)
  BY HopsWalk
<1>3. PICK g : /\ Hops(link, map, n + 1) = g[n + 1] /\ g[0] = link
               /\ \A m \in 1..(n + 1) : g[m] = Hop(g[m - 1], map)
  <2>1. n + 1 \in Nat
    OBVIOUS
  <2> QED BY <2>1, HopsWalk
<1> DEFINE Apart == {m \in 0..n : f[m] # g[m]}
<1>4. Apart = {}
  <2> SUFFICES ASSUME Apart # {} PROVE FALSE
    OBVIOUS
  <2>1. PICK m \in Apart : \A k \in Apart : <<k, m>> \notin OpToRel(<, Nat)
    <3>1. Apart \subseteq Nat
      OBVIOUS
    <3> QED BY <3>1, WFMin, NatLessThanWellFounded
  <2>2. m \in 1..n /\ m - 1 \in 0..n /\ m \in 1..(n + 1)
    BY <1>2, <1>3
  <2>3. f[m - 1] # g[m - 1]
    BY <1>2, <1>3, <2>2
  <2>4. m - 1 \in Apart /\ <<m - 1, m>> \in OpToRel(<, Nat)
    BY <2>2, <2>3 DEF OpToRel
  <2> QED BY <2>1, <2>4
<1>5. f[n] = g[n]
  BY <1>4
<1>6. g[n + 1] = Hop(g[n], map)
  BY <1>3
<1> QED BY <1>1, <1>2, <1>3, <1>5, <1>6

\* What is left of a path without its last component.
LEMMA FrontIsSafe ==
    ASSUME NEW path \in Seq(Names), path # <<>>
    PROVE  Front(path) \in Seq(Names)
<1>1. Len(path) \in Nat /\ Len(path) # 0 /\ \A i \in 1..Len(path) : path[i] \in Names
  BY LenProperties, ElementOfSeq, EmptySeq
<1>2. \A i \in 1..(Len(path) - 1) : path[i] \in Names
  BY <1>1
<1>3. SubSeq(path, 1, Len(path) - 1) \in Seq(Names)
  BY <1>1, <1>2, SubSeqProperties
<1> QED BY <1>3 DEF Front

\* The steps of normalize_join, and what its walk computes for n components.
JoinStart(base, target) == [ok |-> target = <<>> \/ target[1] # Root, parts |-> base]
JoinStep(before, part) ==
    IF ~before.ok THEN before
    ELSE IF part # Up THEN [before EXCEPT !.parts = Append(@, part)]
    ELSE IF before.parts = <<>> THEN [before EXCEPT !.ok = FALSE]
    ELSE [before EXCEPT !.parts = Front(@)]
IsJoin(f, base, target, n) ==
    f = [i \in 0..n |-> IF i = 0 THEN JoinStart(base, target)
                        ELSE JoinStep(f[i - 1], target[i])]

\* There is a walk of every length, as for the hops above.
LEMMA JoinExists ==
    ASSUME NEW base, NEW target, NEW n \in Nat
    PROVE  \E f : IsJoin(f, base, target, n)
<1> DEFINE Missing == {k \in Nat : ~ \E f : IsJoin(f, base, target, k)}
<1> SUFFICES ASSUME n \in Missing PROVE FALSE
  OBVIOUS
<1>1. PICK k \in Missing : \A l \in Missing : <<l, k>> \notin OpToRel(<, Nat)
  <2>1. Missing \subseteq Nat /\ Missing # {}
    OBVIOUS
  <2> QED BY <2>1, WFMin, NatLessThanWellFounded
<1>2. k # 0
  <2>1. IsJoin([i \in 0..0 |-> JoinStart(base, target)], base, target, 0)
    BY DEF IsJoin
  <2> QED BY <2>1
<1>3. k - 1 \in Nat /\ k - 1 \notin Missing
  <2>1. k \in Nat
    BY <1>1
  <2>2. k - 1 \in Nat /\ k - 1 < k
    BY <1>2, <2>1
  <2>3. <<k - 1, k>> \in OpToRel(<, Nat)
    BY <2>1, <2>2 DEF OpToRel
  <2> QED BY <1>1, <2>2, <2>3
<1>4. PICK f : IsJoin(f, base, target, k - 1)
  BY <1>3
<1> DEFINE g == [i \in 0..k |-> IF i = k THEN JoinStep(f[k - 1], target[k]) ELSE f[i]]
<1>5. IsJoin(g, base, target, k)
  <2>1. \A i \in 0..k : i # k => i \in 0..(k - 1) /\ g[i] = f[i]
    BY <1>3
  <2>2. /\ f[0] = JoinStart(base, target)
        /\ \A i \in 1..(k - 1) : f[i] = JoinStep(f[i - 1], target[i])
    <3>1. f[0] = JoinStart(base, target)
      BY <1>3, <1>4 DEF IsJoin
    <3>2. \A i \in 1..(k - 1) : f[i] = JoinStep(f[i - 1], target[i])
      BY <1>3, <1>4 DEF IsJoin
    <3> QED BY <3>1, <3>2
  <2>3. \A i \in 1..k : i - 1 \in 0..k /\ g[i - 1] = f[i - 1]
    BY <1>3
  <2>4. g[0] = JoinStart(base, target)
    BY <1>3, <2>1, <2>2
  <2>5. ASSUME NEW i \in 1..k PROVE g[i] = JoinStep(g[i - 1], target[i])
    <3>1. CASE i = k
      BY <1>3, <2>3, <3>1
    <3>2. CASE i # k
      BY <2>1, <2>2, <2>3, <3>2
    <3> QED BY <3>1, <3>2
  <2> HIDE DEF g
  <2>6. g = [i \in 0..k |-> g[i]]
    BY DEF g
  <2>7. \A i \in 0..k : i # 0 => i \in 1..k
    OBVIOUS
  <2> QED BY <2>4, <2>5, <2>6, <2>7 DEF IsJoin
<1> QED BY <1>1, <1>5

\* normalize_join keeps to the ordinary components: an Up takes one away or
\* fails, and a Root fails at once.
LEMMA JoinIsSafe ==
    ASSUME NEW base \in Seq(Names), NEW target \in LinkTargets
    PROVE  NormalizeJoin(base, target) \in Seq(Names)
<1> DEFINE n == Len(target)
           f == CHOOSE g : IsJoin(g, base, target, n)
<1>1. /\ target \in Seq(Names \cup {Root, Up}) /\ n \in Nat
      /\ \A i \in 1..n : target[i] \in Names \cup {Root, Up}
      /\ \A i \in 1..n : i # 1 => target[i] # Root
  <2>1. target \in Seq(Names \cup {Root, Up}) /\ n \in Nat
    BY LenProperties DEF LinkTargets
  <2>2. \A i \in 1..n : target[i] \in Names \cup {Root, Up}
    BY <2>1, ElementOfSeq
  <2>3. \A i \in 1..n : i # 1 => i \in 2..n
    BY <2>1
  <2> QED BY <2>1, <2>2, <2>3 DEF LinkTargets
<1>2. NormalizeJoin(base, target) = IF f[n].ok THEN f[n].parts ELSE Rejected
  BY DEF NormalizeJoin, IsJoin, JoinStart, JoinStep
<1>3. IsJoin(f, base, target, n)
  BY <1>1, JoinExists
<1> HIDE DEF f
<1>4. f[0] = JoinStart(base, target)
  BY <1>1, <1>3 DEF IsJoin
<1>5. \A i \in 1..n : f[i] = JoinStep(f[i - 1], target[i])
  BY <1>1, <1>3 DEF IsJoin
<1> DEFINE Fine(state) == /\ state \in [ok : BOOLEAN, parts : Seq(Names)]
                          /\ state.ok => target = <<>> \/ target[1] # Root
           Wrong == {i \in 0..n : ~Fine(f[i])}
<1>6. Fine(f[0])
  <2>1. (target = <<>> \/ target[1] # Root) \in BOOLEAN
    OBVIOUS
  <2>2. f[0].ok = (target = <<>> \/ target[1] # Root) /\ f[0].parts = base
    BY <1>4 DEF JoinStart
  <2>3. f[0] \in [ok : BOOLEAN, parts : Seq(Names)]
    BY <1>4, <2>1 DEF JoinStart
  <2> QED BY <2>2, <2>3
<1>7. ASSUME NEW i \in 1..n, Fine(f[i - 1]) PROVE Fine(f[i])
  <2> DEFINE before == f[i - 1]
  <2>1. f[i] = JoinStep(before, target[i])
    BY <1>5
  <2>2. before.ok \in BOOLEAN /\ before.parts \in Seq(Names)
    BY <1>7
  <2>3. before = [ok |-> before.ok, parts |-> before.parts]
    BY <1>7
  <2>4. CASE ~before.ok
    BY <1>7, <2>1, <2>4 DEF JoinStep
  <2>5. CASE before.ok /\ target[i] # Up
    <3>1. target # <<>>
      BY <1>1, EmptySeq
    <3>2. target[i] \in Names
      BY <1>1, <1>7, <2>5, <3>1
    <3>3. Append(before.parts, target[i]) \in Seq(Names)
      BY <2>2, <3>2, AppendProperties
    <3> QED BY <1>7, <2>1, <2>5, <3>3 DEF JoinStep
  <2>6. CASE before.ok /\ target[i] = Up /\ before.parts = <<>>
    BY <1>7, <2>1, <2>6 DEF JoinStep
  <2>7. CASE before.ok /\ target[i] = Up /\ before.parts # <<>>
    <3>1. Front(before.parts) \in Seq(Names)
      BY <2>2, <2>7, FrontIsSafe
    <3> QED BY <1>7, <2>1, <2>7, <3>1 DEF JoinStep
  <2> QED BY <2>2, <2>4, <2>5, <2>6, <2>7
<1> HIDE DEF Fine
<1>8. Wrong = {}
  <2> SUFFICES ASSUME Wrong # {} PROVE FALSE
    OBVIOUS
  <2>1. PICK m \in Wrong : \A k \in Wrong : <<k, m>> \notin OpToRel(<, Nat)
    <3>1. Wrong \subseteq Nat
      BY <1>1
    <3> QED BY <3>1, WFMin, NatLessThanWellFounded
  <2>2. m \in 1..n /\ m - 1 \in 0..n
    BY <1>1, <1>6
  <2>3. ~Fine(f[m - 1])
    BY <1>7, <2>2
  <2>4. m - 1 \in Wrong /\ <<m - 1, m>> \in OpToRel(<, Nat)
    BY <1>1, <2>2, <2>3 DEF OpToRel
  <2> QED BY <2>1, <2>4
<1>9. Fine(f[n])
  BY <1>1, <1>8
<1> QED BY <1>2, <1>9, EmptySeq DEF Fine, Rejected

\* So does every hop, and with them resolve_link_source.
LEMMA SourceIsSafe ==
    ASSUME NEW map, NEW link \in Seq(Names), DOMAIN map \subseteq SafePaths,
           IsFiniteSet(DOMAIN map), \A l \in DOMAIN map : map[l] \in LinkTargets
    PROVE  ResolveLinkSource(link, map) \in Seq(Names)
<1> DEFINE H(k) == Hops(link, map, k)
           Wrong == {k \in Nat : H(k) \notin Seq(Names)}
<1>1. ASSUME NEW path \in Seq(Names) PROVE Hop(path, map) \in Seq(Names)
  <2>1. CASE path \notin DOMAIN map
    BY <2>1 DEF Hop
  <2>2. CASE path \in DOMAIN map
    <3>1. path # <<>>
      BY <2>2, SafePathProperties
    <3>2. Parent(path) \in Seq(Names)
      BY <3>1, FrontIsSafe DEF Parent, Front
    <3> QED BY <2>2, <3>2, JoinIsSafe DEF Hop
  <2> QED BY <2>1, <2>2
<1>2. H(0) = link /\ \A k \in Nat : H(k + 1) = Hop(H(k), map)
  BY HopsStep
<1> HIDE DEF H
<1>3. Wrong = {}
  <2> SUFFICES ASSUME Wrong # {} PROVE FALSE
    OBVIOUS
  <2>1. PICK m \in Wrong : \A k \in Wrong : <<k, m>> \notin OpToRel(<, Nat)
    BY WFMin, NatLessThanWellFounded
  <2>2. m \in Nat /\ m # 0
    BY <1>2
  <2>3. m - 1 \in Nat /\ (m - 1) + 1 = m
    BY <2>2
  <2>4. H(m - 1) \notin Seq(Names)
    BY <1>1, <1>2, <2>3
  <2>5. m - 1 \in Wrong /\ <<m - 1, m>> \in OpToRel(<, Nat)
    BY <2>2, <2>3, <2>4 DEF OpToRel
  <2> QED BY <2>1, <2>5
<1>4. Cardinality(DOMAIN map) \in Nat
  BY FS_CardinalityType
<1>5. Hops(link, map, Cardinality(DOMAIN map)) \in Seq(Names)
  BY <1>3, <1>4 DEF H
<1> QED BY <1>5, EmptySeq DEF ResolveLinkSource, Rejected

\* A walk that has left the links stays where it is.
LEMMA HopsRest ==
    ASSUME NEW link, NEW map, NEW n \in Nat, NEW m \in Nat, n <= m,
           Hops(link, map, n) \notin DOMAIN map
    PROVE  Hops(link, map, m) = Hops(link, map, n)
<1> DEFINE at == Hops(link, map, n)
           Off == {k \in Nat : n <= k /\ Hops(link, map, k) # at}
<1> SUFFICES ASSUME m \in Off PROVE FALSE
  OBVIOUS
<1>1. PICK k \in Off : \A l \in Off : <<l, k>> \notin OpToRel(<, Nat)
  <2>1. Off \subseteq Nat /\ Off # {}
    OBVIOUS
  <2> QED BY <2>1, WFMin, NatLessThanWellFounded
<1>2. k \in Nat /\ k - 1 \in Nat /\ n <= k - 1 /\ (k - 1) + 1 = k
  <2>1. k \in Nat /\ n <= k /\ k # n
    BY <1>1
  <2> QED BY <2>1
<1>3. Hops(link, map, k) = Hop(Hops(link, map, k - 1), map)
  BY <1>2, HopsStep
<1>4. Hops(link, map, k - 1) # at
  BY <1>1, <1>3 DEF Hop
<1>5. k - 1 \in Off /\ <<k - 1, k>> \in OpToRel(<, Nat)
  BY <1>2, <1>4 DEF OpToRel
<1> QED BY <1>1, <1>5

\* A path that is no link leads to itself, however many hops are allowed.
LEMMA NoLinkNoHop ==
    ASSUME NEW p, NEW map, p \notin DOMAIN map, NEW n \in Nat
    PROVE  Hops(p, map, n) = p
<1>1. Hops(p, map, 0) = p
  BY HopsStep
<1> QED BY <1>1, HopsRest

\* What resolve_link_source finds is where the link leads: every set that is
\* closed under following links has all that comes after the first hop.
LEMMA SourceIsReached ==
    ASSUME IsFiniteSet(DOMAIN links), NEW link \in DOMAIN links,
           ResolveLinkSource(link, links) # Rejected
    PROVE  LeadsTo(link, ResolveLinkSource(link, links))
<1> DEFINE N == Cardinality(DOMAIN links)
           H(k) == Hops(link, links, k)
<1>1. N \in Nat /\ ResolveLinkSource(link, links) = H(N) /\ H(N) \notin DOMAIN links
  BY FS_CardinalityType DEF ResolveLinkSource
<1>2. \A k \in Nat : H(0) = link /\ H(k + 1) = Hop(H(k), links)
  BY HopsStep
<1> HIDE DEF H
<1>3. N # 0
  BY <1>1, <1>2
<1> SUFFICES ASSUME NEW S \in SUBSET {Follow(l) : l \in DOMAIN links},
                    Follow(link) \in S, \A l \in S \cap DOMAIN links : Follow(l) \in S
             PROVE  H(N) \in S
  BY <1>1 DEF LeadsTo
<1> DEFINE Out == {k \in 1..N : H(k) \notin S}
<1>4. Out = {}
  <2> SUFFICES ASSUME Out # {} PROVE FALSE
    OBVIOUS
  <2>1. PICK k \in Out : \A l \in Out : <<l, k>> \notin OpToRel(<, Nat)
    <3>1. Out \subseteq Nat
      BY <1>1
    <3> QED BY <3>1, WFMin, NatLessThanWellFounded
  <2>2. k - 1 \in Nat /\ k \in Nat /\ H(k) = Hop(H(k - 1), links)
    <3>1. k - 1 \in Nat /\ (k - 1) + 1 = k
      BY <1>1
    <3> QED BY <1>2, <3>1
  <2>3. CASE k = 1
    <3>1. H(k - 1) = link
      BY <1>2, <2>3
    <3> QED BY <2>1, <2>2, <3>1 DEF Hop, Follow
  <2>4. CASE k # 1
    <3>1. k - 1 \in 1..N /\ <<k - 1, k>> \in OpToRel(<, Nat)
      BY <1>1, <2>2, <2>4 DEF OpToRel
    <3>2. H(k - 1) \in S
      BY <2>1, <3>1
    <3>3. H(k) \in S
      BY <2>2, <3>2 DEF Hop, Follow
    <3> QED BY <2>1, <3>3
  <2> QED BY <2>3, <2>4
<1>5. N \in 1..N
  BY <1>1, <1>3
<1> QED BY <1>4, <1>5

\* Among more places than there are links, all of them links, one comes twice.
LEMMA WalkRepeats ==
    ASSUME IsFiniteSet(DOMAIN links), NEW link,
           \A k \in 0..Cardinality(DOMAIN links) : Hops(link, links, k) \in DOMAIN links
    PROVE  \E i, j \in 0..Cardinality(DOMAIN links) :
              i < j /\ Hops(link, links, i) = Hops(link, links, j)
<1> DEFINE N == Cardinality(DOMAIN links)
           walk == [k \in 0..N |-> Hops(link, links, k)]
<1>1. N \in Nat
  BY FS_CardinalityType
<1>2. IsFiniteSet(0..N) /\ Cardinality(0..N) = N + 1
  BY <1>1, FS_Interval
<1>3. walk \in [0..N -> DOMAIN links]
  OBVIOUS
<1>4. Cardinality(DOMAIN links) < Cardinality(0..N)
  BY <1>1, <1>2
<1> HIDE DEF walk
<1>5. PICK i, j \in 0..N : i # j /\ walk[i] = walk[j]
  BY <1>2, <1>3, <1>4, FS_PigeonHole
<1>6. Hops(link, links, i) = Hops(link, links, j)
  BY <1>5 DEF walk
<1>7. i < j \/ j < i
  BY <1>1, <1>5
<1> QED BY <1>6, <1>7

\* Where a link leads, resolve_link_source finds it: as many looks as there are
\* links, and one, are enough, because a walk that is on links for longer is in
\* a cycle, and a cycle leads to links only.
LEMMA ReachedIsSource ==
    ASSUME IsFiniteSet(DOMAIN links), NEW link \in DOMAIN links,
           NEW q, q \notin DOMAIN links, LeadsTo(link, q)
    PROVE  ResolveLinkSource(link, links) = q
<1> DEFINE N == Cardinality(DOMAIN links)
           H(k) == Hops(link, links, k)
           T == {Follow(l) : l \in DOMAIN links}
           S(n) == {H(k) : k \in 1..n} \cap T
<1>1. N \in Nat /\ N # 0
  BY FS_CardinalityType, FS_EmptySet
<1>2. \A k \in Nat : H(0) = link /\ H(k + 1) = Hop(H(k), links)
  BY HopsStep
<1>3. \A k \in 0..N : H(k) \notin DOMAIN links => H(k) = H(N)
  BY <1>1, HopsRest
<1>4. \A k \in 0..N : H(N) \in DOMAIN links => H(k) \in DOMAIN links
  BY <1>1, HopsRest
<1>5. ASSUME H(N) \in DOMAIN links
      PROVE  \E i, j \in 0..N : i < j /\ H(i) = H(j)
  BY <1>4, <1>5, WalkRepeats
<1> HIDE DEF H, N
<1>6. ASSUME NEW n \in 1..N, H(n) \in DOMAIN links => Follow(H(n)) \in S(n)
      PROVE  q \in S(n)
  <2>1. Follow(link) \in S(n)
    <3>1. H(1) = Follow(link)
      BY <1>2 DEF Hop, Follow
    <3> QED BY <1>1, <3>1
  <2>2. ASSUME NEW l \in S(n) \cap DOMAIN links PROVE Follow(l) \in S(n)
    <3>1. PICK k \in 1..n : l = H(k)
      OBVIOUS
    <3>2. CASE k = n
      BY <1>6, <2>2, <3>1, <3>2
    <3>3. CASE k # n
      <4>1. k + 1 \in 1..n /\ k \in Nat
        BY <1>1, <3>3
      <4>2. H(k + 1) = Follow(l)
        BY <1>2, <2>2, <3>1, <4>1 DEF Hop, Follow
      <4> QED BY <4>1, <4>2
    <3> QED BY <3>2, <3>3
  <2>3. S(n) \in SUBSET T
    OBVIOUS
  <2> HIDE DEF S
  <2> QED BY <2>1, <2>2, <2>3 DEF LeadsTo
<1>7. CASE H(N) \notin DOMAIN links
  <2>1. q \in S(N)
    BY <1>1, <1>6, <1>7
  <2>2. H(N) = q
    BY <1>1, <1>3, <1>7, <2>1
  <2> QED BY <1>7, <2>2 DEF ResolveLinkSource, H, N
<1>8. CASE H(N) \in DOMAIN links
  <2>1. PICK i, j \in 0..N : i < j /\ H(i) = H(j)
    BY <1>5, <1>8
  <2>2. j \in 1..N /\ i + 1 \in 1..j /\ i \in Nat
    BY <1>1, <2>1
  <2>3. H(j) \in DOMAIN links /\ Follow(H(j)) = H(i + 1)
    BY <1>2, <1>4, <1>8, <2>1, <2>2 DEF Hop, Follow
  <2>4. Follow(H(j)) \in S(j)
    BY <2>2, <2>3
  <2>5. q \in S(j)
    BY <1>6, <2>2, <2>4
  <2>6. \A k \in 1..j : H(k) \in DOMAIN links
    BY <1>1, <1>4, <1>8, <2>2
  <2> QED BY <2>5, <2>6
<1> QED BY <1>7, <1>8

-----------------------------------------------------------------------------
(* The shape of the variables *)

LEMMA InitIInv == Init => IInv
<1> SUFFICES ASSUME Init PROVE IInv
  OBVIOUS
<1>1. archive \in Archives /\ Len(archive) \in Nat
  BY ArchiveTypes DEF Init
<1>2. /\ next = 1 /\ pending = {} /\ verdict = "reading"
      /\ links = [p \in {} |-> <<>>] /\ disk = [p \in {} |-> Directory]
  BY DEF Init
<1>3. Shape /\ Stage
  BY <1>1, <1>2, FS_EmptySet DEF Shape, Stage
<1>4. FilesRead = {} /\ LinksRead = {} /\ Copied = {}
  <2>1. \A i \in Kept : i \in Nat \ {0}
    BY <1>1, ArchiveTypes DEF Kept
  <2> QED BY <1>2, <2>1 DEF FilesRead, LinksRead, Copied, Of
<1>5. Noted /\ Faithful
  BY <1>2, <1>4 DEF Noted, Faithful, Files
<1>6. Laid
  <2>1. Landed = {} /\ Settled = {} /\ Files = {} /\ Directories = {} /\ DOMAIN links = {}
    <3>1. \A j \in Kept : ~(j < next)
      BY <1>1, <1>2, ArchiveTypes DEF Kept
    <3> QED BY <1>2, <3>1 DEF Landed, Settled, Files, Directories
  <2>2. \A j \in Kept : ~(j < next)
    BY <1>1, <1>2, ArchiveTypes DEF Kept
  <2> QED BY <1>4, <2>1, <2>2, FS_EmptySet DEF Laid
<1> QED BY <1>2, <1>3, <1>5, <1>6 DEF IInv, Agrees, Judged

LEMMA SkipShape ==
    ASSUME Shape, SkipEntry \/ ExtractDirectory \/ ExtractFile \/ NoteLink
    PROVE  Shape'
<1>1. /\ Reading /\ next' = next + 1 /\ UNCHANGED <<archive, pending>>
      /\ next \in 1..Len(archive) /\ next' \in 1..Len(archive) + 1
      /\ Len(archive) \in Nat /\ next \in 1..(next' - 1)
      /\ \A i \in 1..(next - 1) : i \in 1..(next' - 1)
  BY ArchiveTypes DEF SkipEntry, ExtractDirectory, ExtractFile, NoteLink, Advance, Reading,
     Shape
<1>2. CASE SkipEntry
  BY <1>1, <1>2 DEF SkipEntry, Shape
<1>3. CASE ExtractDirectory
  <2>1. Target \in SafePaths /\ disk' = Created(Target) /\ links' = links
    BY <1>3, TargetSafe DEF ExtractDirectory
  <2> QED BY <1>1, <2>1, CreatedProperties DEF Shape
<1>4. CASE ExtractFile
  <2>1. /\ Target \in SafePaths /\ disk' = Written(Target, next) /\ links' = links
        /\ archive[next].kind = "file"
    BY <1>4, TargetSafe DEF ExtractFile, Entry
  <2>2. /\ DOMAIN disk' \subseteq SafePaths /\ disk'[Target] = next
        /\ \A p \in DOMAIN disk' \ {Target} :
              disk'[p] = IF p \in DOMAIN disk THEN disk[p] ELSE Directory
    BY <2>1, WrittenProperties
  <2>3. ASSUME NEW p \in DOMAIN disk'
        PROVE  \/ disk'[p] = Directory
               \/ disk'[p] \in 1..(next' - 1) /\ archive[disk'[p]].kind = "file"
    <3>1. CASE p = Target
      BY <1>1, <2>1, <2>2, <3>1
    <3>2. CASE p # Target
      BY <1>1, <2>2, <2>3, <3>2 DEF Shape
    <3> QED BY <3>1, <3>2
  <2> QED BY <1>1, <2>1, <2>2, <2>3 DEF Shape
<1>5. CASE NoteLink
  <2>1. /\ Target \in SafePaths /\ disk' = disk
        /\ links' = [p \in DOMAIN links \cup {Target} |->
                       IF p = Target THEN Entry.target ELSE links[p]]
    BY <1>5, TargetSafe DEF NoteLink
  <2>2. DOMAIN links' = DOMAIN links \cup {Target} /\ links' = [p \in DOMAIN links' |-> links'[p]]
    BY <2>1
  <2>3. Entry.target \in LinkTargets
    BY <1>1, <1>5, ArchiveTypes DEF NoteLink, Entry, Shape
  <2>4. \A l \in DOMAIN links' : links'[l] \in LinkTargets
    BY <2>1, <2>2, <2>3 DEF Shape
  <2>5. IsFiniteSet(DOMAIN links')
    BY <2>2, FS_AddElement DEF Shape
  <2>6. DOMAIN links' \subseteq SafePaths
    BY <2>1, <2>2 DEF Shape
  <2> QED BY <1>1, <2>1, <2>2, <2>4, <2>5, <2>6 DEF Shape
<1> QED BY <1>2, <1>3, <1>4, <1>5

\* What is copied is a file of the archive.
LEMMA CopyShape ==
    ASSUME Shape, NEW link \in pending, CopyLink(link)
    PROVE  Shape'
<1> DEFINE source == ResolveLinkSource(link, links)
<1>1. /\ link \in SafePaths /\ source \in DOMAIN disk /\ disk[source] # Directory
      /\ disk' = Written(link, disk[source]) /\ pending' = pending \ {link}
      /\ UNCHANGED <<archive, next, links>>
  BY DEF CopyLink, Copies, IsFile, Shape
<1>2. disk[source] \in 1..(next - 1) /\ archive[disk[source]].kind = "file"
  BY <1>1 DEF Shape
<1> HIDE DEF source
<1>3. /\ DOMAIN disk' \subseteq SafePaths /\ disk'[link] = disk[source]
      /\ \A p \in DOMAIN disk' \ {link} :
            disk'[p] = IF p \in DOMAIN disk THEN disk[p] ELSE Directory
  BY <1>1, WrittenProperties
<1>4. ASSUME NEW p \in DOMAIN disk'
      PROVE  disk'[p] = Directory \/ (disk'[p] \in 1..(next - 1) /\ archive[disk'[p]].kind = "file")
  BY <1>2, <1>3, <1>4 DEF Shape
<1> QED BY <1>1, <1>3, <1>4 DEF Shape

LEMMA StepShape == Shape /\ Stage /\ [Next]_vars => Shape' /\ Stage'
<1> SUFFICES ASSUME Shape, Stage, [Next]_vars PROVE Shape' /\ Stage'
  OBVIOUS
<1>1. CASE SkipEntry \/ ExtractDirectory \/ ExtractFile \/ NoteLink
  <2>1. verdict = "reading" /\ verdict' = verdict
    BY <1>1 DEF SkipEntry, ExtractDirectory, ExtractFile, NoteLink, Advance, Reading
  <2> QED BY <1>1, <2>1, SkipShape DEF Stage
<1>2. CASE RejectEntry \/ \E link \in pending : RejectLink(link)
  BY <1>2 DEF RejectEntry, RejectLink, Shape, Stage
<1>3. CASE EntriesDone
  <2>1. next = Len(archive) + 1
    BY <1>3, ArchiveTypes DEF EntriesDone, Shape
  <2> QED BY <1>3, <2>1 DEF EntriesDone, Shape, Stage
<1>4. CASE LinksDone
  BY <1>4 DEF LinksDone, Shape, Stage
<1>5. ASSUME NEW link \in pending, CopyLink(link) PROVE Shape' /\ Stage'
  BY <1>5, CopyShape DEF CopyLink, Stage
<1>6. CASE UNCHANGED vars
  BY <1>6 DEF vars, Shape, Stage
<1> QED BY <1>1, <1>2, <1>3, <1>4, <1>5, <1>6 DEF Next

-----------------------------------------------------------------------------
(* The files on disk agree with the entries *)

LEMMA ArchiveStays ==
    ASSUME UNCHANGED archive
    PROVE  /\ Of("file")' = Of("file") /\ Of("link")' = Of("link")
           /\ \A i : PathOf(i)' = PathOf(i)
           /\ Distinct' <=> Distinct
<1>1. \A i : PathOf(i)' = PathOf(i)
  BY DEF PathOf
<1>2. Kept' = Kept
  BY DEF Kept
<1>3. Of("file")' = Of("file") /\ Of("link")' = Of("link")
  BY <1>2 DEF Of
<1>4. Distinct' <=> Distinct
  BY <1>1, <1>3 DEF Distinct, Named
<1> QED BY <1>1, <1>3, <1>4

LEMMA Entries ==
    ASSUME Shape
    PROVE  /\ \A kind : Of(kind) \subseteq 1..Len(archive)
           /\ Len(archive) \in Nat /\ next \in Nat
           /\ FilesRead \subseteq Named /\ LinksRead \subseteq Named /\ Copied \subseteq Named
           /\ Of("file") \subseteq Named /\ Of("link") \subseteq Named
           /\ Of("file") \cap Of("link") = {}
  BY ArchiveTypes DEF Shape, Of, Kept, FilesRead, LinksRead, Copied, Named

\* Reading an entry that is no file leaves the files alone, and reading one that
\* is no link the links.
LEMMA ReadStep ==
    ASSUME Shape, Stage, Reading, next' = next + 1, UNCHANGED <<archive, pending, verdict>>
    PROVE  /\ FilesRead' = FilesRead \cup ({next} \cap Of("file"))
           /\ LinksRead' = LinksRead \cup ({next} \cap Of("link"))
           /\ Copied = {} /\ Copied' = {}
<1>1. \A i \in 1..Len(archive) : i < next + 1 <=> i < next \/ i = next
  BY Entries
<1>2. Of("file")' = Of("file") /\ Of("link")' = Of("link")
  BY ArchiveStays
<1>3. FilesRead' = FilesRead \cup ({next} \cap Of("file"))
  BY <1>1, <1>2, Entries DEF FilesRead
<1>4. LinksRead' = LinksRead \cup ({next} \cap Of("link"))
  BY <1>1, <1>2, Entries DEF LinksRead
<1>5. Copied = {} /\ Copied' = {}
  BY DEF Copied, Reading
<1> QED BY <1>3, <1>4, <1>5

\* A step that reads no file and no link.
LEMMA ReadOther ==
    ASSUME Shape, Stage, Agrees, SkipEntry \/ ExtractDirectory
    PROVE  Agrees'
<1>1. /\ Reading /\ next' = next + 1 /\ UNCHANGED <<archive, pending, verdict, links>>
      /\ verdict = "reading"
  BY DEF SkipEntry, ExtractDirectory, Advance, Reading
<1>2. next \notin Of("file") /\ next \notin Of("link")
  BY DEF SkipEntry, ExtractDirectory, Entry, Of, Kept
<1>3. FilesRead' = FilesRead /\ LinksRead' = LinksRead /\ Copied' = Copied /\ Copied = {}
  BY <1>1, <1>2, ReadStep
<1>4. Files' = Files /\ \A p \in Files : disk'[p] = disk[p]
  <2>1. CASE SkipEntry
    BY <2>1 DEF SkipEntry, Files
  <2>2. CASE ExtractDirectory
    <3>1. Target \in SafePaths /\ disk' = Created(Target)
      BY <2>2, TargetSafe DEF ExtractDirectory
    <3> QED BY <3>1, CreatedProperties DEF Files
  <2> QED BY <2>1, <2>2
<1> SUFFICES ASSUME Distinct PROVE Noted' /\ Faithful'
  BY <1>1, ArchiveStays DEF Agrees
<1>5. Noted /\ Faithful
  BY <1>1 DEF Agrees
<1>6. Noted'
  BY <1>1, <1>3, <1>5, ArchiveStays DEF Noted
<1>7. \A i \in FilesRead : PathOf(i) \in Files
  BY <1>5 DEF Faithful
<1>8. Faithful'
  BY <1>3, <1>4, <1>5, <1>7, <1>1, ArchiveStays DEF Faithful
<1> QED BY <1>6, <1>8

\* The file read is new on disk, and no other file changes.
LEMMA ReadFile ==
    ASSUME Shape, Stage, Agrees, ExtractFile
    PROVE  Agrees'
<1>1. /\ Reading /\ next' = next + 1 /\ UNCHANGED <<archive, pending, verdict, links>>
      /\ verdict = "reading" /\ disk' = Written(Target, next)
      /\ Target \in SafePaths /\ Target = PathOf(next) /\ next \in Kept
      /\ next \in 1..Len(archive) /\ Len(archive) \in Nat
  BY TargetSafe DEF ExtractFile, Advance, Reading
<1>2. next \in Of("file") /\ next \notin Of("link")
  BY <1>1 DEF ExtractFile, Entry, Of
<1>3. FilesRead' = FilesRead \cup {next} /\ LinksRead' = LinksRead /\ Copied' = {} /\ Copied = {}
  BY <1>1, <1>2, ReadStep
<1>4. next # Directory
  BY <1>1 DEF Directory
<1>5. Files' = Files \cup {Target} /\ disk'[Target] = next
      /\ \A p \in Files \ {Target} : disk'[p] = disk[p]
  BY <1>1, <1>4, WrittenFiles
<1> SUFFICES ASSUME Distinct PROVE Noted' /\ Faithful'
  BY <1>1, ArchiveStays DEF Agrees
<1>6. Noted /\ Faithful
  BY <1>1 DEF Agrees
<1>7. Noted'
  BY <1>1, <1>3, <1>6, ArchiveStays DEF Noted
<1>8. ASSUME NEW i \in FilesRead PROVE PathOf(i) \in Files \ {Target} /\ disk[PathOf(i)] = i
  <2>1. i # next /\ i \in Named /\ next \in Named
    BY <1>2, Entries DEF FilesRead, Named
  <2>2. PathOf(i) # PathOf(next)
    BY <2>1 DEF Distinct
  <2> QED BY <1>1, <1>6, <2>2 DEF Faithful
<1>9. Files' = {PathOf(i) : i \in FilesRead \cup {next}}
  BY <1>1, <1>3, <1>5, <1>6 DEF Faithful
<1>10. \A i \in FilesRead \cup {next} : disk'[PathOf(i)] = i
  BY <1>1, <1>5, <1>8
<1>11. Faithful'
  BY <1>1, <1>3, <1>9, <1>10, ArchiveStays DEF Faithful
<1> QED BY <1>7, <1>11

\* A link read is noted under a path that no other link has.
LEMMA ReadLink ==
    ASSUME Shape, Stage, Agrees, NoteLink
    PROVE  Agrees'
<1>1. /\ Reading /\ next' = next + 1 /\ UNCHANGED <<archive, pending, verdict, disk>>
      /\ verdict = "reading"
      /\ Target \in SafePaths /\ Target = PathOf(next) /\ next \in Kept
      /\ next \in 1..Len(archive) /\ Len(archive) \in Nat
      /\ links' = [p \in DOMAIN links \cup {Target} |->
                     IF p = Target THEN archive[next].target ELSE links[p]]
  BY TargetSafe DEF NoteLink, Advance, Reading, Entry
<1>2. next \notin Of("file") /\ next \in Of("link")
  BY <1>1 DEF NoteLink, Entry, Of
<1>3. FilesRead' = FilesRead /\ LinksRead' = LinksRead \cup {next} /\ Copied' = {} /\ Copied = {}
  BY <1>1, <1>2, ReadStep
<1> SUFFICES ASSUME Distinct PROVE Noted' /\ Faithful'
  BY <1>1, ArchiveStays DEF Agrees
<1>4. Noted /\ Faithful
  BY <1>1 DEF Agrees
<1>5. ASSUME NEW i \in LinksRead
      PROVE  PathOf(i) \in DOMAIN links /\ PathOf(i) # Target /\ links[PathOf(i)] = archive[i].target
  <2>1. i # next /\ i \in Named /\ next \in Named
    BY <1>2, Entries DEF LinksRead, Named
  <2>2. PathOf(i) # PathOf(next)
    BY <2>1 DEF Distinct
  <2> QED BY <1>1, <1>4, <2>2 DEF Noted
<1>6. DOMAIN links' = {PathOf(i) : i \in LinksRead \cup {next}}
  BY <1>1, <1>4 DEF Noted
<1>7. \A i \in LinksRead \cup {next} : links'[PathOf(i)] = archive[i].target
  BY <1>1, <1>5
<1>8. Noted'
  BY <1>1, <1>3, <1>6, <1>7, ArchiveStays DEF Noted
<1>9. Files' = Files
  BY <1>1 DEF Files
<1>10. Faithful'
  BY <1>1, <1>3, <1>4, <1>9, ArchiveStays DEF Faithful
<1> QED BY <1>8, <1>10

\* Once every entry has been read, every link has been noted.
LEMMA AllRead ==
    ASSUME Shape, next = Len(archive) + 1
    PROVE  FilesRead = Of("file") /\ LinksRead = Of("link")
  BY Entries DEF FilesRead, LinksRead

LEMMA BeginLinks ==
    ASSUME Shape, Stage, Agrees, EntriesDone
    PROVE  Agrees'
<1>1. /\ UNCHANGED <<archive, next, links, disk>> /\ pending' = DOMAIN links
      /\ verdict = "reading" /\ verdict' = "linking" /\ next = Len(archive) + 1
  BY ArchiveTypes DEF EntriesDone, Shape
<1> SUFFICES ASSUME Distinct PROVE Noted' /\ Faithful'
  BY <1>1, ArchiveStays DEF Agrees
<1>2. Noted /\ Faithful
  BY <1>1 DEF Agrees
<1>3. FilesRead' = FilesRead /\ LinksRead' = LinksRead /\ Files' = Files
  BY <1>1, ArchiveStays DEF FilesRead, LinksRead, Files
<1>4. Copied = {}
  BY <1>1 DEF Copied
<1>5. Copied' = {}
  BY <1>1, <1>2, AllRead, ArchiveStays DEF Copied, Noted
<1> QED BY <1>1, <1>2, <1>3, <1>4, <1>5, ArchiveStays DEF Noted, Faithful

\* The source that resolve_link_source returns is not itself a link.
LEMMA SourceIsNoLink ==
    ASSUME NEW link, NEW map, <<>> \notin DOMAIN map
    PROVE  ResolveLinkSource(link, map) \notin DOMAIN map
  BY DEF ResolveLinkSource, Rejected

\* What is copied is the content of a file entry, whatever has been copied before.
LEMMA CopyAgrees ==
    ASSUME Shape, Stage, Agrees, NEW link \in pending, CopyLink(link)
    PROVE  Agrees'
<1> DEFINE source == ResolveLinkSource(link, links)
<1>1. /\ UNCHANGED <<archive, next, links, verdict>> /\ pending' = pending \ {link}
      /\ verdict = "linking" /\ disk' = Written(link, disk[source])
      /\ source \in Files /\ link \in SafePaths /\ next = Len(archive) + 1
  BY DEF CopyLink, Copies, IsFile, Files, Shape, Stage
<1>2. source \notin DOMAIN links
  BY SourceIsNoLink DEF Shape, SafePaths
<1> HIDE DEF source
<1> SUFFICES ASSUME Distinct PROVE Noted' /\ Faithful'
  BY <1>1, ArchiveStays DEF Agrees
<1>3. Noted /\ Faithful
  BY <1>1 DEF Agrees
<1>4. /\ FilesRead = Of("file") /\ LinksRead = Of("link")
      /\ FilesRead' = FilesRead /\ LinksRead' = LinksRead
  BY <1>1, AllRead, ArchiveStays DEF FilesRead, LinksRead
<1>5. PICK l \in Of("link") : link = PathOf(l)
  BY <1>3, <1>4 DEF Shape, Noted
<1>6. PICK j \in Of("file") : source = PathOf(j) /\ disk[source] = j
  <2>1. PICK i \in FilesRead \cup Copied : source = PathOf(i)
    BY <1>1, <1>3 DEF Faithful
  <2>2. i \notin Of("link")
    BY <1>2, <1>3, <1>4, <2>1 DEF Noted
  <2> QED BY <1>3, <1>4, <2>1, <2>2 DEF Faithful, Copied
<1>7. Copied' = Copied \cup {l}
  <2>1. \A i \in Of("link") : PathOf(i) = link <=> i = l
    BY <1>5, Entries DEF Distinct
  <2> QED BY <1>1, <2>1, ArchiveStays DEF Copied
<1>8. j # Directory
  BY Entries DEF Directory
<1>9. /\ Files' = Files \cup {link} /\ disk'[link] = j
      /\ \A p \in Files \ {link} : disk'[p] = disk[p]
  BY <1>1, <1>6, <1>8, WrittenFiles
<1>10. \A i \in FilesRead \cup (Copied \ {l}) : PathOf(i) # link /\ PathOf(i) \in Files
  <2>1. \A i \in FilesRead \cup (Copied \ {l}) : i \in Named /\ i # l /\ l \in Named
    BY <1>4, <1>5, Entries DEF Copied
  <2> QED BY <1>3, <1>5, <2>1 DEF Distinct, Faithful
<1>11. Noted'
  BY <1>1, <1>3, <1>4, ArchiveStays DEF Noted
<1>12. Files' = {PathOf(i) : i \in FilesRead \cup Copied \cup {l}}
  BY <1>3, <1>5, <1>9 DEF Faithful
<1>13. \A i \in FilesRead : disk'[PathOf(i)] = i
  BY <1>3, <1>9, <1>10 DEF Faithful
<1>14. ASSUME NEW i \in Copied \cup {l}
       PROVE  \E k \in Of("file") :
                 PathOf(k) = ResolveLinkSource(PathOf(i), links) /\ disk'[PathOf(i)] = k
  <2>1. CASE i = l
    BY <1>5, <1>6, <1>9, <2>1 DEF source
  <2>2. CASE i # l
    BY <1>3, <1>9, <1>10, <2>2 DEF Faithful
  <2> QED BY <2>1, <2>2
<1>15. Faithful'
  BY <1>1, <1>4, <1>7, <1>12, <1>13, <1>14, ArchiveStays DEF Faithful
<1> QED BY <1>11, <1>15

LEMMA StepAgrees == Shape /\ Stage /\ Agrees /\ [Next]_vars => Agrees'
<1> SUFFICES ASSUME Shape, Stage, Agrees, [Next]_vars PROVE Agrees'
  OBVIOUS
<1>1. CASE RejectEntry \/ \E link \in pending : RejectLink(link)
  BY <1>1 DEF RejectEntry, RejectLink, Agrees
<1>2. CASE LinksDone \/ UNCHANGED vars
  <2>1. /\ UNCHANGED <<archive, next, links, pending, disk>>
        /\ verdict' = "reading" <=> verdict = "reading"
        /\ verdict' = "rejected" <=> verdict = "rejected"
    BY <1>2 DEF LinksDone, vars
  <2>2. /\ FilesRead' = FilesRead /\ LinksRead' = LinksRead /\ Copied' = Copied
        /\ Files' = Files
    BY <2>1, ArchiveStays DEF FilesRead, LinksRead, Copied, Files
  <2>3. (Noted /\ Faithful) => (Noted' /\ Faithful')
    BY <2>1, <2>2, ArchiveStays DEF Noted, Faithful
  <2> QED BY <2>1, <2>3, ArchiveStays DEF Agrees
<1> QED BY <1>1, <1>2, ReadOther, ReadFile, ReadLink, BeginLinks, CopyAgrees DEF Next

-----------------------------------------------------------------------------
(* The disk holds what the entries call for *)

LEMMA AncestorsOf ==
    ASSUME NEW q \in SafePaths
    PROVE  /\ Ancestors(Parent(q)) = Ancestors(q) \ {q}
           /\ \A p \in SafePaths : IsStrictPrefix(p, q) <=> p \in Ancestors(q) \ {q}
<1>1. /\ q \in Seq(Names) /\ Len(q) \in Nat /\ Len(q) >= 1
      /\ \A i \in 1..Len(q) : q[i] \in Names
  BY LenProperties, ElementOfSeq, EmptySeq DEF SafePaths
<1>2. ASSUME NEW n \in 1..Len(q)
      PROVE  SubSeq(q, 1, n) \in Seq(Names) /\ Len(SubSeq(q, 1, n)) = n
             /\ \A i \in 1..n : SubSeq(q, 1, n)[i] = q[i]
  <2>1. n \in Int /\ 1 <= n /\ \A i \in 1..n : q[i] \in Names
    BY <1>1
  <2> QED BY <2>1, SubSeqProperties
<1>3. ASSUME NEW p \in SafePaths
      PROVE  /\ IsStrictPrefix(p, q) <=> p \in Ancestors(q) \ {q}
  <2>1. p \in Seq(Names) /\ Len(p) \in Nat /\ Len(p) >= 1 /\ SubSeq(p, 1, Len(p)) = p
    BY LenProperties, EmptySeq, SubSeqFull DEF SafePaths
  <2>2. ASSUME IsStrictPrefix(p, q) PROVE p \in Ancestors(q) \ {q}
    <3>1. Len(p) <= Len(q) /\ p = SubSeq(q, 1, Len(p)) /\ p # q
      BY <2>1, <2>2 DEF IsStrictPrefix, IsPrefix
    <3>2. Len(p) \in 1..Len(q)
      BY <1>1, <2>1, <3>1
    <3> QED BY <3>1, <3>2 DEF Ancestors
  <2>3. ASSUME p \in Ancestors(q) \ {q} PROVE IsStrictPrefix(p, q)
    <3>1. PICK n \in 1..Len(q) : p = SubSeq(q, 1, n)
      BY <2>3 DEF Ancestors
    <3>2. Len(p) = n /\ n <= Len(q)
      BY <1>1, <1>2, <3>1
    <3> QED BY <2>1, <2>3, <3>1, <3>2 DEF IsStrictPrefix, IsPrefix
  <2> QED BY <2>2, <2>3
<1>4. Ancestors(Parent(q)) = Ancestors(q) \ {q}
  <2> DEFINE m == Len(q) - 1
  <2>a. m \in Nat /\ Len(q) \in Nat /\ Len(q) = m + 1
    BY <1>1
  <2>b. Parent(q) = SubSeq(q, 1, m)
    BY DEF Parent
  <2> HIDE DEF m
  <2>1. /\ Len(Parent(q)) = m /\ Parent(q) \in Seq(Names)
        /\ \A i \in 1..m : Parent(q)[i] = q[i] /\ q[i] \in Names
    <3>1. CASE m = 0
      <4>1. Parent(q) = <<>>
        BY <2>b, <3>1, SubSeqEmpty
      <4>2. 1..m = {}
        BY <3>1
      <4> QED BY <3>1, <4>1, <4>2, EmptySeq
    <3>2. CASE m # 0
      <4>1. m \in 1..Len(q) /\ \A i \in 1..m : i \in 1..Len(q)
        BY <2>a, <3>2
      <4> QED BY <1>1, <1>2, <2>b, <4>1
    <3> QED BY <3>1, <3>2
  <2>2. ASSUME NEW n \in 1..m
        PROVE  SubSeq(Parent(q), 1, n) = SubSeq(q, 1, n)
    <3>1. /\ n \in 1..Len(q) /\ n \in Int /\ 1 <= n
          /\ \A i \in 1..n : Parent(q)[i] \in Names
      BY <2>a, <2>1
    <3>2. /\ SubSeq(Parent(q), 1, n) \in Seq(Names) /\ Len(SubSeq(Parent(q), 1, n)) = n
          /\ \A i \in 1..n : SubSeq(Parent(q), 1, n)[i] = Parent(q)[i]
      BY <3>1, SubSeqProperties
    <3>3. \A i \in 1..n : SubSeq(Parent(q), 1, n)[i] = SubSeq(q, 1, n)[i]
      BY <1>2, <2>1, <3>1, <3>2
    <3> QED BY <1>2, <3>1, <3>2, <3>3, SeqEqual
  <2>3. \A n \in 1..m : n \in 1..Len(q) /\ SubSeq(q, 1, n) # q
    <3>1. \A n \in 1..m : n \in 1..Len(q) /\ n # Len(q)
      BY <2>a
    <3> QED BY <1>2, <3>1
  <2>4. \A n \in 1..Len(q) : SubSeq(q, 1, n) # q => n \in 1..m
    <3>1. SubSeq(q, 1, Len(q)) = q
      BY <1>1, SubSeqFull
    <3>2. \A n \in 1..Len(q) : n # Len(q) => n \in 1..m
      BY <2>a
    <3> QED BY <3>1, <3>2
  <2> QED BY <2>1, <2>2, <2>3, <2>4 DEF Ancestors
<1> QED BY <1>3, <1>4

LEMMA NeededBy ==
    ASSUME NEW entries
    PROVE  \A p : p \in UNION {Needs(j) : j \in entries} <=> \E j \in entries : p \in Needs(j)
OBVIOUS

\* What else depends on nothing but the archive, its format and its links.
LEMMA JudgementStays ==
    ASSUME UNCHANGED <<format, archive>>
    PROVE  /\ Kept' = Kept /\ Of("dir")' = Of("dir")
           /\ \A j : Needs(j)' = Needs(j) /\ (Admissible(j)' <=> Admissible(j))
           /\ UNCHANGED links => (Good' <=> Good)
<1>1. Kept' = Kept
  BY DEF Kept
<1>2. \A kind : Of(kind)' = Of(kind)
  BY <1>1 DEF Of
<1>3. \A i : PathOf(i)' = PathOf(i)
  BY DEF PathOf
<1>4. \A j : Needs(j)' = Needs(j) /\ (Admissible(j)' <=> Admissible(j))
  BY <1>3 DEF Needs, Admissible, LinkAllowed
<1>5. ASSUME UNCHANGED links PROVE \A p, q : LeadsTo(p, q)' <=> LeadsTo(p, q)
  BY <1>5 DEF LeadsTo, Follow
<1>6. ASSUME UNCHANGED links PROVE Good' <=> Good
  BY <1>1, <1>2, <1>3, <1>4, <1>5, <1>6 DEF Good
<1> QED BY <1>1, <1>2, <1>4, <1>6

\* The places of the entries.
LEMMA Places ==
    ASSUME Shape, NEW j \in Kept, PathOf(j) # Rejected
    PROVE  j \in 1..Len(archive) /\ PathOf(j) \in SafePaths /\ Needs(j) \subseteq SafePaths
<1>1. j \in 1..Len(archive) /\ archive[j].path \in Seq(Names \cup {Root, Up})
  BY ArchiveTypes DEF Shape, Kept
<1>2. PathOf(j) \in SafePaths
  BY <1>1, StripPrefixSafe DEF PathOf
<1> QED BY <1>1, <1>2, SafePathProperties DEF Needs

\* The second conjunct of Good in terms of what entries need.
LEMMA Clash ==
    ASSUME Shape, NEW i \in Of("file") \cup Of("link"), NEW j \in Kept,
           PathOf(i) # Rejected, PathOf(j) # Rejected
    PROVE  PathOf(i) \in Needs(j)
           <=> \/ IsStrictPrefix(PathOf(i), PathOf(j))
               \/ PathOf(i) = PathOf(j) /\ j \in Of("dir")
<1>1. i \in Kept
  BY DEF Of
<1>2. PathOf(i) \in SafePaths /\ PathOf(j) \in SafePaths
  BY <1>1, Places
<1>3. IsStrictPrefix(PathOf(i), PathOf(j)) <=> PathOf(i) \in Ancestors(PathOf(j)) \ {PathOf(j)}
  BY <1>2, AncestorsOf
<1>4. PathOf(j) \in Ancestors(PathOf(j))
  BY <1>2, SafePathProperties
<1>5. j \in Of("dir") <=> archive[j].kind = "dir"
  BY DEF Of
<1> QED BY <1>3, <1>4, <1>5 DEF Needs

LEMMA ClashIsBad ==
    ASSUME Shape, NEW i \in Of("file") \cup Of("link"), NEW j \in Kept, PathOf(i) \in Needs(j)
    PROVE  ~Good
<1> SUFFICES ASSUME Good PROVE FALSE
  OBVIOUS
<1>1. i \in Kept /\ PathOf(i) # Rejected /\ PathOf(j) # Rejected
  BY DEF Good, Of, Admissible
<1> QED BY <1>1, Clash DEF Good

\* Whatever is in the way of an entry stands there for another one.
LEMMA BlockedIsBad ==
    ASSUME Shape, Laid, NEW j \in Kept, PathOf(j) # Rejected,
           \/ j \in Of("dir") /\ ~CanCreate(PathOf(j))
           \/ j \in Of("file") \cup Of("link") /\ ~CanWrite(PathOf(j))
    PROVE  ~Good
<1>1. PathOf(j) \in SafePaths
  BY Places
<1>2. Ancestors(Parent(PathOf(j))) = Ancestors(PathOf(j)) \ {PathOf(j)}
  BY <1>1, AncestorsOf
<1>3. \A p \in Files : \E i \in Of("file") \cup Of("link") : p = PathOf(i)
  BY DEF Laid, Settled, Of, Admissible
<1>4. \A p \in Directories : \E i \in Kept : p \in Needs(i)
  BY DEF Laid, Settled
<1>5. ASSUME NEW p \in Needs(j), p \in DOMAIN disk, disk[p] # Directory PROVE ~Good
  <2>1. p \in Files
    BY <1>5 DEF Files
  <2> QED BY <1>3, <2>1, ClashIsBad
<1>6. CASE j \in Of("dir") /\ ~CanCreate(PathOf(j))
  <2>1. Needs(j) = Ancestors(PathOf(j))
    BY <1>6 DEF Needs, Of
  <2> QED BY <1>5, <1>6, <2>1 DEF CanCreate
<1>7. CASE j \in Of("file") \cup Of("link") /\ ~CanWrite(PathOf(j))
  <2>1. Needs(j) = Ancestors(Parent(PathOf(j)))
    BY <1>2, <1>7 DEF Needs, Of
  <2>2. CASE ~CanCreate(Parent(PathOf(j)))
    BY <1>5, <2>1, <2>2 DEF CanCreate
  <2>3. CASE PathOf(j) \in Directories
    <3>1. PICK i \in Kept : PathOf(j) \in Needs(i)
      BY <1>4, <2>3
    <3> QED BY <1>7, <3>1, ClashIsBad
  <2> QED BY <1>7, <2>2, <2>3 DEF CanWrite, Directories
<1> QED BY <1>6, <1>7

LEMMA EntryRejectedIsBad ==
    ASSUME Shape, Laid, RejectEntry
    PROVE  ~Good
<1>1. /\ next \in Kept /\ PathOf(next) = Target /\ Entry = archive[next]
      /\ \A kind : next \in Of(kind) <=> Entry.kind = kind
  BY ArchiveTypes DEF RejectEntry, Reading, Shape, Kept, PathOf, Target, Entry, Of
<1>2. CASE ~Admissible(next)
  BY <1>1, <1>2 DEF Good
<1>3. CASE Admissible(next)
  <2>1. PathOf(next) # Rejected
    BY <1>3 DEF Admissible
  <2>2. \/ next \in Of("dir") /\ ~CanCreate(PathOf(next))
        \/ next \in Of("file") /\ ~CanWrite(PathOf(next))
    BY <1>1, <1>3 DEF RejectEntry, Admissible
  <2> QED BY <1>1, <2>1, <2>2, BlockedIsBad
<1> QED BY <1>2, <1>3

LEMMA LinkRejectedIsBad ==
    ASSUME Shape, Stage, Laid, NEW link \in pending, RejectLink(link)
    PROVE  ~Good
<1>1. verdict = "linking" /\ next = Len(archive) + 1 /\ link \in DOMAIN links /\ ~Copies(link)
  BY DEF RejectLink, Stage, Shape
<1>2. LinksRead = Of("link") /\ FilesRead = Of("file")
  BY <1>1, AllRead
<1>3. CASE ~CanWrite(link)
  <2>1. PICK j \in Of("link") : link = PathOf(j)
    BY <1>1, <1>2 DEF Laid
  <2>2. j \in Kept /\ PathOf(j) # Rejected
    BY <1>1, <2>1 DEF Of, Shape, SafePaths, Rejected
  <2> QED BY <1>3, <2>1, <2>2, BlockedIsBad
<1>4. CASE ~IsFile(ResolveLinkSource(link, links))
  <2> SUFFICES ASSUME Good PROVE FALSE
    OBVIOUS
  <2>1. PICK i \in Of("file") : PathOf(i) \notin DOMAIN links /\ LeadsTo(link, PathOf(i))
    BY <1>1 DEF Good
  <2>2. ResolveLinkSource(link, links) = PathOf(i)
    BY <1>1, <2>1, ReachedIsSource DEF Laid, Shape
  <2>3. i \in Settled \ Of("dir")
    BY <1>2 DEF Settled, FilesRead, Of
  <2>4. PathOf(i) \in Files
    BY <2>3 DEF Laid
  <2> QED BY <1>4, <2>2, <2>4 DEF IsFile, Files
<1> QED BY <1>1, <1>3, <1>4 DEF Copies

LEMMA WrittenDirectories ==
    ASSUME Shape, NEW path \in SafePaths, NEW content, content # Directory,
           CanWrite(path), disk' = Written(path, content)
    PROVE  Directories' = Directories \cup (Ancestors(path) \ {path})
<1>1. /\ DOMAIN disk' = DOMAIN disk \cup Ancestors(path) /\ disk'[path] = content
      /\ \A p \in DOMAIN disk' \ {path} :
            disk'[p] = IF p \in DOMAIN disk THEN disk[p] ELSE Directory
  BY WrittenProperties
<1>2. \A p \in Ancestors(path) \ {path} : p \in DOMAIN disk => disk[p] = Directory
  BY AncestorsOf DEF CanWrite, CanCreate
<1>3. path \notin Directories
  BY DEF CanWrite, Directories
<1> QED BY <1>1, <1>2, <1>3 DEF Directories

LEMMA CreatedDirectories ==
    ASSUME Shape, NEW path \in SafePaths, CanCreate(path), disk' = Created(path)
    PROVE  Directories' = Directories \cup Ancestors(path) /\ Files' = Files
  BY CreatedProperties DEF CanCreate, Directories, Files

\* Reading an entry settles it, unless it is a link.
LEMMA ReadSettles ==
    ASSUME Shape, Stage, Reading, next' = next + 1, UNCHANGED <<archive, pending, verdict>>
    PROVE  /\ Settled' = Settled \cup {j \in Kept : j = next /\ archive[j].kind # "link"}
           /\ Landed = {} /\ Landed' = {}
<1>1. Landed = {} /\ Landed' = {}
  BY DEF Landed, Reading
<1>2. Kept' = Kept /\ \A j \in Kept : j < next' <=> j < next \/ j = next
  BY ArchiveTypes DEF Kept, Shape
<1> QED BY <1>1, <1>2 DEF Settled

LEMMA EntryLaid ==
    ASSUME Shape, Stage, Laid, SkipEntry \/ ExtractDirectory \/ ExtractFile \/ NoteLink
    PROVE  Laid'
<1>1. /\ Reading /\ next' = next + 1 /\ UNCHANGED <<format, archive, pending, verdict>>
  BY DEF SkipEntry, ExtractDirectory, ExtractFile, NoteLink, Advance
<1>2. /\ Kept' = Kept /\ Of("dir")' = Of("dir") /\ Of("file")' = Of("file")
      /\ \A j : PathOf(j)' = PathOf(j)
      /\ \A j : Needs(j)' = Needs(j) /\ (Admissible(j)' <=> Admissible(j))
  BY <1>1, ArchiveStays, JudgementStays
<1>3. /\ Settled' = Settled \cup {j \in Kept : j = next /\ archive[j].kind # "link"}
      /\ Landed' = {} /\ LinksRead' = LinksRead \cup ({next} \cap Of("link"))
  BY <1>1, ReadSettles, ReadStep
<1>4. \A j \in Kept : j < next' <=> j < next \/ j = next
  BY <1>1, ArchiveTypes DEF Kept, Shape
<1>5. CASE SkipEntry
  <2>1. next \notin Kept /\ next \notin Of("link")
    BY <1>5 DEF SkipEntry, Kept, Entry, Of
  <2>2. Settled' = Settled /\ LinksRead' = LinksRead /\ links' = links
        /\ Files' = Files /\ Directories' = Directories
    BY <1>3, <1>5, <2>1 DEF SkipEntry, Files, Directories
  <2> QED BY <1>2, <1>3, <1>4, <2>1, <2>2 DEF Laid
<1>6. CASE ~SkipEntry
  <2>1. /\ next \in Kept /\ Target \in SafePaths /\ Target = PathOf(next) /\ Target # Rejected
        /\ Entry = archive[next] /\ \A kind : next \in Of(kind) <=> Entry.kind = kind
    <3>1. Target # Rejected
      BY <1>6 DEF ExtractDirectory, ExtractFile, NoteLink
    <3> QED BY <1>1, <3>1, TargetSafe DEF Entry, Of
  <2>2. Admissible(next)
    BY <1>6, <2>1 DEF ExtractDirectory, ExtractFile, NoteLink, Admissible
  <2>3. \A j \in Kept' : j < next' => Admissible(j)'
    BY <1>2, <1>4, <2>2 DEF Laid
  <2>4. CASE ExtractDirectory
    <3>1. Needs(next) = Ancestors(Target) /\ next \in Of("dir") /\ next \notin Of("link")
      BY <2>1, <2>4 DEF ExtractDirectory, Needs
    <3>2. Settled' = Settled \cup {next} /\ LinksRead' = LinksRead /\ links' = links
      BY <1>3, <2>1, <2>4, <3>1 DEF ExtractDirectory
    <3>3. Directories' = Directories \cup Needs(next) /\ Files' = Files
      BY <2>1, <2>4, <3>1, CreatedDirectories DEF ExtractDirectory
    <3>4. Settled' \ Of("dir") = Settled \ Of("dir")
      BY <3>1, <3>2
    <3>5. Directories' = UNION {Needs(j) : j \in Settled'}
      <4>1. \A p : p \in UNION {Needs(j) : j \in Settled'}
                   <=> p \in UNION {Needs(j) : j \in Settled} \/ p \in Needs(next)
        BY <3>2, NeededBy
      <4> QED BY <3>3, <4>1 DEF Laid
    <3> QED BY <1>2, <1>3, <2>3, <3>2, <3>3, <3>4, <3>5 DEF Laid
  <2>5. CASE ExtractFile
    <3>1. /\ Needs(next) = Ancestors(Target) \ {Target} /\ next \notin Of("dir")
          /\ next \notin Of("link") /\ next # Directory
      BY <2>1, <2>5, Places DEF ExtractFile, Needs, Directory
    <3>2. Settled' = Settled \cup {next} /\ LinksRead' = LinksRead /\ links' = links
      BY <1>3, <2>1, <2>5, <3>1 DEF ExtractFile
    <3>3. Directories' = Directories \cup Needs(next) /\ Files' = Files \cup {Target}
      BY <2>1, <2>5, <3>1, WrittenDirectories, WrittenFiles DEF ExtractFile
    <3>4. Settled' \ Of("dir") = (Settled \ Of("dir")) \cup {next}
      BY <3>1, <3>2
    <3>5. Directories' = UNION {Needs(j) : j \in Settled'}
      <4>1. \A p : p \in UNION {Needs(j) : j \in Settled'}
                   <=> p \in UNION {Needs(j) : j \in Settled} \/ p \in Needs(next)
        BY <3>2, NeededBy
      <4> QED BY <3>3, <4>1 DEF Laid
    <3>6. Files' = {PathOf(j) : j \in Settled' \ Of("dir")}
      BY <2>1, <3>3, <3>4 DEF Laid
    <3> QED BY <1>2, <1>3, <2>3, <3>2, <3>3, <3>5, <3>6 DEF Laid
  <2>6. CASE NoteLink
    <3>1. next \in Of("link")
      BY <2>1, <2>6 DEF NoteLink
    <3>2. Settled' = Settled /\ LinksRead' = LinksRead \cup {next}
      BY <1>3, <2>1, <2>6, <3>1 DEF NoteLink
    <3>3. DOMAIN links' = DOMAIN links \cup {Target} /\ Files' = Files /\ Directories' = Directories
      BY <2>6 DEF NoteLink, Files, Directories
    <3>4. DOMAIN links' = {PathOf(i) : i \in LinksRead'}
      BY <2>1, <3>2, <3>3 DEF Laid
    <3> QED BY <1>2, <1>3, <2>3, <3>2, <3>3, <3>4 DEF Laid
  <2> QED BY <1>6, <2>4, <2>5, <2>6
<1> QED BY <1>5, <1>6

LEMMA LinkLaid ==
    ASSUME Shape, Stage, Laid, NEW link \in pending, CopyLink(link)
    PROVE  Laid'
<1> DEFINE source == ResolveLinkSource(link, links)
           new == {j \in Of("link") : PathOf(j) = link}
<1>1. /\ UNCHANGED <<format, archive, next, links, verdict>> /\ pending' = pending \ {link}
      /\ verdict = "linking" /\ disk' = Written(link, disk[source]) /\ CanWrite(link)
      /\ source \in Files /\ disk[source] # Directory /\ link \in DOMAIN links
      /\ link \in SafePaths /\ next = Len(archive) + 1
  BY DEF CopyLink, Copies, IsFile, Files, Shape, Stage
<1>2. source \notin DOMAIN links
  BY SourceIsNoLink DEF Shape, SafePaths
<1>3. Landed \subseteq DOMAIN links /\ Landed' = Landed \cup {link}
  BY <1>1 DEF Landed
<1>4. \E i \in Of("file") : PathOf(i) = source
  <2>1. PICK j \in Settled \ Of("dir") : source = PathOf(j)
    BY <1>1 DEF Laid
  <2>2. j \in Kept /\ Admissible(j) /\ archive[j].kind # "dir"
    BY <2>1 DEF Settled, Laid, Of
  <2>3. archive[j].kind # "link"
    BY <1>2, <1>3, <2>1 DEF Settled
  <2> QED BY <2>1, <2>2, <2>3 DEF Admissible, Of
<1> HIDE DEF source
<1>5. /\ Kept' = Kept /\ Of("dir")' = Of("dir") /\ Of("file")' = Of("file")
      /\ Of("link")' = Of("link") /\ LinksRead' = LinksRead
      /\ \A j : PathOf(j)' = PathOf(j)
      /\ \A j : Needs(j)' = Needs(j) /\ (Admissible(j)' <=> Admissible(j))
  BY <1>1, ArchiveStays, JudgementStays DEF LinksRead
<1>6. LinksRead = Of("link") /\ \A j \in Kept : j < next
  BY <1>1, AllRead, ArchiveTypes DEF Kept, Shape
<1>7. Settled' = Settled \cup new
  BY <1>1, <1>3, <1>5, <1>6 DEF Settled, Of
<1>8. new # {}
  BY <1>1, <1>6 DEF Laid
<1>9. \A j \in new : PathOf(j) = link /\ Needs(j) = Ancestors(link) \ {link} /\ j \notin Of("dir")
  BY DEF Needs, Of
<1> HIDE DEF new
<1>10. Files' = Files \cup {link} /\ Directories' = Directories \cup (Ancestors(link) \ {link})
  BY <1>1, WrittenFiles, WrittenDirectories
<1>11. Files' = {PathOf(j) : j \in Settled' \ Of("dir")}
  <2>1. Settled' \ Of("dir") = (Settled \ Of("dir")) \cup new
    BY <1>7, <1>9
  <2>2. {PathOf(j) : j \in new} = {link}
    BY <1>8, <1>9
  <2> QED BY <1>10, <2>1, <2>2 DEF Laid
<1>12. Directories' = UNION {Needs(j) : j \in Settled'}
  <2>1. UNION {Needs(j) : j \in new} = Ancestors(link) \ {link}
    <3>1. \A p : p \in UNION {Needs(j) : j \in new} <=> p \in Ancestors(link) \ {link}
      BY <1>8, <1>9, NeededBy
    <3> QED BY <3>1
  <2>2. \A p : p \in UNION {Needs(j) : j \in Settled'}
               <=> \/ p \in UNION {Needs(j) : j \in Settled}
                   \/ p \in UNION {Needs(j) : j \in new}
    BY <1>7, NeededBy
  <2> QED BY <1>10, <2>1, <2>2 DEF Laid
<1>13. ASSUME NEW l \in Landed'
       PROVE  \E i \in Of("file") : PathOf(i) = ResolveLinkSource(l, links)
  <2>1. CASE l = link
    BY <1>4, <2>1 DEF source
  <2>2. CASE l # link
    BY <1>3, <2>2 DEF Laid
  <2> QED BY <2>1, <2>2
<1> QED BY <1>1, <1>5, <1>11, <1>12, <1>13 DEF Laid

LEMMA StepJudged == Shape /\ Stage /\ Judged /\ [Next]_vars => Judged'
<1> SUFFICES ASSUME Shape, Stage, Judged, [Next]_vars PROVE Judged'
  OBVIOUS
<1>1. CASE SkipEntry \/ ExtractDirectory \/ ExtractFile \/ NoteLink
  <2>1. verdict = "reading" /\ verdict' = verdict
    BY <1>1 DEF SkipEntry, ExtractDirectory, ExtractFile, NoteLink, Advance, Reading
  <2> QED BY <1>1, <2>1, EntryLaid DEF Judged
<1>2. CASE RejectEntry \/ \E link \in pending : RejectLink(link)
  <2>1. verdict # "rejected" /\ verdict' = "rejected" /\ UNCHANGED <<format, archive, links>>
    BY <1>2 DEF RejectEntry, RejectLink, Reading
  <2>2. ~Good
    BY <1>2, <2>1, EntryRejectedIsBad, LinkRejectedIsBad DEF Judged
  <2> QED BY <2>1, <2>2, JudgementStays DEF Judged
<1>3. ASSUME NEW link \in pending, CopyLink(link) PROVE Judged'
  <2>1. verdict = "linking" /\ verdict' = verdict
    BY <1>3 DEF CopyLink
  <2> QED BY <1>3, <2>1, LinkLaid DEF Judged
<1>4. CASE EntriesDone \/ LinksDone \/ UNCHANGED vars
  <2>1. /\ UNCHANGED <<format, archive, next, links, disk>>
        /\ verdict' = "rejected" <=> verdict = "rejected"
    BY <1>4 DEF EntriesDone, LinksDone, vars
  <2>2. Landed' = Landed
    BY <1>4 DEF EntriesDone, LinksDone, vars, Landed, Stage
  <2>3. Settled' = Settled /\ LinksRead' = LinksRead /\ Files' = Files /\ Directories' = Directories
    BY <2>1, <2>2, ArchiveStays, JudgementStays DEF Settled, LinksRead, Files, Directories
  <2>4. Laid => Laid'
    BY <2>1, <2>2, <2>3, ArchiveStays, JudgementStays DEF Laid
  <2> QED BY <2>1, <2>4, JudgementStays DEF Judged
<1> QED BY <1>1, <1>2, <1>3, <1>4 DEF Next

\* The archives that are extracted are good.
LEMMA ExtractedIsGood ==
    ASSUME Shape, Stage, Laid, verdict = "extracted"
    PROVE  Good
<1>1. /\ Landed = DOMAIN links /\ LinksRead = Of("link")
      /\ \A j \in Kept : j < next
  <2>1. pending = {} /\ next = Len(archive) + 1
    BY DEF Stage
  <2>2. \A j \in Kept : j < next
    BY <2>1, ArchiveTypes DEF Kept, Shape
  <2>3. Landed = DOMAIN links
    BY <2>1 DEF Landed
  <2> QED BY <2>1, <2>2, <2>3, AllRead
<1>2. \A j \in Kept : Admissible(j) /\ PathOf(j) # Rejected
  BY <1>1 DEF Laid, Admissible
<1>3. Settled = Kept
  BY <1>1 DEF Settled, Laid, Of
<1>4. ASSUME NEW i \in Of("file") \cup Of("link"), NEW j \in Kept
      PROVE  PathOf(i) \notin Needs(j)
  <2>1. PathOf(i) \in Files
    BY <1>3 DEF Laid, Of
  <2>2. Needs(j) \subseteq Directories
    BY <1>3 DEF Laid
  <2> QED BY <2>1, <2>2 DEF Files, Directories
<1>5. \A i \in Of("file") \cup Of("link") : i \in Kept
  BY DEF Of
<1>6. ASSUME NEW p \in DOMAIN links
      PROVE  \E i \in Of("file") : PathOf(i) \notin DOMAIN links /\ LeadsTo(p, PathOf(i))
  <2>1. PICK i \in Of("file") : PathOf(i) = ResolveLinkSource(p, links)
    BY <1>1 DEF Laid
  <2>2. PathOf(i) # Rejected
    BY <1>2, <1>5
  <2>3. PathOf(i) \notin DOMAIN links
    BY <2>1, SourceIsNoLink DEF Shape, SafePaths
  <2> QED BY <2>1, <2>2, <2>3, SourceIsReached DEF Laid, Shape
<1> QED BY <1>2, <1>4, <1>5, <1>6, Clash DEF Good

LEMMA Invariance == Spec => []IInv
<1>1. IInv /\ [Next]_vars => IInv'
  BY StepShape, StepAgrees, StepJudged DEF IInv
<1> QED BY InitIInv, <1>1, PTL DEF Spec

-----------------------------------------------------------------------------
(* Verification *)

\* DigestsAccepted in the terms of the invariant.
LEMMA AcceptedDistinct ==
    ASSUME Shape, DigestsAccepted
    PROVE  Distinct /\ \A i \in Named : EntryAt(PathOf(i)) = i
<1>1. Distinct
  BY DEF DigestsAccepted, IsInjective, Distinct
<1>2. ASSUME NEW i \in Named PROVE EntryAt(PathOf(i)) = i
  <2>1. PathOf(EntryAt(PathOf(i))) = PathOf(i) /\ EntryAt(PathOf(i)) \in Named
    BY DEF EntryAt
  <2> QED BY <1>1, <2>1 DEF Distinct
<1> QED BY <1>1, <1>2

\* The links that verification collects are those that extraction noted.
LinkMap == [q \in {PathOf(i) : i \in Of("link")} |-> archive[EntryAt(q)].target]

LEMMA SameLinks ==
    ASSUME Shape, DigestsAccepted, Noted, next = Len(archive) + 1
    PROVE  links = LinkMap
<1>1. LinksRead = Of("link")
  BY AllRead
<1>2. DOMAIN links = {PathOf(i) : i \in Of("link")}
  BY <1>1 DEF Noted
<1>3. \A i \in Of("link") : links[PathOf(i)] = archive[EntryAt(PathOf(i))].target
  BY <1>1, AcceptedDistinct, Entries DEF Noted
<1>4. links = [q \in DOMAIN links |-> archive[EntryAt(q)].target]
  BY <1>2, <1>3 DEF Shape
<1> QED BY <1>2, <1>4 DEF LinkMap

\* A file entry is its own source.
LEMMA FileIsSource ==
    ASSUME Shape, DigestsAccepted, NEW i \in Of("file")
    PROVE  SourceOf(PathOf(i)) = PathOf(i)
<1>1. PathOf(i) \notin DOMAIN LinkMap
  BY AcceptedDistinct, Entries DEF Distinct, LinkMap
<1>2. Cardinality(DOMAIN LinkMap) \in Nat
  <2>1. IsFiniteSet(Of("link"))
    <3>1. IsFiniteSet(1..Len(archive))
      BY Entries, FS_Interval
    <3>2. Of("link") \subseteq 1..Len(archive)
      BY Entries
    <3> QED BY <3>1, <3>2, FS_Subset
  <2>2. IsFiniteSet({PathOf(j) : j \in Of("link")})
    <3> DEFINE paths == {PathOf(j) : j \in Of("link")}
               path == [j \in Of("link") |-> PathOf(j)]
    <3>1. path \in Surjection(Of("link"), paths)
      BY DEF Surjection
    <3> QED BY <2>1, <3>1, FS_Surjection
  <2>3. DOMAIN LinkMap = {PathOf(j) : j \in Of("link")}
    BY DEF LinkMap
  <2> QED BY <2>2, <2>3, FS_CardinalityType
<1>3. Hops(PathOf(i), LinkMap, Cardinality(DOMAIN LinkMap)) = PathOf(i)
  BY <1>1, <1>2, NoLinkNoHop
<1>4. ResolveLinkSource(PathOf(i), LinkMap) = PathOf(i)
  BY <1>1, <1>3 DEF ResolveLinkSource
<1> QED BY <1>4 DEF SourceOf, LinkMap

LEMMA InstallAgrees ==
    ASSUME IInv, verdict = "extracted", DigestsAccepted
    PROVE  TreeDigests = ArchiveDigests
<1>1. /\ Shape /\ Distinct /\ Noted /\ Faithful /\ pending = {}
      /\ next = Len(archive) + 1
  BY AcceptedDistinct DEF IInv, Agrees, Stage
<1>2. FilesRead = Of("file") /\ Copied = Of("link")
  BY <1>1, AllRead DEF Copied
<1>3. Files = {PathOf(i) : i \in Named}
  BY <1>1, <1>2 DEF Faithful, Named
<1>4. ASSUME NEW i \in Named PROVE disk[PathOf(i)] = EntryAt(SourceOf(PathOf(i)))
  <2>1. CASE i \in Of("file")
    BY <1>1, <1>2, <2>1, FileIsSource, AcceptedDistinct DEF Faithful
  <2>2. CASE i \in Of("link")
    <3>1. PICK j \in Of("file") :
             PathOf(j) = ResolveLinkSource(PathOf(i), links) /\ disk[PathOf(i)] = j
      BY <1>1, <1>2, <2>2 DEF Faithful
    <3>2. SourceOf(PathOf(i)) = PathOf(j)
      BY <1>1, <3>1, SameLinks DEF SourceOf, LinkMap
    <3> QED BY <1>1, <3>1, <3>2, AcceptedDistinct, Entries
  <2> QED BY <2>1, <2>2 DEF Named
<1>5. TreeDigests = [p \in Files |-> disk[p]]
  BY DEF TreeDigests, Files
<1>6. \A p \in Files : disk[p] = EntryAt(SourceOf(p))
  BY <1>3, <1>4
<1> QED BY <1>3, <1>5, <1>6 DEF ArchiveDigests

-----------------------------------------------------------------------------
\* Whatever the archive holds, nothing that extraction creates lies outside the
\* destination or has a special component, no link is followed out of it, and
\* what is copied through links is only ever a file of the same archive.
THEOREM ExtractionIsContained == Spec => []Contained
<1>1. IInv => Contained
  <2> SUFFICES ASSUME IInv PROVE Contained
    OBVIOUS
  <2>1. \A p \in DOMAIN disk : p # <<>> /\ \A i \in DOMAIN p : p[i] \in Names
    BY SafePathProperties DEF IInv, Shape
  <2>2. \A l \in DOMAIN links : ResolveLinkSource(l, links) \in Seq(Names)
    BY SourceIsSafe DEF IInv, Shape, SafePaths
  <2> QED BY <2>1, <2>2 DEF IInv, Shape, Contained
<1> QED BY <1>1, Invariance, PTL

\* An install that succeeds passes its own full verification, in so far as
\* verification accepts the archive.
THEOREM FreshInstallVerifies == Spec => []InstalledVerifies
<1>1. IInv => InstalledVerifies
  BY InstallAgrees DEF InstalledVerifies
<1> QED BY <1>1, Invariance, PTL

\* Extraction succeeds for the good archives and for no others, however long the
\* chains of links are and in whatever order the entries come.
THEOREM VerdictIsCorrect == Spec => []VerdictIsRight
<1>1. IInv => VerdictIsRight
  BY ExtractedIsGood DEF IInv, Judged, VerdictIsRight
<1> QED BY <1>1, Invariance, PTL
=============================================================================
