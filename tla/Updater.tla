------------------------------ MODULE Updater ------------------------------
(***************************************************************************)
(* verso update (internal/updater/updater.go): several invocations at once *)
(* resolve the executable they were started from, ask for the newest       *)
(* release, download its checksums and its archive, and replace the        *)
(* executable by a rename.  No lock serializes them.  Meanwhile releases   *)
(* are published and uploaded again, and people install by hand and move   *)
(* the link that is on their PATH.                                         *)
(*                                                                         *)
(* A file is its inode and the binary in it.  A process keeps the inode it *)
(* runs from alive, so a new file never has that one.                      *)
(***************************************************************************)
EXTENDS Integers, FiniteSets

CONSTANTS
  Updaters,    \* invocations of verso update
  Places,      \* real paths a verso binary may have
  Homebrew,    \* the places below Homebrew's Cellar
  MaxVersion,  \* bound: release versions, 1 the oldest
  MaxBuild,    \* bound: uploads of one release's archive
  MaxEvents    \* bound: outside events in a behaviour

ASSUME HomebrewAssumption == Homebrew \subseteq Places
ASSUME PlacesAssumption == IsFiniteSet(Places)
ASSUME BoundsAssumption ==
  MaxVersion \in Nat /\ MaxBuild \in Nat \ {0} /\ MaxEvents \in Nat

VARIABLES
  pc,          \* the step each invocation is at
  current,     \* buildinfo.Version of each process
  ranFrom,     \* the place and inode each process was started from
  throughLink, \* os.Executable is the link (darwin) or the real path (linux)
  target,      \* target.realPath and target.info
  latest,      \* the release each invocation saw
  digest,      \* the build checksums.txt named
  binary,      \* the binary each invocation has extracted
  link,        \* where the verso on the PATH leads
  files,       \* the file at each place
  inodes,      \* inodes given out
  newest,      \* releases 1..newest are published
  archives,    \* the build uploaded for each release
  sums,        \* the build its checksums.txt names
  budget,      \* outside events left
  named,       \* history: builds a checksums.txt has named
  moved        \* history: something moved where an invocation cannot see it

request == <<current, ranFrom, throughLink>>
progress == <<target, latest, digest, binary>>
machine == <<link, files, inodes>>
server  == <<newest, archives, sums, named>>
vars == <<pc, request, progress, machine, server, budget, moved>>

-----------------------------------------------------------------------------
(* Values *)

Releases == 1..MaxVersion
Builds   == 1..MaxBuild

\* Version 0 is a local build ("dev", install kind "unknown"); build 0 is an
\* archive that arrived broken.
Binaries == [version : 0..MaxVersion, build : 0..MaxBuild]
Local    == [version |-> 0, build |-> 1]
NoBinary == [version |-> 0, build |-> 0]

Targets  == [place : Places, inode : Nat]

Steps == {"resolve", "metadata", "checksums", "archive", "write", "check",
          "rename"}

TypeOK ==
  /\ pc \in [Updaters -> Steps \cup {"idle", "done", "crashed"}]
  /\ current \in [Updaters -> 0..MaxVersion]
  /\ ranFrom \in [Updaters -> Targets]
  /\ throughLink \in [Updaters -> BOOLEAN]
  /\ target \in [Updaters -> Targets]
  /\ latest \in [Updaters -> 0..MaxVersion]
  /\ digest \in [Updaters -> 0..MaxBuild]
  /\ binary \in [Updaters -> Binaries]
  /\ link \in Places
  /\ files \in [Places -> [inode : 1..inodes, binary : Binaries]]
  /\ \A p, q \in Places : files[p].inode = files[q].inode => p = q
  /\ inodes \in Nat /\ newest \in Releases
  /\ archives \in [Releases -> Builds] /\ sums \in [Releases -> Builds]
  /\ budget \in Nat
  /\ named \subseteq Releases \X Builds
  /\ moved \in [Updaters -> BOOLEAN]

-----------------------------------------------------------------------------
(* One invocation *)

Goto(u, step) == pc' = [pc EXCEPT ![u] = step]

\* Update returns, with an error or because there is nothing to do.
Return(u) == Goto(u, "done")

Running(u) == pc[u] \in Steps

Start(u) ==
  /\ pc[u] = "idle"
  /\ Goto(u, "resolve")
  /\ current' = [current EXCEPT ![u] = files[link].binary.version]
  /\ ranFrom' = [ranFrom EXCEPT ![u] =
                   [place |-> link, inode |-> files[link].inode]]
  /\ \E through \in BOOLEAN :
       throughLink' = [throughLink EXCEPT ![u] = through]
  /\ UNCHANGED <<progress, machine, server, budget, moved>>

\* The real path: through the link, or the file the process runs, which Linux
\* no longer finds once it was replaced.
Resolves(u, place) ==
  IF throughLink[u]
  THEN place = link
  ELSE place = ranFrom[u].place /\ files[place].inode = ranFrom[u].inode

\* Homebrew's binaries and local builds are not ours to replace.
Resolve(u) ==
  /\ pc[u] = "resolve"
  /\ \/ Return(u) /\ UNCHANGED target
     \/ \E place \in Places :
          /\ Resolves(u, place) /\ place \notin Homebrew /\ current[u] # 0
          /\ target' = [target EXCEPT ![u] =
                          [place |-> place, inode |-> files[place].inode]]
          /\ Goto(u, "metadata")
  /\ UNCHANGED <<request, latest, digest, binary, machine, server, budget,
                 moved>>

MetadataMutant(u) ==
  /\ pc[u] = "metadata"
  /\ \/ Return(u) /\ UNCHANGED latest
     \/ /\ current[u] < newest + 1
        /\ latest' = [latest EXCEPT ![u] = newest + 1]
        /\ Goto(u, "checksums")
  /\ UNCHANGED <<request, target, digest, binary, machine, server, budget,
                 moved>>

\* The newest release, if it is newer than this process.
Metadata(u) ==
  /\ pc[u] = "metadata"
  /\ \/ Return(u) /\ UNCHANGED latest
     \/ /\ current[u] < newest
        /\ latest' = [latest EXCEPT ![u] = newest]
        /\ Goto(u, "checksums")
  /\ UNCHANGED <<request, target, digest, binary, machine, server, budget,
                 moved>>

Checksums(u) ==
  /\ pc[u] = "checksums"
  /\ \/ Return(u) /\ UNCHANGED digest
     \/ digest' = [digest EXCEPT ![u] = sums[latest[u]]] /\ Goto(u, "archive")
  /\ UNCHANGED <<request, target, latest, binary, machine, server, budget,
                 moved>>

\* What a download of the archive can bring.
Arrives(u) == {0, archives[latest[u]]}

ArchiveMutant(u) ==
  /\ pc[u] = "archive"
  /\ \/ Return(u) /\ UNCHANGED binary
     \/ \E build \in Arrives(u) \ {0} :
          /\ binary' = [binary EXCEPT ![u] =
                          [version |-> latest[u], build |-> build]]
          /\ Goto(u, "write")
  /\ UNCHANGED <<request, target, latest, digest, machine, server, budget,
                 moved>>

\* An archive with another digest than the one named is refused.
Archive(u) ==
  /\ pc[u] = "archive"
  /\ \/ Return(u) /\ UNCHANGED binary
     \/ \E build \in Arrives(u) :
          /\ build = digest[u]
          /\ binary' = [binary EXCEPT ![u] =
                          [version |-> latest[u], build |-> build]]
          /\ Goto(u, "write")
  /\ UNCHANGED <<request, target, latest, digest, machine, server, budget,
                 moved>>

\* The temporary file next to the executable.
WriteTemporary(u) ==
  /\ pc[u] = "write"
  /\ Return(u) \/ Goto(u, "check")
  /\ UNCHANGED <<request, progress, machine, server, budget, moved>>

\* os.SameFile of the executable then and now.
SameInode(u) == files[target[u].place].inode = target[u].inode

SamePathMutant(u) == TRUE

\* The path the process was started by still has the same real path.
SamePath(u) == throughLink[u] => link = target[u].place

CheckTarget(u) ==
  /\ pc[u] = "check"
  /\ \/ Return(u)
     \/ SamePath(u) /\ SameInode(u) /\ Goto(u, "rename")
  /\ UNCHANGED <<request, progress, machine, server, budget, moved>>

\* Invocations that have no way to notice a change made now.
Unaware == {u \in Updaters : pc[u] \in {"resolve", "rename"}}

Noticed(u) == moved' = [w \in Updaters |-> moved[w] \/ w \in Unaware \ {u}]

\* A file of its own inode comes to a place.
Put(place, content) ==
  /\ inodes' = inodes + 1
  /\ files' = [files EXCEPT ![place] =
                 [inode |-> inodes + 1, binary |-> content]]

Rename(u) ==
  /\ pc[u] = "rename"
  /\ Return(u)
  /\ \/ UNCHANGED <<files, inodes, moved>>
     \/ Put(target[u].place, binary[u]) /\ Noticed(u)
  /\ UNCHANGED <<request, progress, link, server, budget>>

-----------------------------------------------------------------------------
(* Outside *)

Spend == budget > 0 /\ budget' = budget - 1

Crash(u) ==
  /\ Running(u) /\ Spend
  /\ Goto(u, "crashed")
  /\ UNCHANGED <<request, progress, machine, server, moved>>

Everyone == moved' = [u \in Updaters |-> moved[u] \/ u \in Unaware]

\* Somebody puts a release or a local build in a place.
InstallByHand(place) ==
  /\ Spend
  /\ \/ \E v \in 1..newest :
          Put(place, [version |-> v, build |-> sums[v]])
     \/ Put(place, Local)
  /\ Everyone
  /\ UNCHANGED <<pc, request, progress, link, server>>

Relink(place) ==
  /\ place # link /\ Spend
  /\ link' = place /\ Everyone
  /\ UNCHANGED <<pc, request, progress, files, inodes, server>>

Publish ==
  /\ newest < MaxVersion /\ Spend
  /\ newest' = newest + 1
  /\ named' = named \cup {<<newest + 1, sums[newest + 1]>>}
  /\ UNCHANGED <<pc, request, progress, machine, archives, sums, moved>>

\* A release is uploaded again: the archive first, its checksums later.
UploadArchive(v) ==
  /\ archives[v] < MaxBuild /\ Spend
  /\ archives' = [archives EXCEPT ![v] = @ + 1]
  /\ UNCHANGED <<pc, request, progress, machine, newest, sums, named, moved>>

UploadSums(v) ==
  /\ sums[v] # archives[v]
  /\ sums' = [sums EXCEPT ![v] = archives[v]]
  /\ named' = named \cup {<<v, archives[v]>>}
  /\ UNCHANGED <<pc, request, progress, machine, newest, archives, budget,
                 moved>>

-----------------------------------------------------------------------------
(* The specification *)

\* An older release is installed in every place, or a local build.
Init ==
  /\ pc = [u \in Updaters |-> "idle"]
  /\ current = [u \in Updaters |-> 0]
  /\ throughLink = [u \in Updaters |-> FALSE]
  /\ latest = [u \in Updaters |-> 0] /\ digest = [u \in Updaters |-> 0]
  /\ binary = [u \in Updaters |-> NoBinary]
  /\ link \in Places
  /\ ranFrom = [u \in Updaters |-> [place |-> link, inode |-> 0]]
  /\ target = ranFrom
  /\ inodes = Cardinality(Places)
  /\ files \in [Places -> [inode : 1..inodes,
                           binary : {Local, [version |-> 1, build |-> 1]}]]
  /\ \A p, q \in Places : files[p].inode = files[q].inode => p = q
  /\ newest \in {1, 2} \cap Releases
  /\ archives = [v \in Releases |-> 1] /\ sums = [v \in Releases |-> 1]
  /\ named = (1..newest) \X {1}
  /\ budget = MaxEvents
  /\ moved = [u \in Updaters |-> FALSE]

Update(u) ==
  \/ Start(u)
  \/ Resolve(u)
  \/ Metadata(u)
  \/ Checksums(u)
  \/ Archive(u)
  \/ WriteTemporary(u)
  \/ CheckTarget(u)
  \/ Rename(u)

Outside ==
  \/ \E u \in Updaters : Crash(u)
  \/ \E p \in Places : InstallByHand(p) \/ Relink(p)
  \/ Publish
  \/ \E v \in 1..newest : UploadArchive(v) \/ UploadSums(v)

Next == (\E u \in Updaters : Update(u)) \/ Outside

Spec == Init /\ [][Next]_vars

-----------------------------------------------------------------------------
(* Properties *)

Replaces(u) == pc[u] = "rename" /\ pc'[u] = "done" /\ files' # files

\* What an update replaces is a release older than the one it brings, in a
\* place Homebrew does not own: not a local build, not what another update or
\* a person put there meanwhile (replace, os.SameFile); and an update started
\* through the link replaces the binary the link leads to, not a file nobody
\* runs any more (filepath.EvalSymlinks).  Except for what happens between the
\* last check and the rename, or before the executable was resolved.
ReplacesOlderInUse ==
  [][\A u \in Updaters : Replaces(u) =>
       \/ moved[u]
       \/ LET old == files[target[u].place].binary IN
            /\ old.version # 0
            /\ old.version < binary[u].version
            /\ target[u].place \notin Homebrew
            /\ throughLink[u] => link = target[u].place]_vars

\* Whatever is downloaded while releases are uploaded again, every installed
\* binary is whole, and a release's binary is one that its checksums have
\* named (Update, checksumFor, extractBinary).
InstalledIsNamed ==
  \A p \in Places :
    \/ files[p].binary = Local
    \/ <<files[p].binary.version, files[p].binary.build>> \in named

=============================================================================
