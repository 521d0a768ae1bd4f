--------------------------- MODULE UpdaterProofs ---------------------------
(***************************************************************************)
(* Proofs about Updater, for any number of invocations, places, versions   *)
(* and uploads: what is installed was named by checksums, and an update    *)
(* replaces an older release that is in use, except in the two windows in  *)
(* which it cannot notice a change.                                        *)
(***************************************************************************)
EXTENDS Updater, FiniteSetTheorems, TLAPS

Unpacked == {"write", "check", "rename"}

\* Whoever holds a digest or a binary has it from checksums that were
\* published.
NamedInv ==
  /\ \A v \in 1..newest : <<v, sums[v]>> \in named
  /\ \A u \in Updaters :
       /\ pc[u] = "checksums" => latest[u] \in 1..newest
       /\ pc[u] = "archive" => <<latest[u], digest[u]>> \in named
       /\ pc[u] \in Unpacked =>
            <<binary[u].version, binary[u].build>> \in named
  /\ InstalledIsNamed

\* An inode names one binary for as long as a process runs from it, and the
\* executable that an invocation resolved has the inode it runs from.
Tracks(u) ==
  /\ pc[u] \in Steps =>
       /\ ranFrom[u].inode <= inodes
       /\ \A p \in Places : files[p].inode = ranFrom[u].inode =>
                              files[p].binary.version = current[u]
  /\ pc[u] = "resolve" /\ ~moved[u] /\ throughLink[u] =>
       link = ranFrom[u].place /\ files[link].inode = ranFrom[u].inode
  /\ pc[u] \in Steps \ {"resolve"} =>
       /\ target[u].place \notin Homebrew /\ current[u] # 0
       /\ ~moved[u] => target[u].inode = ranFrom[u].inode
  /\ pc[u] \in {"checksums", "archive"} => current[u] < latest[u]
  /\ pc[u] \in Unpacked => current[u] < binary[u].version
  /\ pc[u] = "rename" /\ ~moved[u] =>
       /\ files[target[u].place].inode = target[u].inode
       /\ throughLink[u] => link = target[u].place

TracksInv == \A u \in Updaters : Tracks(u)

\* The inductive invariant.
Inv == TypeOK /\ NamedInv /\ TracksInv

\* Put changes one place, and gives its file an inode of its own.
LEMMA PutFile ==
  ASSUME TypeOK, NEW place \in Places, NEW content, Put(place, content)
  PROVE  /\ inodes \in Nat /\ inodes' = inodes + 1
         /\ \A p \in Places : files[p].inode \in 1..inodes
         /\ \A p \in Places :
              files'[p] = IF p = place
                          THEN [inode |-> inodes + 1, binary |-> content]
                          ELSE files[p]
BY DEF Put, TypeOK

\* The files stay files of different inodes.
LEMMA PutTypes ==
  ASSUME TypeOK, NEW place \in Places, NEW content \in Binaries,
         Put(place, content)
  PROVE  /\ inodes' \in Nat
         /\ files' \in [Places -> [inode : 1..inodes', binary : Binaries]]
         /\ \A p, q \in Places : files'[p].inode = files'[q].inode => p = q
<1>1. inodes' = inodes + 1 /\ inodes \in Nat
  BY PutFile
<1>2. \A p \in Places : files'[p] = IF p = place
        THEN [inode |-> inodes + 1, binary |-> content] ELSE files[p]
  BY PutFile
<1>3. \A p \in Places : /\ files[p] \in [inode : 1..inodes, binary : Binaries]
                        /\ files[p].inode \in 1..inodes
  BY DEF TypeOK
<1>4. files' \in [Places -> [inode : 1..inodes', binary : Binaries]]
  <2>1. \A p \in Places : files'[p] \in [inode : 1..inodes', binary : Binaries]
    BY <1>1, <1>2, <1>3
  <2> QED BY <2>1 DEF Put, TypeOK
<1>5. ASSUME NEW p \in Places, NEW q \in Places,
             files'[p].inode = files'[q].inode
      PROVE  p = q
  BY <1>1, <1>2, <1>3, <1>5 DEF TypeOK
<1> QED BY <1>1, <1>4, <1>5

\* At every place is what was put there, or what was there.
LEMMA PutBinary ==
  ASSUME TypeOK, NEW place \in Places, NEW content, Put(place, content),
         NEW p \in Places
  PROVE  files'[p].binary = content \/ files'[p].binary = files[p].binary
<1>1. \/ files'[p] = [inode |-> inodes + 1, binary |-> content]
      \/ files'[p] = files[p]
  BY PutFile
<1> QED BY <1>1

\* What somebody installs by hand, and what an update has unpacked,
\* are binaries.
LEMMA BinaryTypes ==
  ASSUME TypeOK
  PROVE  /\ Local \in Binaries
         /\ \A v \in 1..newest : [version |-> v, build |-> sums[v]] \in Binaries
         /\ \A u \in Updaters : binary[u] \in Binaries
BY BoundsAssumption DEF TypeOK, Local, Binaries, Releases, Builds

\* The history of what moved stays a function to the Booleans.
LEMMA MovedTypes ==
  ASSUME TypeOK
  PROVE  /\ \A u \in Updaters : Noticed(u) => moved' \in [Updaters -> BOOLEAN]
         /\ \A p \in Places : InstallByHand(p) \/ Relink(p) =>
                               moved' \in [Updaters -> BOOLEAN]
BY Zenon DEF TypeOK, Noticed, Everyone, InstallByHand, Relink

\* The values that an invocation takes over have the right types.
LEMMA ValueTypes ==
  ASSUME TypeOK
  PROVE  /\ newest \in 0..MaxVersion
         /\ \A v \in Releases : sums[v] \in 0..MaxBuild
         /\ \A p \in Places :
              [place |-> p, inode |-> files[p].inode] \in Targets
         /\ \A u \in Updaters :
              [version |-> latest[u], build |-> digest[u]] \in Binaries
<1>1. newest \in 0..MaxVersion /\ \A v \in Releases : sums[v] \in 0..MaxBuild
  BY BoundsAssumption DEF TypeOK, Releases, Builds
<1>2. \A p \in Places : [place |-> p, inode |-> files[p].inode] \in Targets
  BY DEF TypeOK, Targets
<1>3. \A u \in Updaters :
        [version |-> latest[u], build |-> digest[u]] \in Binaries
  BY DEF TypeOK, Binaries
<1> QED BY <1>1, <1>2, <1>3

\* Each download, and each resolution of an executable, stores a typed value.
LEMMA ProgressTypes ==
  ASSUME TypeOK, NEW u \in Updaters
  PROVE  /\ Resolve(u) => target' \in [Updaters -> Targets]
         /\ Metadata(u) => latest' \in [Updaters -> 0..MaxVersion]
         /\ Archive(u) => binary' \in [Updaters -> Binaries]
<1>1. ASSUME Resolve(u) PROVE target' \in [Updaters -> Targets]
  <2>1. \/ target' = target
        \/ \E p \in Places :
             target' = [target EXCEPT ![u] =
                          [place |-> p, inode |-> files[p].inode]]
    BY <1>1 DEF Resolve
  <2>2. target \in [Updaters -> Targets]
    BY DEF TypeOK
  <2> QED BY <2>1, <2>2, ValueTypes
<1>2. ASSUME Metadata(u) PROVE latest' \in [Updaters -> 0..MaxVersion]
  <2>1. latest' = latest \/ latest' = [latest EXCEPT ![u] = newest]
    BY <1>2 DEF Metadata
  <2>2. latest \in [Updaters -> 0..MaxVersion]
    BY DEF TypeOK
  <2> QED BY <2>1, <2>2, ValueTypes
<1>3. ASSUME Archive(u) PROVE binary' \in [Updaters -> Binaries]
  <2>1. \/ binary' = binary
        \/ binary' = [binary EXCEPT ![u] =
                        [version |-> latest[u], build |-> digest[u]]]
    BY <1>3 DEF Archive
  <2>2. binary \in [Updaters -> Binaries]
    BY DEF TypeOK
  <2> QED BY <2>1, <2>2, ValueTypes
<1> QED BY <1>1, <1>2, <1>3

\* The digest is of a release that is published.
LEMMA ChecksumsTypes ==
  ASSUME TypeOK, NamedInv, NEW u \in Updaters, Checksums(u)
  PROVE  digest' \in [Updaters -> 0..MaxBuild]
<1>1. newest \in 1..MaxVersion /\ digest \in [Updaters -> 0..MaxBuild]
  BY DEF TypeOK, Releases
<1>2. latest[u] \in 1..newest
  BY DEF Checksums, NamedInv
<1>3. latest[u] \in Releases
  BY <1>1, <1>2, BoundsAssumption DEF Releases
<1>4. digest' = digest \/ digest' = [digest EXCEPT ![u] = sums[latest[u]]]
  BY DEF Checksums
<1> QED BY <1>1, <1>3, <1>4, ValueTypes

\* A person puts a binary in a place.
LEMMA InstallPuts ==
  ASSUME TypeOK, NEW p \in Places, InstallByHand(p)
  PROVE  \E content \in Binaries : Put(p, content)
<1>1. CASE \E v \in 1..newest : Put(p, [version |-> v, build |-> sums[v]])
  BY <1>1, BinaryTypes
<1>2. CASE Put(p, Local)
  BY <1>2, BinaryTypes
<1> QED BY <1>1, <1>2 DEF InstallByHand

\* What people do by hand keeps the types.
LEMMA ByHandTypes ==
  ASSUME TypeOK, NEW p \in Places
  PROVE  InstallByHand(p) \/ Relink(p) => TypeOK'
<1>1. ASSUME InstallByHand(p) PROVE TypeOK'
  <2>1. moved' \in [Updaters -> BOOLEAN]
    BY <1>1, MovedTypes
  <2>2. PICK content \in Binaries : Put(p, content)
    BY <1>1, InstallPuts
  <2>3. /\ inodes' \in Nat
        /\ files' \in [Places -> [inode : 1..inodes', binary : Binaries]]
        /\ \A q, r \in Places : files'[q].inode = files'[r].inode => q = r
    BY <2>2, PutTypes
  <2> QED BY <1>1, <2>1, <2>3
      DEF InstallByHand, TypeOK, Spend, request, progress, server
<1>2. ASSUME Relink(p) PROVE TypeOK'
  <2>1. moved' \in [Updaters -> BOOLEAN]
    BY <1>2, MovedTypes
  <2> QED BY <1>2, <2>1
      DEF Relink, TypeOK, Spend, request, progress, server
<1> QED BY <1>1, <1>2

\* Every step keeps the types.
LEMMA TypesKept ==
  ASSUME TypeOK, NamedInv, Next
  PROVE  TypeOK'
<1> USE BoundsAssumption
    DEF TypeOK, Targets, Steps, Releases, Builds, Running, request, progress,
        machine, server, vars, Goto, Return, Spend
<1>1. ASSUME NEW u \in Updaters, Start(u) PROVE TypeOK'
  <2>1. throughLink' \in [Updaters -> BOOLEAN]
    BY <1>1, Zenon DEF Start
  <2>2. /\ files[link].binary.version \in 0..MaxVersion
        /\ files[link].inode \in Nat
    BY DEF Binaries
  <2>3. /\ current' \in [Updaters -> 0..MaxVersion]
        /\ ranFrom' \in [Updaters -> Targets]
    BY <1>1, <2>2 DEF Start
  <2> QED BY <1>1, <2>1, <2>3 DEF Start
<1>2. ASSUME NEW u \in Updaters, Resolve(u) PROVE TypeOK'
  <2>1. target' \in [Updaters -> Targets]
    BY <1>2, ProgressTypes
  <2>2. pc' \in [Updaters -> Steps \cup {"idle", "done", "crashed"}]
    BY <1>2 DEF Resolve
  <2> QED BY <1>2, <2>1, <2>2 DEF Resolve
<1>3. ASSUME NEW u \in Updaters, Metadata(u) PROVE TypeOK'
  <2>1. latest' \in [Updaters -> 0..MaxVersion]
    BY <1>3, ProgressTypes
  <2>2. pc' \in [Updaters -> Steps \cup {"idle", "done", "crashed"}]
    BY <1>3 DEF Metadata
  <2> QED BY <1>3, <2>1, <2>2 DEF Metadata
<1>4. ASSUME NEW u \in Updaters, Checksums(u) PROVE TypeOK'
  <2>1. digest' \in [Updaters -> 0..MaxBuild]
    BY <1>4, ChecksumsTypes
  <2>2. pc' \in [Updaters -> Steps \cup {"idle", "done", "crashed"}]
    BY <1>4 DEF Checksums
  <2> QED BY <1>4, <2>1, <2>2 DEF Checksums
<1>5. ASSUME NEW u \in Updaters, Archive(u) PROVE TypeOK'
  <2>1. binary' \in [Updaters -> Binaries]
    BY <1>5, ProgressTypes
  <2>2. pc' \in [Updaters -> Steps \cup {"idle", "done", "crashed"}]
    BY <1>5 DEF Archive, Arrives, Binaries
  <2> QED BY <1>5, <2>1, <2>2 DEF Archive
<1>6. ASSUME NEW u \in Updaters, WriteTemporary(u) PROVE TypeOK'
  BY <1>6 DEF WriteTemporary
<1>7. ASSUME NEW u \in Updaters, CheckTarget(u) PROVE TypeOK'
  BY <1>7 DEF CheckTarget
<1>8. ASSUME NEW u \in Updaters, Rename(u) PROVE TypeOK'
  <2>1. CASE UNCHANGED <<files, inodes, moved>>
    BY <1>8, <2>1 DEF Rename
  <2>2. CASE Put(target[u].place, binary[u]) /\ Noticed(u)
    <3>1. target[u].place \in Places /\ binary[u] \in Binaries
      OBVIOUS
    <3>2. moved' \in [Updaters -> BOOLEAN]
      BY <2>2, MovedTypes
    <3> QED BY <1>8, <2>2, <3>1, <3>2, PutTypes DEF Rename
  <2> QED BY <1>8, <2>1, <2>2 DEF Rename
<1>9. ASSUME NEW u \in Updaters, Crash(u) PROVE TypeOK'
  <2>1. budget' \in Nat
    BY <1>9 DEF Crash
  <2>2. pc' \in [Updaters -> Steps \cup {"idle", "done", "crashed"}]
    BY <1>9 DEF Crash
  <2> QED BY <1>9, <2>1, <2>2 DEF Crash
<1>10. ASSUME NEW p \in Places, InstallByHand(p) PROVE TypeOK'
  BY <1>10, ByHandTypes
<1>11. ASSUME NEW p \in Places, Relink(p) PROVE TypeOK'
  BY <1>11, ByHandTypes
<1>12. ASSUME Publish PROVE TypeOK'
  <2>1. newest' \in Releases /\ budget' \in Nat
    BY <1>12 DEF Publish
  <2>2. named' \subseteq Releases \X Builds
    BY <1>12 DEF Publish
  <2> QED BY <1>12, <2>1, <2>2 DEF Publish
<1>13. ASSUME NEW v \in 1..newest, UploadArchive(v) PROVE TypeOK'
  <2>1. archives' \in [Releases -> Builds]
    BY <1>13 DEF UploadArchive
  <2>2. budget' \in Nat
    BY <1>13 DEF UploadArchive
  <2> QED BY <1>13, <2>1, <2>2 DEF UploadArchive
<1>14. ASSUME NEW v \in 1..newest, UploadSums(v) PROVE TypeOK'
  <2>1. sums' \in [Releases -> Builds]
    BY <1>14 DEF UploadSums
  <2>2. named' \subseteq Releases \X Builds
    BY <1>14 DEF UploadSums
  <2> QED BY <1>14, <2>1, <2>2 DEF UploadSums
<1> QED
  BY <1>1, <1>2, <1>3, <1>4, <1>5, <1>6, <1>7,
     <1>8, <1>9, <1>10, <1>11, <1>12, <1>13, <1>14
  DEF Next, Update, Outside

\* The newest release is a published one.
LEMMA MetadataKeepsNamed ==
  ASSUME TypeOK, NamedInv, NEW u \in Updaters, Metadata(u)
  PROVE  NamedInv'
<1>1. \A w \in Updaters \ {u} : pc'[w] = pc[w] /\ latest'[w] = latest[w]
  BY DEF Metadata, TypeOK, Return, Goto
<1>2. \/ pc'[u] = "done"
      \/ pc'[u] = "checksums" /\ latest'[u] = newest
  BY DEF Metadata, TypeOK, Return, Goto
<1>3. newest \in 1..newest
  BY DEF TypeOK, Releases
<1>4. pc[u] = "metadata"
  BY DEF Metadata
<1> QED BY <1>1, <1>2, <1>3, <1>4
    DEF NamedInv, InstalledIsNamed, Metadata, Unpacked, server, machine, progress

\* An archive with the digest that was named is what was named.
LEMMA ArchiveKeepsNamed ==
  ASSUME TypeOK, NamedInv, NEW u \in Updaters, Archive(u)
  PROVE  NamedInv'
<1>1. \A w \in Updaters \ {u} : pc'[w] = pc[w] /\ binary'[w] = binary[w]
  BY DEF Archive, TypeOK, Return, Goto
<1>2. \/ pc'[u] = "done"
      \/ /\ pc'[u] = "write"
         /\ binary'[u] = [version |-> latest[u], build |-> digest[u]]
  BY DEF Archive, TypeOK, Return, Goto
<1>3. pc[u] = "archive"
  BY DEF Archive
<1>4. ASSUME NEW w \in Updaters
      PROVE  /\ pc'[w] = "checksums" => latest'[w] \in 1..newest'
             /\ pc'[w] = "archive" => <<latest'[w], digest'[w]>> \in named'
             /\ pc'[w] \in Unpacked =>
                  <<binary'[w].version, binary'[w].build>> \in named'
  <2>1. CASE w = u
    <3>1. CASE pc'[u] = "done"
      BY <2>1, <3>1 DEF Unpacked
    <3>2. CASE /\ pc'[u] = "write"
               /\ binary'[u] = [version |-> latest[u], build |-> digest[u]]
      <4>1. binary'[u].version = latest[u] /\ binary'[u].build = digest[u]
        BY <3>2
      <4>2. <<latest[u], digest[u]>> \in named /\ named' = named
        BY <1>3 DEF NamedInv, Archive, server
      <4> QED BY <2>1, <3>2, <4>1, <4>2
    <3> QED BY <1>2, <3>1, <3>2
  <2>2. CASE w # u
    BY <1>1, <2>2 DEF NamedInv, Archive, Unpacked, server
  <2> QED BY <2>1, <2>2
<1> QED BY <1>4 DEF NamedInv, InstalledIsNamed, Archive, server, machine

\* The binary that is installed was named when it was unpacked.
LEMMA RenameKeepsNamed ==
  ASSUME TypeOK, NamedInv, NEW u \in Updaters, Rename(u)
  PROVE  NamedInv'
<1>1. \A w \in Updaters : pc'[w] = pc[w] \/ pc'[w] = "done"
  BY DEF Rename, TypeOK, Return, Goto
<1>2. pc[u] = "rename" /\ target[u].place \in Places
  BY DEF Rename, TypeOK, Targets
<1>3. InstalledIsNamed'
  <2>1. CASE UNCHANGED files
    BY <2>1 DEF NamedInv, InstalledIsNamed, Rename, server
  <2>2. CASE Put(target[u].place, binary[u])
    <3>1. \A p \in Places : \/ files'[p].binary = binary[u]
                            \/ files'[p].binary = files[p].binary
      BY <1>2, <2>2, PutBinary
    <3> QED BY <1>2, <3>1
        DEF NamedInv, InstalledIsNamed, Rename, server, Unpacked
  <2> QED BY <2>1, <2>2 DEF Rename
<1> QED BY <1>1, <1>2, <1>3 DEF NamedInv, Rename, Unpacked, server, progress

\* What people install by hand is a release or a local build.
LEMMA InstallKeepsNamed ==
  ASSUME TypeOK, NamedInv, NEW p \in Places, InstallByHand(p)
  PROVE  NamedInv'
<1>1. PICK content : /\ Put(p, content)
                     /\ \/ content = Local
                        \/ <<content.version, content.build>> \in named
  <2>1. CASE \E v \in 1..newest : Put(p, [version |-> v, build |-> sums[v]])
    BY <2>1 DEF NamedInv
  <2> QED BY <2>1 DEF InstallByHand
<1>2. \A q \in Places : \/ files'[q].binary = content
                        \/ files'[q].binary = files[q].binary
  BY <1>1, PutBinary
<1> QED BY <1>1, <1>2
    DEF NamedInv, InstalledIsNamed, InstallByHand, Unpacked, server, progress

\* Every step keeps what checksums have named.
LEMMA NamedKept ==
  ASSUME TypeOK, NamedInv, Next
  PROVE  NamedInv'
<1> USE BoundsAssumption
    DEF TypeOK, NamedInv, InstalledIsNamed, Unpacked, Steps, Releases, Builds,
        Running, request, progress, machine, server, vars, Goto, Return, Spend
<1>1. ASSUME NEW u \in Updaters, Start(u) PROVE NamedInv'
  BY <1>1 DEF Start
<1>2. ASSUME NEW u \in Updaters, Resolve(u) PROVE NamedInv'
  BY <1>2 DEF Resolve
<1>3. ASSUME NEW u \in Updaters, Metadata(u) PROVE NamedInv'
  BY <1>3, MetadataKeepsNamed
<1>4. ASSUME NEW u \in Updaters, Checksums(u) PROVE NamedInv'
  BY <1>4 DEF Checksums
<1>5. ASSUME NEW u \in Updaters, Archive(u) PROVE NamedInv'
  BY <1>5, ArchiveKeepsNamed
<1>6. ASSUME NEW u \in Updaters, WriteTemporary(u) PROVE NamedInv'
  BY <1>6 DEF WriteTemporary
<1>7. ASSUME NEW u \in Updaters, CheckTarget(u) PROVE NamedInv'
  BY <1>7 DEF CheckTarget
<1>8. ASSUME NEW u \in Updaters, Rename(u) PROVE NamedInv'
  BY <1>8, RenameKeepsNamed
<1>9. ASSUME NEW u \in Updaters, Crash(u) PROVE NamedInv'
  BY <1>9 DEF Crash
<1>10. ASSUME NEW p \in Places, InstallByHand(p) PROVE NamedInv'
  BY <1>10, InstallKeepsNamed
<1>11. ASSUME NEW p \in Places, Relink(p) PROVE NamedInv'
  BY <1>11 DEF Relink
<1>12. ASSUME Publish PROVE NamedInv'
  BY <1>12 DEF Publish
<1>13. ASSUME NEW v \in 1..newest, UploadArchive(v) PROVE NamedInv'
  BY <1>13 DEF UploadArchive
<1>14. ASSUME NEW v \in 1..newest, UploadSums(v) PROVE NamedInv'
  BY <1>14 DEF UploadSums
<1> QED
  BY <1>1, <1>2, <1>3, <1>4, <1>5, <1>6, <1>7,
     <1>8, <1>9, <1>10, <1>11, <1>12, <1>13, <1>14
  DEF Next, Update, Outside

\* The binary unpacked is of the release that was chosen.
LEMMA ArchiveKeepsTracks ==
  ASSUME TypeOK, TracksInv, NEW u \in Updaters, Archive(u), NEW w \in Updaters
  PROVE  Tracks(w)'
<1>1. w # u => pc'[w] = pc[w] /\ binary'[w] = binary[w]
  BY DEF Archive, TypeOK, Return, Goto
<1>2. \/ pc'[u] = "done"
      \/ /\ pc'[u] = "write"
         /\ binary'[u] = [version |-> latest[u], build |-> digest[u]]
  BY DEF Archive, TypeOK, Return, Goto
<1>3. pc[u] = "archive"
  BY DEF Archive
<1> QED BY <1>1, <1>2, <1>3
    DEF TracksInv, Tracks, Archive, Unpacked, Steps, request, machine

\* A new file somewhere is noted for those who cannot notice it; what the others
\* know stays true.
LEMMA PutKeepsTracks ==
  ASSUME TypeOK, NEW w \in Updaters, Tracks(w),
         NEW place \in Places, NEW content, Put(place, content),
         UNCHANGED <<request, progress, link>>, pc'[w] = pc[w],
         moved[w] \/ pc[w] \in {"resolve", "rename"} => moved'[w]
  PROVE  Tracks(w)'
<1>1. pc[w] \in Steps => ranFrom[w].inode \in Nat /\ ranFrom[w].inode <= inodes
  BY DEF TypeOK, Tracks, Targets
<1>2. /\ inodes \in Nat /\ inodes' = inodes + 1
      /\ \A p \in Places : files'[p] =
                   IF p = place
                   THEN [inode |-> inodes + 1, binary |-> content]
                   ELSE files[p]
  BY PutFile
<1>3. pc[w] \in Steps =>
       /\ ranFrom[w].inode <= inodes'
       /\ \A p \in Places : files'[p].inode = ranFrom[w].inode =>
                              files'[p].binary.version = current[w]
  BY <1>1, <1>2 DEF Tracks
<1> QED BY <1>3 DEF Tracks, Unpacked, Steps, request, progress

\* An update that replaces a file is noted for the others.
LEMMA RenameKeepsTracks ==
  ASSUME TypeOK, TracksInv, NEW u \in Updaters, Rename(u), NEW w \in Updaters
  PROVE  Tracks(w)'
<1>1. pc'[u] = "done" /\ pc[u] = "rename" /\ (w # u => pc'[w] = pc[w])
  BY DEF Rename, TypeOK, Return, Goto
<1>2. CASE w = u
  BY <1>1, <1>2 DEF Tracks, Steps, Unpacked
<1>3. CASE w # u /\ UNCHANGED <<files, inodes, moved>>
  BY <1>1, <1>3
      DEF TracksInv, Tracks, Steps, Unpacked, Rename, request, progress
<1>4. CASE w # u /\ Put(target[u].place, binary[u]) /\ Noticed(u)
  <2>1. moved'[w] = (moved[w] \/ pc[w] \in {"resolve", "rename"})
    BY <1>4, Zenon DEF Noticed, Unaware
  <2> QED BY <1>1, <1>4, <2>1, PutKeepsTracks
      DEF TracksInv, Rename, TypeOK, Targets
<1> QED BY <1>2, <1>3, <1>4 DEF Rename

\* A person who installs a file is noted for everyone.
LEMMA InstallKeepsTracks ==
  ASSUME TypeOK, TracksInv, NEW p \in Places, InstallByHand(p),
         NEW w \in Updaters
  PROVE  Tracks(w)'
<1>1. moved'[w] = (moved[w] \/ pc[w] \in {"resolve", "rename"})
  BY Zenon DEF InstallByHand, Everyone, Unaware
<1>2. PICK content : Put(p, content)
  BY DEF InstallByHand
<1> QED BY <1>1, <1>2, PutKeepsTracks DEF TracksInv, InstallByHand

\* Every step keeps the executables of the others, or is noted in moved.
LEMMA TracksKept ==
  ASSUME TypeOK, TracksInv, Next
  PROVE  TracksInv'
<1> SUFFICES ASSUME NEW w \in Updaters PROVE Tracks(w)'
  BY DEF TracksInv
<1> USE DEF TypeOK, TracksInv, Tracks, Unpacked, Steps, Releases, Builds, Targets,
        Running, request, progress, machine, server, vars, Goto, Return, Spend
<1>1. ASSUME NEW u \in Updaters, Start(u) PROVE Tracks(w)'
  BY <1>1 DEF Start
<1>2. ASSUME NEW u \in Updaters, Resolve(u) PROVE Tracks(w)'
  BY <1>2 DEF Resolve, Resolves
<1>3. ASSUME NEW u \in Updaters, Metadata(u) PROVE Tracks(w)'
  BY <1>3 DEF Metadata
<1>4. ASSUME NEW u \in Updaters, Checksums(u) PROVE Tracks(w)'
  BY <1>4 DEF Checksums
<1>5. ASSUME NEW u \in Updaters, Archive(u) PROVE Tracks(w)'
  BY <1>5, ArchiveKeepsTracks
<1>6. ASSUME NEW u \in Updaters, WriteTemporary(u) PROVE Tracks(w)'
  BY <1>6 DEF WriteTemporary
<1>7. ASSUME NEW u \in Updaters, CheckTarget(u) PROVE Tracks(w)'
  BY <1>7 DEF CheckTarget, SamePath, SameInode
<1>8. ASSUME NEW u \in Updaters, Rename(u) PROVE Tracks(w)'
  BY <1>8, RenameKeepsTracks
<1>9. ASSUME NEW u \in Updaters, Crash(u) PROVE Tracks(w)'
  BY <1>9 DEF Crash
<1>10. ASSUME NEW p \in Places, InstallByHand(p) PROVE Tracks(w)'
  BY <1>10, InstallKeepsTracks
<1>11. ASSUME NEW p \in Places, Relink(p) PROVE Tracks(w)'
  BY <1>11 DEF Relink, Everyone, Unaware
<1>12. ASSUME Publish PROVE Tracks(w)'
  BY <1>12 DEF Publish
<1>13. ASSUME NEW v \in 1..newest, UploadArchive(v) PROVE Tracks(w)'
  BY <1>13 DEF UploadArchive
<1>14. ASSUME NEW v \in 1..newest, UploadSums(v) PROVE Tracks(w)'
  BY <1>14 DEF UploadSums
<1> QED
  BY <1>1, <1>2, <1>3, <1>4, <1>5, <1>6, <1>7,
     <1>8, <1>9, <1>10, <1>11, <1>12, <1>13, <1>14
  DEF Next, Update, Outside

\* The initial states satisfy the invariant.
LEMMA InitInv == Init => Inv
<1> SUFFICES ASSUME Init PROVE Inv
  OBVIOUS
<1>1. TypeOK
  <2>1. Cardinality(Places) \in Nat
    BY PlacesAssumption, FS_CardinalityType
  <2>2. files \in [Places -> [inode : 1..inodes, binary : Binaries]]
    BY BoundsAssumption DEF Init, Local, Binaries, Releases
  <2> QED BY <2>1, <2>2, BoundsAssumption
      DEF Init, TypeOK, Targets, NoBinary, Binaries, Releases, Builds, Steps
<1>2. NamedInv
  <2>1. newest \in 1..newest
    BY DEF Init, Releases
  <2>2. \A v \in 1..newest : <<v, sums[v]>> \in named
    <3>1. newest \in Nat /\ newest <= MaxVersion
      BY BoundsAssumption DEF Init, Releases
    <3> QED BY <3>1, BoundsAssumption DEF Init, Releases
  <2>3. InstalledIsNamed
    <3>1. \A p \in Places : \/ files[p].binary = Local
                            \/ files[p].binary = [version |-> 1, build |-> 1]
      BY DEF Init
    <3>2. <<1, 1>> \in named
      BY <2>1 DEF Init, Releases
    <3> QED BY <3>1, <3>2 DEF InstalledIsNamed
  <2> QED BY <2>2, <2>3 DEF Init, NamedInv, Unpacked
<1>3. TracksInv
  BY DEF Init, TracksInv, Tracks, Unpacked, Steps
<1> QED BY <1>1, <1>2, <1>3 DEF Inv

\* Every step keeps it.
LEMMA NextKeepsInv == Inv /\ [Next]_vars => Inv'
<1> SUFFICES ASSUME Inv, [Next]_vars PROVE Inv'
  OBVIOUS
<1>1. CASE Next
  BY <1>1, TypesKept, NamedKept, TracksKept DEF Inv
<1>2. CASE UNCHANGED vars
  BY <1>2 DEF Inv, TypeOK, NamedInv, InstalledIsNamed, TracksInv, Tracks,
              vars, request, progress, machine, server
<1> QED BY <1>1, <1>2

\* The invariant holds in every reachable state.
THEOREM UpdaterInvariant == Spec => []Inv
<1> QED BY InitInv, NextKeepsInv, PTL DEF Spec

\* Every variable keeps its type, and no two places share an inode.
THEOREM UpdaterTypes == Spec => []TypeOK
<1>1. Inv => TypeOK
  BY DEF Inv
<1> QED BY <1>1, UpdaterInvariant, PTL

\* Every installed binary is whole and was named by its release's checksums,
\* whatever is uploaded between the two downloads (Update, checksumFor).
THEOREM OnlyNamedIsInstalled == Spec => []InstalledIsNamed
<1>1. Inv => InstalledIsNamed
  BY DEF Inv, NamedInv
<1> QED BY <1>1, UpdaterInvariant, PTL

\* An update replaces an older release that is in use and not Homebrew's,
\* unless something moved in one of the two windows (replace, os.SameFile).
THEOREM OnlyOlderIsReplaced == Spec => ReplacesOlderInUse
<1>1. ASSUME Inv, Next, NEW u \in Updaters, Replaces(u), ~moved[u]
      PROVE  LET old == files[target[u].place].binary
             IN  /\ old.version # 0
                 /\ old.version < binary[u].version
                 /\ target[u].place \notin Homebrew
                 /\ throughLink[u] => link = target[u].place
  <2>1. pc[u] = "rename"
    BY <1>1 DEF Replaces
  <2>2. /\ target[u].place \in Places
        /\ files[target[u].place].inode = ranFrom[u].inode
    BY <1>1, <2>1 DEF Inv, TypeOK, Targets, TracksInv, Tracks, Steps
  <2>3. files[target[u].place].binary.version = current[u]
    BY <1>1, <2>1, <2>2 DEF Inv, TracksInv, Tracks, Steps
  <2> QED BY <1>1, <2>1, <2>3 DEF Inv, TracksInv, Tracks, Unpacked, Steps
<1>2. Inv /\ [Next]_vars =>
        [\A u \in Updaters : Replaces(u) =>
           \/ moved[u]
           \/ LET old == files[target[u].place].binary IN
                /\ old.version # 0
                /\ old.version < binary[u].version
                /\ target[u].place \notin Homebrew
                /\ throughLink[u] => link = target[u].place]_vars
  BY <1>1
<1> QED BY <1>2, UpdaterInvariant, PTL DEF Spec, ReplacesOlderInUse

=============================================================================
