-------------------------- MODULE Repository_proofs --------------------------
(* Machine-checked proofs about SourceProjection and ProjectGraph, for any
   processes, paths, contents, commits and versions, and any number of
   changes, checkouts and faults. *)
EXTENDS SourceProjection, ProjectGraph, TLAPS

(* The projection: its invariant. *)

Lists == [active : SUBSET Records, snapshot : Snapshots \union {None}, files : Files,
          retired : SUBSET Records]
Disks == [active : SUBSET Records, snapshot : Snapshots \union {None},
          files : Files \union {Missing}]
Refreshes == [at : {"open", "locked", "scanned", "records", "inventory"}, version : Version,
          head : Commit \union {None}, mem : Lists]
Writing == {"records", "inventory"}
Locked == {"locked", "scanned"} \union Writing

\* Types; no inventory comes before its snapshot, and who is past the lock owns it and has
\* resolved HEAD.
Types ==
    /\ head \in Commit \ gone /\ gone \subseteq Commit
    /\ disk \in Disks /\ (disk.snapshot = None => disk.files = Missing)
    /\ lock \in Process \union {None}
    /\ call \in [Process -> {Idle} \union Refreshes]
    /\ \A p \in Process :
           /\ (lock = p) = (call[p].at \in Locked)
           /\ call[p].at \in Locked => call[p].head \in Commit
    /\ torn \in Snapshots \union {None, Lost}

IndexOf(c) == [p \in Path |-> Indexed(c, p)]
Single(active) == \A r, q \in active : r.path = q.path => r = q

\* Records and inventory of one commit, made by one indexer.
IsTrue(active, files, s) ==
    /\ \A r \in active :
           /\ r.version = s.version
           /\ r.hash = IF r.path = Overview THEN s.commit ELSE Indexed(s.commit, r.path)
    /\ Covers(active, s)
    /\ files = IndexOf(s.commit)

\* A scan that follows the difference of two commits leaves the paths that are the same
\* in both alone.
Follows(t, s) == t # None /\ t.version = s.version /\ t.commit \notin gone
Same(t, s, p) == Indexed(s.commit, p) # None /\ Indexed(t.commit, p) = Indexed(s.commit, p)

\* A refresh to s makes the files true, whatever an earlier one to s has left undone: it
\* comes by every path that has a record, and what it leaves alone is right.
Repairable(s) ==
    LET t == Load(disk).snapshot IN
    /\ t # None => disk.files = IndexOf(t.commit)
    /\ \A r \in disk.active : \/ r.path = Overview
                              \/ Indexed(s.commit, r.path) # None
                              \/ t # None /\ Indexed(t.commit, r.path) # None
    /\ Follows(t, s) => \A p \in Path : Same(t, s, p) =>
           /\ \E r \in disk.active : r.path = p
           /\ \A r \in disk.active : r.path = p =>
                  r.hash = Indexed(s.commit, p) /\ r.version = s.version

\* While nobody writes, the files are true, or the refresh that was interrupted repairs them.
NobodyWrites == \A p \in Process : call[p].at \notin Writing
DiskIsTrue ==
    /\ disk.snapshot # None /\ disk.files # Missing
    /\ IsTrue(disk.active, disk.files, disk.snapshot)
Settled ==
    NobodyWrites =>
        /\ torn = None => disk = Empty \/ DiskIsTrue
        /\ torn \in Snapshots => Repairable(torn)

\* A refresh that was scanned is true, and its files can be replaced one by one.
Expects(s) == torn \in {None, s}
Refreshed(p) ==
    LET m == call[p].mem
        s == m.snapshot
        t == Load(disk).snapshot IN
    /\ call[p].at = "locked" => m = Load(disk)
    /\ call[p].at \in {"scanned"} \union Writing =>
           /\ s \in Snapshots /\ Single(m.active)
           /\ Expects(s) => IsTrue(m.active, m.files, s)
    /\ call[p].at \in {"scanned", "records"} =>
           /\ disk.active \subseteq m.active \union m.retired
           /\ Expects(s) => Repairable(s)
           /\ Expects(s) /\ Follows(t, s) =>
                  \A r \in m.retired : r.path \in Path => ~ Same(t, s, r.path)
    /\ call[p].at = "inventory" => disk.active = m.active /\ disk.snapshot = s

IInv == Types /\ Single(disk.active) /\ Settled /\ \A p \in Process : Refreshed(p)

-----------------------------------------------------------------------------
(* Contents, records and calls. *)

\* What is indexed is a content, and no mark.
LEMMA IndexTypes ==
  ASSUME NEW c \in Commit
  PROVE  /\ \A p \in Path : Indexed(c, p) \in Content \union {None}
         /\ IndexOf(c) \in Files /\ IndexOf(c) # Missing
         /\ Tracked(c) \subseteq Path
<1>1. \A p \in Path : Indexed(c, p) \in Content \union {None}
  BY SourceAssumption, RepositoryAssumption DEF Indexed
<1>2. IndexOf(c) \in Files
  BY <1>1 DEF IndexOf, Files
<1> QED
  BY <1>1, <1>2, MarkAssumption DEF Tracked

\* What is loaded.
LEMMA LoadTypes ==
  ASSUME Types
  PROVE  /\ Load(disk) \in Lists /\ Load(disk).active = disk.active
         /\ Load(disk).snapshot # None =>
                disk.files # Missing /\ Load(disk).snapshot = disk.snapshot
                /\ Load(disk).files = disk.files
         /\ Load(disk).snapshot = None => disk.files = Missing /\ Load(disk).files = NoFiles
         /\ disk.files = Missing => Load(disk).snapshot = None
<1>1. /\ disk.active \subseteq Records /\ disk.snapshot \in Snapshots \union {None}
      /\ disk.files \in Files \union {Missing} /\ NoFiles \in Files
      /\ disk.snapshot = None => disk.files = Missing
  BY DEF Types, Disks, NoFiles, Files
<1>2. Load(disk) \in Lists
  BY <1>1 DEF Load, Lists
<1>3. Load(disk).active = disk.active
  BY DEF Load
<1>4. CASE disk.files = Missing
  BY <1>2, <1>3, <1>4 DEF Load
<1>5. CASE disk.files # Missing
  <2>1. Load(disk).snapshot = disk.snapshot /\ Load(disk).files = disk.files
    BY <1>5 DEF Load
  <2> QED
    BY <1>1, <1>2, <1>3, <1>5, <2>1
<1> QED
  BY <1>4, <1>5

\* A call that is no longer idle is a record of a call; what changes in it.
LEMMA CallTypes ==
  ASSUME Types, NEW p \in Process, call[p].at # "idle"
  PROVE  call[p] \in Refreshes /\ call[p] # Idle
BY DEF Types, Idle

\* A call that is set is that of its process.
LEMMA SetCall ==
  ASSUME Types, NEW p \in Process, NEW c \in {Idle} \union Refreshes, Set(p, c)
  PROVE  /\ call' \in [Process -> {Idle} \union Refreshes] /\ call'[p] = c
         /\ \A q \in Process \ {p} : call'[q] = call[q]
BY DEF Types, Set

\* Two do not hold the lock.
LEMMA OneHolder ==
  ASSUME Types, NEW p \in Process, NEW q \in Process, call[p].at \in Locked, call[q].at \in Locked
  PROVE  p = q
BY DEF Types

-----------------------------------------------------------------------------
(* The scan. *)

\* What a scan drops and changes, of the paths it comes by, and what it leaves alone.
Dropped(mem, h, rebuild) == {p \in PathsOf(mem, h, rebuild) : Indexed(h, p) = None}
Changed(mem, h, rebuild) ==
    {p \in PathsOf(mem, h, rebuild) \ Dropped(mem, h, rebuild) :
        rebuild \/ mem.files[p] # Indexed(h, p)}
Kept(mem, h, rebuild) ==
    {r \in mem.active :
        r.path \notin (Changed(mem, h, rebuild) \union {Overview}) \union Dropped(mem, h, rebuild)}

\* The paths that a scan leaves alone are as they were; those it changes are not.
LEMMA ScanPaths ==
  ASSUME NEW mem \in Lists, NEW h \in Commit, NEW v \in Version,
         mem.snapshot = None => mem.files = NoFiles,
         mem.snapshot # None => mem.files = IndexOf(mem.snapshot.commit),
         NEW rebuild, rebuild = Rebuild(mem, v)
  PROVE  LET s == [commit |-> h, version |-> v]
             t == mem.snapshot
             dropped == Dropped(mem, h, rebuild)
             changed == Changed(mem, h, rebuild) IN
         /\ dropped \subseteq Path /\ changed \subseteq Path
         /\ \A p \in dropped : Indexed(h, p) = None
         /\ \A p \in changed : Indexed(h, p) # None
         /\ \A p \in Path \ (dropped \union changed) :
                /\ t = None => Indexed(h, p) = None
                /\ t # None => Indexed(h, p) = Indexed(t.commit, p)
                /\ ~ Follows(t, s) => Indexed(h, p) = None
         /\ Follows(t, s) => \A p \in dropped \union changed : ~ Same(t, s, p)
<1> DEFINE s == [commit |-> h, version |-> v]
           t == mem.snapshot
           dropped == Dropped(mem, h, rebuild)
           changed == Changed(mem, h, rebuild)
<1>1. PathsOf(mem, h, rebuild) \subseteq Path
  BY DEF PathsOf, Tracked, Inventoried
<1>2. /\ dropped \subseteq Path /\ changed \subseteq Path
      /\ \A p \in dropped : Indexed(h, p) = None
      /\ \A p \in changed : Indexed(h, p) # None
  BY <1>1 DEF Dropped, Changed
<1>3. \A p \in Path : Indexed(h, p) # None => p \in Tracked(h)
  BY DEF Indexed, Tracked
<1>4. CASE t = None
  <2>1. PathsOf(mem, h, rebuild) = Tracked(h) /\ \A p \in Path : mem.files[p] = None
    BY <1>4 DEF PathsOf, NoFiles
  <2>2. \A p \in Path \ (dropped \union changed) : Indexed(h, p) = None
    BY <1>3, <2>1 DEF Dropped, Changed
  <2>3. ~ Follows(t, s)
    BY <1>4 DEF Follows
  <2> QED
    BY <1>2, <1>4, <2>2, <2>3
<1>5. CASE t # None /\ rebuild
  <2>1. PathsOf(mem, h, rebuild) = Tracked(h) \union Inventoried(mem.files)
    BY <1>5 DEF PathsOf
  <2>2. \A p \in Path : Indexed(t.commit, p) # None => p \in Inventoried(mem.files)
    BY <1>5 DEF IndexOf, Inventoried
  <2>3. \A p \in Path \ (dropped \union changed) : Indexed(h, p) = None /\ Indexed(t.commit, p) = None
    BY <1>3, <1>5, <2>1, <2>2 DEF Dropped, Changed
  <2>4. ~ Follows(t, s)
    BY <1>5 DEF Follows, Rebuild
  <2> QED
    BY <1>2, <1>5, <2>3, <2>4
<1>6. CASE t # None /\ ~ rebuild
  <2>1. PathsOf(mem, h, rebuild) = {p \in Path : Tree[t.commit][p] # Tree[h][p]}
    BY <1>6 DEF PathsOf
  <2>2. \A p \in Path : p \notin PathsOf(mem, h, rebuild) => Indexed(h, p) = Indexed(t.commit, p)
    BY <2>1 DEF Indexed
  <2>3. \A p \in Path : mem.files[p] = Indexed(t.commit, p)
    BY <1>6 DEF IndexOf
  <2>4. \A p \in Path \ (dropped \union changed) : Indexed(h, p) = Indexed(t.commit, p)
    BY <1>6, <2>2, <2>3 DEF Dropped, Changed
  <2>5. \A p \in dropped \union changed : ~ Same(t, s, p)
    BY <1>1, <1>6, <2>3 DEF Dropped, Changed, Same
  <2>6. Follows(t, s)
    BY <1>6 DEF Follows, Rebuild
  <2> QED
    BY <1>2, <1>6, <2>4, <2>5, <2>6
<1>7. rebuild \in BOOLEAN
  BY DEF Rebuild
<1> QED
  BY <1>4, <1>5, <1>6, <1>7

\* The records that a scan keeps, the new ones, and the inventory.
LEMMA ScanRecords ==
  ASSUME NEW mem \in Lists, NEW h \in Commit, NEW v \in Version, NEW rebuild \in BOOLEAN,
         Dropped(mem, h, rebuild) \subseteq Path, Changed(mem, h, rebuild) \subseteq Path,
         \A p \in Changed(mem, h, rebuild) : Indexed(h, p) # None
  PROVE  LET m == Scanned(mem, h, v, rebuild)
             dropped == Dropped(mem, h, rebuild)
             new == Changed(mem, h, rebuild) \union {Overview}
             kept == Kept(mem, h, rebuild) IN
         /\ m \in Lists /\ m.snapshot = [commit |-> h, version |-> v]
         /\ m.retired = mem.active \ kept /\ kept \subseteq m.active
         /\ m.files = Inventory(mem.files, h, dropped, Changed(mem, h, rebuild))
         /\ \A r \in m.active : r \notin kept =>
                /\ r.path \in new /\ r.version = v
                /\ r.hash = IF r.path = Overview THEN h ELSE Indexed(h, r.path)
         /\ \A p \in new : \E r \in m.active :
                /\ r.path = p /\ r.version = v
                /\ r.hash = IF p = Overview THEN h ELSE Indexed(h, p)
         /\ Single(mem.active) => Single(m.active)
<1> DEFINE m == Scanned(mem, h, v, rebuild)
           dropped == Dropped(mem, h, rebuild)
           changed == Changed(mem, h, rebuild)
           new == changed \union {Overview}
           id == [p \in new |-> IF \E r \in mem.active : r.path = p /\ r.id = 0 THEN 1 ELSE 0]
           made(p) == [id |-> id[p], path |-> p, version |-> v,
                       hash |-> IF p = Overview THEN h ELSE Indexed(h, p)]
           kept == Kept(mem, h, rebuild)
<1>1. m = [active |-> kept \union {made(p) : p \in new}, retired |-> mem.active \ kept,
           snapshot |-> [commit |-> h, version |-> v],
           files |-> Inventory(mem.files, h, dropped, changed)]
  BY Zenon DEF Scanned, Dropped, Changed, Kept
<1>2. /\ mem.active \subseteq Records /\ mem.files \in Files /\ dropped \subseteq Path
      /\ changed \subseteq Path /\ Overview \notin Path
      /\ \A p \in Path : Indexed(h, p) \in Content \union {None}
      /\ \A p \in changed : Indexed(h, p) # None
  BY SourceAssumption, RepositoryAssumption, IndexTypes DEF Lists
<1>3. \A p \in new : made(p) \in Records
  <2>1. \A p \in new : id[p] \in {0, 1}
    OBVIOUS
  <2>2. \A p \in new : (IF p = Overview THEN h ELSE Indexed(h, p)) \in Content \union Commit
    BY <1>2
  <2> HIDE DEF id
  <2> QED
    BY <1>2, <2>1, <2>2 DEF Records, Ids
<1>4. Inventory(mem.files, h, dropped, changed) \in Files
  BY <1>2 DEF Inventory, Files
<1>5. kept \subseteq mem.active
  BY DEF Kept
<1> HIDE DEF id, kept, dropped, changed, m
<1>6. m \in Lists
  <2>1. [commit |-> h, version |-> v] \in Snapshots
    BY DEF Snapshots
  <2>2. {made(p) : p \in new} \subseteq Records
    BY <1>3
  <2> HIDE DEF made
  <2> QED
    BY <1>1, <1>2, <1>4, <1>5, <2>1, <2>2 DEF Lists
<1>7. \A r \in m.active : r \in kept \/ \E p \in new : r = made(p)
  BY <1>1
<1>8. \A p \in new : made(p) \in m.active
  BY <1>1
<1>9. \A p \in new : /\ made(p).path = p /\ made(p).version = v
                     /\ made(p).hash = IF p = Overview THEN h ELSE Indexed(h, p)
  OBVIOUS
<1>10. Single(mem.active) => Single(m.active)
  <2>1. \A r \in kept : r \in mem.active /\ r.path \notin new
    BY DEF kept, Kept, new, changed, dropped
  <2> HIDE DEF made
  <2> QED
    BY <1>7, <1>9, <2>1 DEF Single
<1>11. /\ m.retired = mem.active \ kept /\ kept \subseteq m.active
       /\ m.snapshot = [commit |-> h, version |-> v]
       /\ m.files = Inventory(mem.files, h, dropped, changed)
  BY <1>1
<1> HIDE DEF made
<1>13. \A r \in m.active : r \notin kept =>
          /\ r.path \in new /\ r.version = v
          /\ r.hash = IF r.path = Overview THEN h ELSE Indexed(h, r.path)
  BY <1>7, <1>9
<1>14. \A p \in new : \E r \in m.active :
          /\ r.path = p /\ r.version = v
          /\ r.hash = IF p = Overview THEN h ELSE Indexed(h, p)
  BY <1>8, <1>9
<1> QED
  BY <1>6, <1>10, <1>11, <1>13, <1>14, Zenon DEF m, kept, dropped, changed, new

\* Files that are settled can be brought to any commit, and those a refresh was interrupted
\* in to that of the refresh.
LEMMA SettledRepairs ==
  ASSUME Types, Settled, NobodyWrites, NEW s \in Snapshots, Expects(s)
  PROVE  Repairable(s)
<1> DEFINE t == Load(disk).snapshot
<1>1. CASE torn = s
  BY <1>1 DEF Settled
<1>2. CASE disk = Empty
  BY <1>2 DEF Empty, Load, Repairable, Follows
<1>3. CASE DiskIsTrue
  <2>1. t = disk.snapshot /\ t \in Snapshots /\ t.commit \in Commit
    BY <1>3, LoadTypes DEF DiskIsTrue, Types, Disks, Snapshots
  <2>2. /\ disk.files = IndexOf(t.commit)
        /\ \A r \in disk.active :
              /\ r.version = t.version
              /\ r.path # Overview => r.hash = Indexed(t.commit, r.path)
        /\ \A p \in Path : Indexed(t.commit, p) # None =>
              \E r \in disk.active : r.path = p /\ r.hash = Indexed(t.commit, p)
    BY <1>3, <2>1 DEF DiskIsTrue, IsTrue, Covers
  <2>3. \A r \in disk.active : r.hash # None
    BY SourceAssumption, RepositoryAssumption, MarkAssumption DEF Types, Disks, Records
  <2>4. \A p \in Path : p # Overview
    BY SourceAssumption, RepositoryAssumption
  <2>5. \A r \in disk.active : r.path = Overview \/ Indexed(t.commit, r.path) # None
    BY <2>2, <2>3
  <2>6. t # None
    BY <2>1, MarkAssumption
  <2>7. Follows(t, s) => \A p \in Path : Same(t, s, p) =>
           /\ \E r \in disk.active : r.path = p
           /\ \A r \in disk.active : r.path = p =>
                  r.hash = Indexed(s.commit, p) /\ r.version = s.version
    BY <2>2, <2>4 DEF Follows, Same
  <2> QED
    BY <2>2, <2>5, <2>6, <2>7 DEF Repairable
<1> QED
  BY <1>1, <1>2, <1>3 DEF Expects, Settled

\* A scan of files that it can repair is true.
LEMMA ScanIsTrue ==
  ASSUME Types, NEW h \in Commit, NEW v \in Version, NEW s, s = [commit |-> h, version |-> v],
         NEW mem, mem = Load(disk), Repairable(s),
         NEW rebuild, rebuild = Rebuild(mem, v)
  PROVE  LET m == Scanned(mem, h, v, rebuild) IN IsTrue(m.active, m.files, s)
<1> DEFINE t == mem.snapshot
           m == Scanned(mem, h, v, rebuild)
           dropped == Dropped(mem, h, rebuild)
           changed == Changed(mem, h, rebuild)
           new == changed \union {Overview}
           kept == Kept(mem, h, rebuild)
<1>1. /\ mem \in Lists /\ mem.active = disk.active /\ rebuild \in BOOLEAN
      /\ t = None => mem.files = NoFiles
      /\ t # None => mem.files = IndexOf(t.commit)
  BY LoadTypes DEF Repairable, Rebuild
<1>2. /\ dropped \subseteq Path /\ changed \subseteq Path
      /\ \A p \in dropped : Indexed(h, p) = None
      /\ \A p \in changed : Indexed(h, p) # None
      /\ \A p \in Path \ (dropped \union changed) :
             /\ t = None => Indexed(h, p) = None
             /\ t # None => Indexed(h, p) = Indexed(t.commit, p)
             /\ ~ Follows(t, s) => Indexed(h, p) = None
  BY <1>1, ScanPaths
<1>3. /\ kept \subseteq m.active
      /\ m.files = Inventory(mem.files, h, dropped, changed)
      /\ \A r \in m.active : r \notin kept =>
            /\ r.path \in new /\ r.version = v
            /\ r.hash = IF r.path = Overview THEN h ELSE Indexed(h, r.path)
      /\ \A p \in new : \E r \in m.active :
            /\ r.path = p /\ r.version = v
            /\ r.hash = IF p = Overview THEN h ELSE Indexed(h, p)
  <2>1. /\ mem \in Lists /\ rebuild \in BOOLEAN
        /\ Dropped(mem, h, rebuild) \subseteq Path /\ Changed(mem, h, rebuild) \subseteq Path
        /\ \A p \in Changed(mem, h, rebuild) : Indexed(h, p) # None
    BY <1>1, <1>2
  <2> QED
    BY <2>1, ScanRecords
<1>4. \A p \in Path : p # Overview
  BY SourceAssumption, RepositoryAssumption
<1>5. /\ \A r \in mem.active : \/ r.path = Overview
                               \/ Indexed(h, r.path) # None
                               \/ t # None /\ Indexed(t.commit, r.path) # None
      /\ Follows(t, s) => \A p \in Path : Same(t, s, p) =>
            /\ \E r \in mem.active : r.path = p
            /\ \A r \in mem.active : r.path = p => r.hash = Indexed(h, p) /\ r.version = v
  BY <1>1 DEF Repairable
<1>6. mem.active \subseteq Records /\ \A r \in mem.active : r.path \in Path \union {Overview}
  BY <1>1 DEF Lists, Records
<1> HIDE DEF m, dropped, changed, new
<1>7. new = changed \union {Overview}
  BY DEF new
<1>8. ASSUME NEW p \in Path \ (dropped \union changed), Indexed(h, p) # None
      PROVE  Follows(t, s) /\ Same(t, s, p)
  <2>1. Follows(t, s)
    BY <1>2, <1>8
  <2>2. t # None
    BY <2>1 DEF Follows
  <2> QED
    BY <1>2, <1>8, <2>1, <2>2 DEF Same
<1>9. ASSUME NEW r \in kept
      PROVE  /\ r \in mem.active /\ r.path \in Path \ (dropped \union changed)
             /\ r.hash = Indexed(h, r.path) /\ r.version = v /\ r.path # Overview
  <2>1. r \in mem.active /\ r.path \in Path \ (dropped \union changed) /\ r.path # Overview
    BY <1>6, <1>7, <1>9 DEF Kept, dropped, changed
  <2>2. Indexed(h, r.path) # None
    BY <1>2, <1>5, <2>1
  <2>3. Follows(t, s) /\ Same(t, s, r.path)
    BY <1>8, <2>1, <2>2
  <2> QED
    BY <1>5, <2>1, <2>3
<1>10. \A r \in m.active : /\ r.version = s.version
                           /\ r.hash = IF r.path = Overview THEN s.commit
                                       ELSE Indexed(s.commit, r.path)
  <2> HIDE DEF kept
  <2> QED
    BY <1>3, <1>9
<1>11. ASSUME NEW p \in Path, Indexed(h, p) # None
       PROVE  \E r \in m.active : r.path = p /\ r.hash = Indexed(h, p)
  <2>1. CASE p \in changed
    BY <1>3, <1>4, <1>7, <2>1
  <2>2. CASE p \notin changed
    <3>1. p \in Path \ (dropped \union changed)
      BY <1>2, <1>11, <2>2
    <3>2. \E r \in mem.active : r.path = p /\ r.hash = Indexed(h, p)
      BY <1>5, <1>8, <1>11, <3>1
    <3>3. p \notin new \union dropped
      BY <1>4, <1>7, <3>1
    <3> QED
      BY <1>3, <3>2, <3>3 DEF Kept, dropped, changed, new
  <2> QED
    BY <2>1, <2>2
<1>12. m.files = IndexOf(h)
  <2>1. m.files = Inventory(mem.files, h, dropped, changed)
    BY <1>3
  <2>2. \A p \in Path \ (dropped \union changed) : mem.files[p] = Indexed(h, p)
    BY <1>1, <1>2 DEF NoFiles, IndexOf
  <2> QED
    BY <1>2, <2>1, <2>2 DEF Inventory, IndexOf
<1>13. Covers(m.active, s)
  BY <1>11 DEF Covers
<1> QED
  BY <1>10, <1>12, <1>13 DEF IsTrue, m

-----------------------------------------------------------------------------
(* Steps that leave the files alone. *)

\* A process without the lock has found nothing.
LEMMA NothingFound ==
  ASSUME NEW p \in Process, call[p].at \notin Locked
  PROVE  Refreshed(p)
BY DEF Refreshed, Locked, Writing

\* What can be repaired can be after more commits have gone.
LEMMA StaysRepairable ==
  ASSUME UNCHANGED disk, gone \subseteq gone', NEW s, Repairable(s)
  PROVE  Repairable(s)'
BY DEF Repairable, Follows, Same, Load, NoFiles, IndexOf, Indexed

\* What another process has found stays as it is.
LEMMA SameRefreshed ==
  ASSUME NEW p \in Process, call'[p] = call[p], UNCHANGED <<disk, torn>>, gone \subseteq gone',
         Refreshed(p)
  PROVE  Refreshed(p)'
<1> DEFINE s == call[p].mem.snapshot
<1>1. Repairable(s) => Repairable(s)'
  BY StaysRepairable
<1>2. Load(disk)' = Load(disk) /\ Expects(s)' = Expects(s)
  BY DEF Load, NoFiles, Expects
<1>3. \A t : Follows(t, s)' => Follows(t, s)
  BY DEF Follows
<1>4. \A a, b, c : Same(a, b, c)' = Same(a, b, c)
  BY DEF Same, Indexed
<1>5. \A a, f : /\ IsTrue(a, f, s)' = IsTrue(a, f, s)
                /\ Single(a)' = Single(a)
  BY DEF IsTrue, Covers, IndexOf, Indexed, Single
<1> QED
  BY <1>1, <1>2, <1>3, <1>4, <1>5 DEF Refreshed

\* A step that does not write leaves the files settled.
LEMMA FilesStay ==
  ASSUME IInv, UNCHANGED <<disk, torn>>, gone \subseteq gone', Types',
         NobodyWrites' => NobodyWrites, \A p \in Process : Refreshed(p)'
  PROVE  IInv'
<1>1. Single(disk.active)'
  BY DEF IInv, Single
<1>2. Settled'
  <2>1. DiskIsTrue => DiskIsTrue'
    BY DEF DiskIsTrue, IsTrue, Covers, IndexOf, Indexed
  <2>2. Repairable(torn) => Repairable(torn)'
    BY DEF Repairable, Follows, Same, Load, NoFiles, IndexOf, Indexed
  <2> QED
    BY <2>1, <2>2 DEF IInv, Settled, Empty
<1> QED
  BY <1>1, <1>2 DEF IInv

\* A process that is not writing goes on, or takes or gives back the lock.
LEMMA CallMoves ==
  ASSUME IInv, NEW p \in Process, NEW c \in {Idle} \union Refreshes, Set(p, c),
         UNCHANGED <<head, gone, disk, torn>>, call[p].at \notin Writing,
         lock' = IF c.at \in Locked THEN p ELSE IF lock = p THEN None ELSE lock,
         c.at \in Locked => lock \in {None, p} /\ c.head \in Commit,
         Refreshed(p)'
  PROVE  IInv'
<1>1. /\ call' \in [Process -> {Idle} \union Refreshes] /\ call'[p] = c
      /\ \A q \in Process \ {p} : call'[q] = call[q]
  BY SetCall DEF IInv
<1>2. None \notin Process
  BY RepositoryAssumption
<1>3. \A q \in Process : (lock' = q) = (call'[q].at \in Locked)
  <2>1. \A q \in Process : (lock = q) = (call[q].at \in Locked)
    BY DEF IInv, Types
  <2>2. (lock' = p) = (c.at \in Locked)
    BY <1>2
  <2>3. ASSUME NEW q \in Process \ {p} PROVE (lock' = q) = (call[q].at \in Locked)
    BY <1>2, <2>1
  <2> QED
    BY <1>1, <2>2, <2>3
<1>4. \A q \in Process : call'[q].at \in Locked => call'[q].head \in Commit
  BY <1>1 DEF IInv, Types
<1>5. Types'
  BY <1>1, <1>3, <1>4 DEF IInv, Types
<1>6. NobodyWrites' => NobodyWrites
  BY <1>1 DEF NobodyWrites
<1>7. \A q \in Process : Refreshed(q)'
  BY <1>1, SameRefreshed DEF IInv
<1> QED
  BY <1>5, <1>6, <1>7, FilesStay

\* A repository is opened.
LEMMA OpenInv == ASSUME IInv, NEW p \in Process, NEW v \in Version, Open(p, v) PROVE IInv'
<1> DEFINE c == [at |-> "open", version |-> v, head |-> None, mem |-> Load(disk)]
<1>1. /\ c \in Refreshes /\ c.at \notin Locked /\ Set(p, c) /\ call[p].at = "idle" /\ lock = None
      /\ UNCHANGED <<head, gone, disk, torn, lock>>
  BY LoadTypes DEF Open, IInv, Refreshes, Locked, Writing, Idle
<1>2. call'[p] = c
  BY <1>1, SetCall DEF IInv
<1>3. Refreshed(p)'
  BY <1>1, <1>2 DEF Refreshed, Locked, Writing
<1>4. lock # p
  BY <1>1, RepositoryAssumption
<1> HIDE DEF c
<1> QED
  BY <1>1, <1>3, <1>4, CallMoves DEF Writing

\* The lock is taken, the files are read again, and HEAD is resolved.
LEMMA LockInv == ASSUME IInv, NEW p \in Process, Lock(p) PROVE IInv'
<1> DEFINE c == [call[p] EXCEPT !.at = "locked", !.head = head, !.mem = Load(disk)]
<1>1. /\ call[p].at = "open" /\ Set(p, c) /\ lock = None /\ lock' = p
      /\ UNCHANGED <<head, gone, disk, torn>>
  BY DEF Lock, At
<1>2. call[p] \in Refreshes
  BY <1>1, CallTypes DEF IInv
<1>3. c \in Refreshes /\ c.at = "locked" /\ c.head = head /\ c.mem = Load(disk) /\ head \in Commit
  BY <1>2, LoadTypes DEF IInv, Types, Refreshes
<1> HIDE DEF c
<1>4. call'[p] = c
  BY <1>1, <1>3, SetCall DEF IInv
<1>5. Refreshed(p)'
  <2>1. Load(disk)' = Load(disk)
    BY <1>1 DEF Load, NoFiles
  <2> QED
    BY <1>3, <1>4, <2>1 DEF Refreshed, Writing
<1> QED
  BY <1>1, <1>3, <1>5, CallMoves DEF Writing, Locked

\* A process gives up, or has nothing to do.
LEMMA IdleInv ==
  ASSUME IInv, NEW p \in Process, call[p].at \notin Writing, Set(p, Idle),
         lock' = IF lock = p THEN None ELSE lock, UNCHANGED <<head, gone, disk, torn>>
  PROVE  IInv'
<1>1. call'[p] = Idle /\ Idle.at \notin Locked
  BY SetCall DEF IInv, Idle, Locked, Writing
<1>2. Refreshed(p)'
  BY <1>1 DEF Refreshed, Locked, Writing
<1> QED
  BY <1>1, <1>2, CallMoves

\* Nothing has changed since the last refresh.
LEMMA ReuseInv == ASSUME IInv, NEW p \in Process, Reuse(p) PROVE IInv'
<1>1. call[p].at = "locked" /\ lock = p
  BY DEF Reuse, At, IInv, Types, Locked
<1> QED
  BY <1>1, IdleInv DEF Reuse, Done, Writing

\* A refresh fails before it writes.
LEMMA FailInv == ASSUME IInv, NEW p \in Process, Fail(p) PROVE IInv'
BY IdleInv DEF Fail, Writing

\* What a process has found, of files that have stayed as they are.
LEMMA WhatIsFound ==
  ASSUME NEW p \in Process, NEW m, NEW s, call'[p].mem = m, m.snapshot = s,
         call'[p].at \in {"scanned", "records"}, UNCHANGED <<disk, torn>>, gone \subseteq gone',
         s \in Snapshots, Single(m.active), disk.active \subseteq m.active \union m.retired,
         Expects(s) => IsTrue(m.active, m.files, s) /\ Repairable(s),
         Expects(s) /\ Follows(Load(disk).snapshot, s) =>
             \A r \in m.retired : r.path \in Path => ~ Same(Load(disk).snapshot, s, r.path)
  PROVE  Refreshed(p)'
<1>1. Repairable(s) => Repairable(s)'
  BY StaysRepairable
<1>2. Load(disk)' = Load(disk) /\ Expects(s)' = Expects(s)
  BY DEF Load, NoFiles, Expects
<1>3. \A t : Follows(t, s)' => Follows(t, s)
  BY DEF Follows
<1>4. \A a, b, c : Same(a, b, c)' = Same(a, b, c)
  BY DEF Same, Indexed
<1>5. IsTrue(m.active, m.files, s)' = IsTrue(m.active, m.files, s) /\ Single(m.active)' = Single(m.active)
  BY DEF IsTrue, Covers, IndexOf, Indexed, Single
<1> QED
  BY <1>1, <1>2, <1>3, <1>4, <1>5 DEF Refreshed

\* The scan.
LEMMA ScanInv == ASSUME IInv, NEW p \in Process, Scan(p) PROVE IInv'
<1> DEFINE mem == call[p].mem
           h == call[p].head
           v == call[p].version
           rebuild == Rebuild(mem, v)
           m == Scanned(mem, h, v, rebuild)
           s == [commit |-> h, version |-> v]
           c == [call[p] EXCEPT !.at = "scanned", !.mem = m]
           t == Load(disk).snapshot
<1>1. /\ call[p].at = "locked" /\ Set(p, c) /\ UNCHANGED <<head, gone, disk, lock, torn>>
  BY DEF Scan, At
<1>2. /\ call[p] \in Refreshes /\ lock = p /\ h \in Commit /\ v \in Version /\ mem = Load(disk)
      /\ rebuild \in BOOLEAN
  BY <1>1, CallTypes DEF IInv, Types, Refreshed, Refreshes, Locked, Rebuild
<1>3. Types /\ Settled /\ Single(disk.active) /\ mem \in Lists /\ mem.active = disk.active
  BY <1>2, LoadTypes DEF IInv
<1>4. NobodyWrites
  BY <1>1, <1>3, OneHolder DEF NobodyWrites, Locked, Writing
<1>5. s \in Snapshots /\ s.commit = h /\ s.version = v
  BY <1>2 DEF Snapshots
<1>6. Expects(s) => Repairable(s)
  BY <1>3, <1>4, <1>5, SettledRepairs
<1>7. Expects(s) => IsTrue(m.active, m.files, s)
  BY <1>2, <1>3, <1>6, ScanIsTrue
<1>8. /\ Dropped(mem, h, rebuild) \subseteq Path /\ Changed(mem, h, rebuild) \subseteq Path
      /\ \A q \in Changed(mem, h, rebuild) : Indexed(h, q) # None
  BY DEF Dropped, Changed, PathsOf, Tracked, Inventoried
<1>9. /\ m \in Lists /\ m.snapshot = s /\ Single(m.active)
      /\ m.retired = mem.active \ Kept(mem, h, rebuild)
      /\ Kept(mem, h, rebuild) \subseteq m.active
  BY <1>2, <1>3, <1>8, ScanRecords
<1>10. disk.active \subseteq m.active \union m.retired
  BY <1>3, <1>9
<1>11. ASSUME Expects(s), Follows(t, s), NEW r \in m.retired, r.path \in Path
       PROVE  ~ Same(t, s, r.path)
  <2>1. /\ mem.snapshot = None => mem.files = NoFiles
        /\ mem.snapshot # None => mem.files = IndexOf(mem.snapshot.commit)
    BY <1>2, <1>3, <1>6, <1>11, LoadTypes DEF Repairable
  <2>2. t = mem.snapshot
    BY <1>2
  <2>3. \A q \in Dropped(mem, h, rebuild) \union Changed(mem, h, rebuild) : ~ Same(t, s, q)
    <3>1. Follows(mem.snapshot, s)
      BY <1>11, <2>2
    <3>2. \A q \in Dropped(mem, h, rebuild) \union Changed(mem, h, rebuild) :
             ~ Same(mem.snapshot, s, q)
      BY <1>2, <1>3, <2>1, <3>1, ScanPaths
    <3> QED
      BY <2>2, <3>2
  <2>4. r.path # Overview
    BY <1>11, SourceAssumption, RepositoryAssumption
  <2>5. r.path \in Dropped(mem, h, rebuild) \union Changed(mem, h, rebuild)
    BY <1>9, <1>11, <2>4 DEF Kept
  <2> QED
    BY <2>3, <2>5
<1>12. /\ c \in Refreshes /\ c.at = "scanned" /\ c.head = h /\ c.mem = m
  BY <1>2, <1>9 DEF Refreshes
<1>13. call'[p] = c
  BY <1>1, <1>3, <1>12, SetCall
<1> HIDE DEF c, m, rebuild, mem, h, v, s
<1>14. Refreshed(p)'
  <2>1. call'[p].at \in {"scanned", "records"} /\ call'[p].mem = m
    BY <1>12, <1>13
  <2> QED
    BY <1>1, <1>5, <1>6, <1>7, <1>9, <1>10, <1>11, <2>1, WhatIsFound
<1> QED
  BY <1>1, <1>2, <1>12, <1>14, CallMoves DEF Writing, Locked

\* HEAD is still what it was.
LEMMA CheckInv == ASSUME IInv, NEW p \in Process, Check(p) PROVE IInv'
<1> DEFINE c == [call[p] EXCEPT !.at = "records"]
           m == call[p].mem
<1>1. /\ call[p].at = "scanned" /\ Set(p, c) /\ UNCHANGED <<head, gone, disk, lock, torn>>
  BY DEF Check, At
<1>2. call[p] \in Refreshes /\ lock = p /\ call[p].head \in Commit
  BY <1>1, CallTypes DEF IInv, Types, Locked
<1>3. c \in Refreshes /\ c.at = "records" /\ c.head = call[p].head /\ c.mem = m
  BY <1>2 DEF Refreshes
<1> HIDE DEF c
<1>4. call'[p] = c
  BY <1>1, <1>3, SetCall DEF IInv
<1>5. Refreshed(p)'
  <2>1. /\ m.snapshot \in Snapshots /\ Single(m.active)
        /\ disk.active \subseteq m.active \union m.retired
        /\ Expects(m.snapshot) => IsTrue(m.active, m.files, m.snapshot) /\ Repairable(m.snapshot)
        /\ Expects(m.snapshot) /\ Follows(Load(disk).snapshot, m.snapshot) =>
               \A r \in m.retired : r.path \in Path =>
                   ~ Same(Load(disk).snapshot, m.snapshot, r.path)
    BY <1>1 DEF IInv, Refreshed
  <2>2. call'[p].at \in {"scanned", "records"} /\ call'[p].mem = m
    BY <1>3, <1>4
  <2> HIDE DEF m
  <2> QED
    BY <1>1, <2>1, <2>2, WhatIsFound
<1> QED
  BY <1>1, <1>2, <1>3, <1>5, CallMoves DEF Writing, Locked

\* Another commit is checked out.
LEMMA CheckoutInv == ASSUME IInv, NEW c \in Commit, Checkout(c) PROVE IInv'
<1>1. /\ c \notin gone /\ head' = c /\ UNCHANGED <<gone, disk, lock, call, torn>>
  BY DEF Checkout
<1>2. Types'
  BY <1>1 DEF IInv, Types
<1>3. \A p \in Process : Refreshed(p)'
  BY <1>1, SameRefreshed DEF IInv
<1>4. NobodyWrites' => NobodyWrites
  BY <1>1 DEF NobodyWrites
<1> QED
  BY <1>1, <1>2, <1>3, <1>4, FilesStay

\* A commit is collected.
LEMMA CollectInv == ASSUME IInv, NEW c \in Commit, Collect(c) PROVE IInv'
<1>1. /\ c # head /\ gone' = gone \union {c} /\ UNCHANGED <<head, disk, lock, call, torn>>
  BY DEF Collect
<1>2. Types'
  BY <1>1 DEF IInv, Types
<1>3. \A p \in Process : Refreshed(p)'
  BY <1>1, SameRefreshed DEF IInv
<1>4. NobodyWrites' => NobodyWrites
  BY <1>1 DEF NobodyWrites
<1> QED
  BY <1>1, <1>2, <1>3, <1>4, FilesStay

-----------------------------------------------------------------------------
(* Steps that write the files. *)

\* Only the owner of the lock has found anything.
LEMMA OthersFoundNothing ==
  ASSUME IInv, NEW p \in Process, call[p].at \in Locked,
         \A q \in Process \ {p} : call'[q] = call[q]
  PROVE  \A q \in Process \ {p} : Refreshed(q)'
<1>1. \A q \in Process \ {p} : call'[q].at \notin Locked
  BY OneHolder DEF IInv
<1> QED
  BY <1>1 DEF Refreshed, Locked, Writing

\* A record that is true is of a path that is indexed.
LEMMA TrueRecord ==
  ASSUME NEW active \in SUBSET Records, NEW files, NEW s, IsTrue(active, files, s), NEW r \in active
  PROVE  /\ r.path = Overview \/ Indexed(s.commit, r.path) # None
         /\ r.path \in Path => r.hash = Indexed(s.commit, r.path) /\ r.version = s.version
<1>1. r.hash # None
  BY SourceAssumption, RepositoryAssumption, MarkAssumption DEF Records
<1>2. r.path \in Path => r.path # Overview
  BY SourceAssumption, RepositoryAssumption
<1> QED
  BY <1>1, <1>2 DEF IsTrue

\* A record is retired or added; nothing is left that is not expected.
LEMMA RecordWritten ==
  ASSUME IInv, NEW p \in Process, WriteRecord(p)
  PROVE  LET m == call[p].mem IN
         /\ call[p].at = "records" /\ UNCHANGED <<head, gone, lock, call, torn>>
         /\ disk' \in Disks /\ disk'.snapshot = disk.snapshot /\ disk'.files = disk.files
         /\ \/ \E r \in m.retired : disk'.active = disk.active \ {r}
            \/ /\ disk.active \subseteq m.active
               /\ \E r \in m.active : disk'.active = disk.active \union {r}
<1> DEFINE m == call[p].mem
<1>1. /\ call[p].at = "records" /\ UNCHANGED <<head, gone, lock, call, torn>>
  BY DEF WriteRecord, At
<1>2. call[p] \in Refreshes /\ m \in Lists /\ m.active \subseteq Records /\ disk \in Disks
      /\ disk.active \subseteq m.active \union m.retired
  BY <1>1, CallTypes DEF IInv, Types, Refreshes, Lists, Refreshed
<1>3. ASSUME NEW a \in SUBSET Records, disk' = [disk EXCEPT !.active = a]
      PROVE  disk' \in Disks /\ disk'.snapshot = disk.snapshot /\ disk'.files = disk.files
             /\ disk'.active = a
  BY <1>2, <1>3 DEF Disks
<1>4. disk.active \subseteq Records
  BY <1>2 DEF Disks
<1>5. Retiring(p) = {} => disk.active \subseteq m.active /\ Unlinking(p) = {}
  BY <1>2 DEF Retiring, Unlinking
<1>6. CASE \E r \in Retiring(p) : disk' = [disk EXCEPT !.active = @ \ {r}]
  <2>1. PICK r \in Retiring(p) : disk' = [disk EXCEPT !.active = disk.active \ {r}]
    BY <1>6
  <2>2. disk.active \ {r} \in SUBSET Records /\ r \in m.retired
    BY <1>4, <2>1 DEF Retiring
  <2> QED
    BY <1>1, <1>3, <2>1, <2>2
<1>7. CASE /\ Retiring(p) = {}
           /\ \E r \in Adding(p) : disk' = [disk EXCEPT !.active = @ \union {r}]
  <2>1. PICK r \in Adding(p) : disk' = [disk EXCEPT !.active = disk.active \union {r}]
    BY <1>7
  <2>2. disk.active \union {r} \in SUBSET Records /\ r \in m.active
    BY <1>2, <1>4, <2>1 DEF Adding
  <2> QED
    BY <1>1, <1>3, <1>5, <1>7, <2>1, <2>2
<1> QED
  BY <1>5, <1>6, <1>7 DEF WriteRecord

\* A step of the commit of the records.
LEMMA WriteRecordInv == ASSUME IInv, NEW p \in Process, WriteRecord(p) PROVE IInv'
<1> DEFINE m == call[p].mem
           s == m.snapshot
           t == Load(disk).snapshot
<1>1. /\ call[p].at = "records" /\ UNCHANGED <<head, gone, lock, call, torn>>
      /\ disk' \in Disks /\ disk'.snapshot = disk.snapshot /\ disk'.files = disk.files
      /\ \/ \E r \in m.retired : disk'.active = disk.active \ {r}
         \/ /\ disk.active \subseteq m.active
            /\ \E r \in m.active : disk'.active = disk.active \union {r}
  BY RecordWritten
<1>2. /\ s \in Snapshots /\ Single(m.active) /\ m.active \in SUBSET Records
      /\ Expects(s) => IsTrue(m.active, m.files, s) /\ Repairable(s)
      /\ disk.active \subseteq m.active \union m.retired
      /\ Expects(s) /\ Follows(t, s) => \A r \in m.retired : r.path \in Path => ~ Same(t, s, r.path)
  <2>1. call[p] \in Refreshes /\ m.active \in SUBSET Records
    BY <1>1, CallTypes DEF IInv, Refreshes, Lists
  <2>2. Refreshed(p)
    BY DEF IInv
  <2> QED
    BY <1>1, <2>1, <2>2 DEF Refreshed, Writing
<1>3. Types'
  BY <1>1 DEF IInv, Types
<1>4. Single(disk'.active) /\ disk'.active \subseteq m.active \union m.retired
  BY <1>1, <1>2 DEF IInv, Single
<1>5. Load(disk').snapshot = t
  BY <1>1 DEF Load
<1>6. ASSUME Expects(s) PROVE Repairable(s)'
  <2>1. IsTrue(m.active, m.files, s) /\ Repairable(s)
    BY <1>2, <1>6
  <2>2. \A r \in m.active : /\ r.path = Overview \/ Indexed(s.commit, r.path) # None
                            /\ r.path \in Path =>
                                   r.hash = Indexed(s.commit, r.path) /\ r.version = s.version
    BY <1>2, <2>1, TrueRecord
  <2>3. t # None => disk'.files = IndexOf(t.commit)
    BY <1>1, <2>1 DEF Repairable
  <2>4. \A r \in disk'.active : r \in disk.active \/ r \in m.active
    BY <1>1
  <2>5. \A r \in disk'.active : \/ r.path = Overview
                                \/ Indexed(s.commit, r.path) # None
                                \/ t # None /\ Indexed(t.commit, r.path) # None
    BY <2>1, <2>2, <2>4 DEF Repairable
  <2>6. ASSUME Follows(t, s), NEW q \in Path, Same(t, s, q)
        PROVE  /\ \E r \in disk'.active : r.path = q
               /\ \A r \in disk'.active : r.path = q =>
                      r.hash = Indexed(s.commit, q) /\ r.version = s.version
    <3>1. /\ \E r \in disk.active : r.path = q
          /\ \A r \in disk.active : r.path = q =>
                 r.hash = Indexed(s.commit, q) /\ r.version = s.version
      BY <2>1, <2>6 DEF Repairable
    <3>2. \A r \in m.retired : r.path # q
      BY <1>2, <1>6, <2>6
    <3> QED
      BY <1>1, <2>2, <2>4, <3>1, <3>2
  <2> HIDE DEF s, t
  <2> QED
    BY <1>1, <1>5, <2>3, <2>5, <2>6 DEF Repairable, Follows, Same, Indexed, IndexOf, s, m
<1>7. Refreshed(p)'
  <2>1. /\ call' = call /\ torn' = torn /\ gone' = gone
        /\ Load(disk)' = Load(disk') /\ disk.active \subseteq m.active \union m.retired
    BY <1>1, <1>2 DEF Load, NoFiles
  <2>2. Expects(s)' = Expects(s) /\ IsTrue(m.active, m.files, s)' = IsTrue(m.active, m.files, s)
        /\ Single(m.active)' = Single(m.active) /\ Follows(t, s)' = Follows(t, s)
        /\ \A q : Same(t, s, q)' = Same(t, s, q)
    BY <1>1, <1>5, <2>1 DEF Expects, IsTrue, Covers, IndexOf, Indexed, Single, Follows, Same
  <2> QED
    BY <1>1, <1>2, <1>4, <1>5, <1>6, <2>1, <2>2 DEF Refreshed, Writing
<1>8. \A q \in Process \ {p} : Refreshed(q)'
  BY <1>1, OthersFoundNothing DEF Locked, Writing
<1>9. Settled'
  BY <1>1 DEF Settled, NobodyWrites, Writing
<1> QED
  BY <1>3, <1>4, <1>7, <1>8, <1>9 DEF IInv, Single

\* The records are there; the snapshot follows.
LEMMA WriteSnapshotInv == ASSUME IInv, NEW p \in Process, WriteSnapshot(p) PROVE IInv'
<1> DEFINE m == call[p].mem
           s == m.snapshot
           c == [call[p] EXCEPT !.at = "inventory"]
<1>1. /\ call[p].at = "records" /\ disk.active = m.active
      /\ disk' = [disk EXCEPT !.snapshot = s] /\ Set(p, c)
      /\ UNCHANGED <<head, gone, lock, torn>>
  BY DEF WriteSnapshot, At
<1>2. /\ s \in Snapshots /\ Single(m.active) /\ call[p] \in Refreshes
      /\ Expects(s) => IsTrue(m.active, m.files, s)
  BY <1>1, CallTypes DEF IInv, Refreshed, Writing
<1>3. disk' \in Disks /\ disk'.active = m.active /\ disk'.snapshot = s
  BY <1>1, <1>2 DEF IInv, Types, Disks
<1>4. c \in Refreshes /\ c.at = "inventory" /\ c.head = call[p].head /\ c.mem = m
  BY <1>2 DEF Refreshes
<1> HIDE DEF c
<1>5. /\ call' \in [Process -> {Idle} \union Refreshes] /\ call'[p] = c
      /\ \A q \in Process \ {p} : call'[q] = call[q]
  BY <1>1, <1>4, SetCall DEF IInv
<1>6. \A q \in Process : /\ call'[q].head = call[q].head
                         /\ (call'[q].at \in Locked) = (call[q].at \in Locked)
  BY <1>1, <1>4, <1>5 DEF Locked, Writing
<1>7. Types'
  BY <1>1, <1>2, <1>3, <1>5, <1>6, MarkAssumption DEF IInv, Types
<1>8. Refreshed(p)'
  <2>1. call'[p].at = "inventory" /\ call'[p].mem = m
    BY <1>4, <1>5
  <2>2. \A a, f, x : /\ Expects(x)' = Expects(x) /\ IsTrue(a, f, x)' = IsTrue(a, f, x)
                     /\ Single(a)' = Single(a)
    BY <1>1 DEF Expects, IsTrue, Covers, IndexOf, Indexed, Single
  <2> QED
    BY <1>2, <1>3, <2>1, <2>2 DEF Refreshed, Writing
<1>9. \A q \in Process \ {p} : Refreshed(q)'
  BY <1>1, <1>5, OthersFoundNothing DEF Locked, Writing
<1>10. Settled'
  BY <1>4, <1>5 DEF Settled, NobodyWrites, Writing
<1>11. Single(disk.active)'
  BY <1>2, <1>3 DEF Single
<1> QED
  BY <1>7, <1>8, <1>9, <1>10, <1>11 DEF IInv

\* The process of a commit gives back the lock.
LEMMA WriterGone ==
  ASSUME IInv, NEW p \in Process, call[p].at \in Writing, Done(p), UNCHANGED <<head, gone>>,
         (disk \in Disks /\ (disk.snapshot = None => disk.files = Missing))',
         torn' \in Snapshots \union {None, Lost}, Single(disk.active)',
         Settled'
  PROVE  IInv'
<1>1. /\ call' \in [Process -> {Idle} \union Refreshes] /\ call'[p] = Idle /\ lock' = None
      /\ \A q \in Process \ {p} : call'[q] = call[q]
  BY SetCall DEF IInv, Done
<1>2. call[p].at \in Locked /\ Idle.at \notin Locked /\ None \notin Process
  BY MarkAssumption, RepositoryAssumption DEF Locked, Idle, Writing
<1>3. \A q \in Process : call'[q].at \notin Locked
  BY <1>1, <1>2, OneHolder DEF IInv
<1>4. \A q \in Process : Refreshed(q)'
  BY <1>3 DEF Refreshed, Locked, Writing
<1>5. Types'
  BY <1>1, <1>2, <1>3 DEF IInv, Types
<1> QED
  BY <1>4, <1>5 DEF IInv

\* The inventory follows the snapshot, and the refresh is complete.
LEMMA WriteInventoryInv == ASSUME IInv, NEW p \in Process, WriteInventory(p) PROVE IInv'
<1> DEFINE m == call[p].mem
           s == m.snapshot
<1>1. /\ call[p].at = "inventory" /\ disk' = [disk EXCEPT !.files = m.files]
      /\ torn' = IF torn \in {None, s} THEN None ELSE Lost
      /\ Done(p) /\ UNCHANGED <<head, gone>>
  BY DEF WriteInventory, At
<1>2. /\ s \in Snapshots /\ disk.active = m.active /\ disk.snapshot = s /\ m.files \in Files
      /\ Expects(s) => IsTrue(m.active, m.files, s)
  BY <1>1, CallTypes DEF IInv, Refreshed, Writing, Refreshes, Lists
<1>3. /\ disk' \in Disks /\ disk'.active = m.active /\ disk'.snapshot = s /\ disk'.files = m.files
      /\ s # None /\ m.files # Missing
  BY <1>1, <1>2, MarkAssumption DEF IInv, Types, Disks
<1>4. Single(disk.active)'
  BY <1>2, <1>3 DEF IInv, Single
<1>5. Settled'
  <2>1. torn' \notin Snapshots
    BY <1>1, MarkAssumption
  <2>2. ASSUME torn' = None PROVE IsTrue(m.active, m.files, s)
    <3>1. Lost # None
      BY MarkAssumption
    <3> QED
      BY <1>1, <1>2, <2>2, <3>1 DEF Expects
  <2>3. torn' = None => DiskIsTrue'
    <3>1. \A a, f, x : IsTrue(a, f, x)' = IsTrue(a, f, x)
      BY DEF IsTrue, Covers, IndexOf, Indexed
    <3> QED
      BY <1>3, <2>2, <3>1 DEF DiskIsTrue
  <2> QED
    BY <2>1, <2>3 DEF Settled
<1> QED
  BY <1>1, <1>3, <1>4, <1>5, WriterGone DEF Writing

\* The commit is interrupted; the same refresh would repair it.
LEMMA InterruptInv == ASSUME IInv, NEW p \in Process, Interrupt(p) PROVE IInv'
<1> DEFINE m == call[p].mem
           s == m.snapshot
<1>1. /\ call[p].at \in Writing /\ Done(p) /\ UNCHANGED <<head, gone, disk>>
      /\ torn' = IF \/ torn \notin {None, s}
                    \/ call[p].at = "inventory" /\ disk.files # Missing THEN Lost ELSE s
  BY DEF Interrupt, At, Writing
<1>2. /\ s \in Snapshots
      /\ Expects(s) => IsTrue(m.active, m.files, s)
      /\ call[p].at = "records" /\ Expects(s) => Repairable(s)
      /\ call[p].at = "inventory" => disk.active = m.active
      /\ m.active \in SUBSET Records
  BY <1>1, CallTypes DEF IInv, Refreshed, Writing, Refreshes, Lists
<1>3. torn' # None /\ (torn' \in Snapshots => torn' = s /\ Expects(s)
          /\ (call[p].at = "inventory" => disk.files = Missing))
  BY <1>1, <1>2, MarkAssumption DEF Expects
<1>4. ASSUME Expects(s), call[p].at = "inventory", disk.files = Missing PROVE Repairable(s)
  <2>1. \A r \in disk.active : r.path = Overview \/ Indexed(s.commit, r.path) # None
    BY <1>2, <1>4, TrueRecord
  <2>2. Load(disk).snapshot = None
    BY <1>4 DEF Load
  <2> QED
    BY <2>1, <2>2 DEF Repairable, Follows
<1>5. torn' \in Snapshots => Repairable(torn')
  BY <1>1, <1>2, <1>3, <1>4 DEF Writing
<1>6. Settled'
  <2>1. \A x : Repairable(x) => Repairable(x)'
    BY <1>1, StaysRepairable
  <2> QED
    BY <1>3, <1>5, <2>1 DEF Settled
<1>7. /\ (disk \in Disks /\ (disk.snapshot = None => disk.files = Missing))'
      /\ Single(disk.active)' /\ torn' \in Snapshots \union {None, Lost}
  BY <1>1, <1>2 DEF IInv, Types, Single
<1> QED
  BY <1>1, <1>6, <1>7, WriterGone

\* The cache is deleted.
LEMMA DeleteCacheInv == ASSUME IInv, DeleteCache PROVE IInv'
<1>1. lock = None /\ disk' = Empty /\ torn' = None /\ UNCHANGED <<head, gone, lock, call>>
  BY DEF DeleteCache
<1>2. \A p \in Process : call[p].at \notin Locked
  BY <1>1, MarkAssumption, RepositoryAssumption DEF IInv, Types
<1>3. \A p \in Process : Refreshed(p)'
  BY <1>1, <1>2 DEF Refreshed, Locked, Writing
<1>4. Empty \in Disks /\ Empty.snapshot = None /\ Empty.files = Missing /\ Single(Empty.active)
  BY DEF Empty, Disks, Single
<1>5. Types'
  BY <1>1, <1>4 DEF IInv, Types
<1>6. Settled'
  BY <1>1, MarkAssumption DEF Settled, Empty
<1> QED
  BY <1>1, <1>3, <1>4, <1>5, <1>6 DEF IInv, Single

\* The inventory is lost; a refresh to the commit of the snapshot brings it back.
LEMMA DeleteInventoryInv == ASSUME IInv, DeleteInventory PROVE IInv'
<1> DEFINE s == disk.snapshot
<1>1. /\ lock = None /\ disk.files # Missing /\ disk' = [disk EXCEPT !.files = Missing]
      /\ torn' = IF torn \in {None, s} THEN s ELSE Lost
      /\ UNCHANGED <<head, gone, lock, call>>
  BY DEF DeleteInventory
<1>2. \A p \in Process : call[p].at \notin Locked
  BY <1>1, MarkAssumption, RepositoryAssumption DEF IInv, Types
<1>3. \A p \in Process : Refreshed(p)'
  BY <1>1, <1>2 DEF Refreshed, Locked, Writing
<1>4. s \in Snapshots /\ disk \in Disks /\ s # None
  BY <1>1, MarkAssumption DEF IInv, Types, Disks
<1>5. /\ disk' \in Disks /\ disk'.active = disk.active /\ disk'.snapshot = s
      /\ disk'.files = Missing
  BY <1>1, <1>4 DEF Disks
<1>6. Types'
  BY <1>1, <1>4, <1>5 DEF IInv, Types
<1>7. NobodyWrites
  BY <1>2 DEF NobodyWrites, Locked
<1>8. ASSUME torn \in {None, s}, NEW r \in disk.active
      PROVE  r.path = Overview \/ Indexed(s.commit, r.path) # None
  <2>1. CASE torn = None
    <3>1. disk # Empty
      BY <1>1 DEF Empty
    <3>2. IsTrue(disk.active, disk.files, s)
      BY <1>7, <2>1, <3>1 DEF IInv, Settled, DiskIsTrue
    <3>3. disk.active \in SUBSET Records
      BY <1>4 DEF Disks
    <3> QED
      BY <1>8, <3>2, <3>3, TrueRecord
  <2>2. CASE torn = s
    <3>1. Repairable(s)
      BY <1>4, <1>7, <2>2 DEF IInv, Settled
    <3>2. Load(disk).snapshot = s
      BY <1>1 DEF Load
    <3> QED
      BY <1>8, <3>1, <3>2 DEF Repairable
  <2> QED
    BY <1>8, <2>1, <2>2
<1>9. Settled'
  <2>1. torn' # None
    BY <1>1, <1>4, MarkAssumption
  <2>2. ASSUME torn' \in Snapshots PROVE Repairable(torn)'
    <3>1. torn' = s /\ torn \in {None, s}
      BY <1>1, <2>2, MarkAssumption
    <3>2. Load(disk').snapshot = None
      BY <1>5 DEF Load
    <3>3. \A r \in disk'.active : r.path = Overview \/ Indexed(torn'.commit, r.path) # None
      BY <1>5, <1>8, <3>1
    <3> QED
      BY <3>2, <3>3 DEF Repairable, Follows, Load, NoFiles, Indexed
  <2> QED
    BY <2>1, <2>2 DEF Settled
<1>10. Single(disk.active)'
  BY <1>5 DEF IInv, Single
<1> QED
  BY <1>3, <1>6, <1>9, <1>10 DEF IInv

-----------------------------------------------------------------------------
(* Theorems. *)

\* There is nothing yet.
LEMMA InitInv == Init => IInv
<1> SUFFICES ASSUME Init PROVE IInv
  OBVIOUS
<1>1. /\ head \in Commit /\ gone = {} /\ disk = Empty /\ lock = None /\ torn = None
      /\ call = [p \in Process |-> Idle]
  BY DEF Init
<1>2. \A p \in Process : call[p] = Idle /\ call[p].at \notin Locked /\ p # None
  BY <1>1, MarkAssumption, RepositoryAssumption DEF Idle, Locked, Writing
<1>3. Empty \in Disks /\ Empty.snapshot = None /\ Empty.files = Missing /\ Single(Empty.active)
  BY DEF Empty, Disks, Single
<1>4. Types
  BY <1>1, <1>2, <1>3 DEF Types
<1>5. \A p \in Process : Refreshed(p)
  BY <1>2, NothingFound
<1>6. Settled
  BY <1>1, MarkAssumption DEF Settled
<1> QED
  BY <1>1, <1>3, <1>4, <1>5, <1>6 DEF IInv

\* A step that changes nothing.
LEMMA StutterInv == ASSUME IInv, UNCHANGED vars PROVE IInv'
<1>1. UNCHANGED <<head, gone, disk, lock, call, torn>>
  BY DEF vars
<1>2. Types'
  BY <1>1 DEF IInv, Types
<1>3. \A p \in Process : Refreshed(p)'
  BY <1>1, SameRefreshed DEF IInv
<1>4. NobodyWrites' => NobodyWrites
  BY <1>1 DEF NobodyWrites
<1> QED
  BY <1>1, <1>2, <1>3, <1>4, FilesStay

\* Every step keeps the invariant.
LEMMA NextInv == IInv /\ [Next]_vars => IInv'
<1> SUFFICES ASSUME IInv, [Next]_vars PROVE IInv'
  OBVIOUS
<1>1. ASSUME NEW p \in Process, NEW v \in Version, Open(p, v) PROVE IInv'
  BY <1>1, OpenInv
<1>2. ASSUME NEW p \in Process,
             Lock(p) \/ Reuse(p) \/ Scan(p) \/ Check(p) \/ Fail(p) \/ WriteRecord(p)
             \/ WriteSnapshot(p) \/ WriteInventory(p) \/ Interrupt(p)
      PROVE  IInv'
  BY <1>2, LockInv, ReuseInv, ScanInv, CheckInv, FailInv, WriteRecordInv, WriteSnapshotInv,
     WriteInventoryInv, InterruptInv
<1>3. ASSUME NEW c \in Commit, Checkout(c) \/ Collect(c) PROVE IInv'
  BY <1>3, CheckoutInv, CollectInv
<1>4. CASE DeleteCache \/ DeleteInventory
  BY <1>4, DeleteCacheInv, DeleteInventoryInv
<1>5. CASE UNCHANGED vars
  BY <1>5, StutterInv
<1> QED
  BY <1>1, <1>2, <1>3, <1>4, <1>5 DEF Next

\* Files, locks and what each refresh has found go together in every state.
THEOREM ProjectionInvariant == Spec => []IInv
BY InitInv, NextInv, PTL DEF Spec

\* The files of the projection can be read at any time: a refresh takes away the records it
\* replaces before it adds the new ones (persistence/filesystem/memory_store.py), so that a
\* path never has two.
THEOREM ProjectionIsReadable == Spec => []ProjectionInv
<1>1. IInv => ProjectionInv
  <2> SUFFICES ASSUME IInv PROVE ProjectionInv
    OBVIOUS
  <2>1. TypeOK
    <3>1. ASSUME NEW p \in Process, call[p] # Idle
          PROVE  /\ call[p].version \in Version
                 /\ call[p].head \in Commit \union {None}
                 /\ call[p].mem.active \subseteq Records
                 /\ call[p].mem.retired \subseteq Records
                 /\ call[p].mem.snapshot \in Snapshots \union {None}
                 /\ call[p].mem.files \in Files
      <4>1. call[p] \in Refreshes
        BY <3>1 DEF IInv, Types
      <4> QED
        BY <4>1 DEF Refreshes, Lists
    <3>2. ASSUME NEW p \in Process
          PROVE  call[p].at \in {"idle", "open", "locked", "scanned", "records", "inventory"}
      <4>1. call[p] \in {Idle} \union Refreshes
        BY DEF IInv, Types
      <4> QED
        BY <4>1 DEF Idle, Refreshes
    <3>3. /\ head \in Commit \ gone /\ gone \subseteq Commit
          /\ disk.active \subseteq Records
          /\ disk.snapshot \in Snapshots \union {None}
          /\ disk.files \in Files \union {Missing}
          /\ lock \in Process \union {None}
          /\ \A p \in Process :
                (lock = p) = (call[p].at \in {"locked", "scanned", "records", "inventory"})
          /\ torn \in Snapshots \union {None, Lost}
      BY DEF IInv, Types, Disks, Locked, Writing
    <3> QED
      BY <3>1, <3>2, <3>3 DEF TypeOK
  <2> QED
    BY <2>1 DEF IInv, Single, ProjectionInv, OneRecordPerPath
<1> QED
  BY <1>1, ProjectionInvariant, PTL

\* Records that are true say what the commit has.
LEMMA TrueDescribes ==
  ASSUME NEW active \in SUBSET Records, NEW files, NEW s \in Snapshots, IsTrue(active, files, s)
  PROVE  Describes(active, s)
<1> DEFINE said(r) == [path |-> r.path, hash |-> r.hash, version |-> r.version]
           has(p, v) == [path |-> p, hash |-> Indexed(s.commit, p), version |-> v]
           whole == [path |-> Overview, hash |-> s.commit, version |-> s.version]
<1>1. ASSUME NEW r \in active
      PROVE  said(r) = whole \/ \E p \in Path, v \in Version : said(r) = has(p, v)
  <2>1. /\ r.version = s.version /\ r.version \in Version /\ r.path \in Path \union {Overview}
        /\ r.hash = IF r.path = Overview THEN s.commit ELSE Indexed(s.commit, r.path)
    BY DEF IsTrue, Records
  <2>2. CASE r.path = Overview
    BY <2>1, <2>2
  <2>3. CASE r.path # Overview
    <3>1. said(r) = has(r.path, r.version)
      BY <2>1, <2>3
    <3> QED
      BY <2>1, <2>3, <3>1
  <2> QED
    BY <2>2, <2>3
<1>2. Describes(active, s) <=>
        {said(r) : r \in active} \subseteq {has(p, v) : p \in Path, v \in Version} \union {whole}
  BY DEF Describes
<1> HIDE DEF said, has, whole
<1> QED
  BY <1>1, <1>2

\* A trusted snapshot is right after every sequence of checkouts, failed refreshes, changes
\* of the indexer and losses: the files are true while nobody writes, unless a refresh was
\* interrupted that is still to be repeated (memory/service.py:124).
THEOREM TrustedIsTrue == Spec => []SnapshotIsTrue
<1>1. IInv => SnapshotIsTrue
  <2> SUFFICES ASSUME IInv PROVE SnapshotIsTrue
    OBVIOUS
  <2> DEFINE s == Trusted
  <2>1. CASE s = None
    BY <2>1 DEF SnapshotIsTrue, FreshIsCurrent, OneIndexerVersion, InventoryIsCurrent
  <2>2. CASE s # None
    <3>1. lock = None /\ torn = None /\ s = Load(disk).snapshot
      BY <2>2 DEF Trusted
    <3>2. s = disk.snapshot /\ disk.files # Missing
      BY <2>2, <3>1, LoadTypes DEF IInv
    <3>3. NobodyWrites
      BY <3>1, MarkAssumption, RepositoryAssumption DEF IInv, Types, NobodyWrites, Locked
    <3>4. IsTrue(disk.active, disk.files, s)
      BY <3>1, <3>2, <3>3 DEF IInv, Settled, DiskIsTrue, Empty
    <3>5. disk.active \in SUBSET Records /\ s \in Snapshots
      BY <2>2, <3>2 DEF IInv, Types, Disks
    <3>6. Describes(disk.active, s)
      BY <3>4, <3>5, TrueDescribes
    <3>7. /\ Covers(disk.active, s) /\ disk.files = [p \in Path |-> Indexed(s.commit, p)]
          /\ \A r \in disk.active : r.version = s.version
      BY <3>4 DEF IsTrue, IndexOf
    <3> QED
      BY <3>6, <3>7 DEF SnapshotIsTrue, FreshIsCurrent, OneIndexerVersion, InventoryIsCurrent
  <2> QED
    BY <2>1, <2>2
<1> QED
  BY <1>1, ProjectionInvariant, PTL

-----------------------------------------------------------------------------
(* The graph: its invariant. *)

Pairs == [manifest : Manifests, graph : Files]
Builts == [graph : Files, since : Nat]
Refreshing == {"read", "parse", "manifest", "finish"}
GraphCalls == [at : Refreshing \union {"terms", "index"}, force : BOOLEAN,
               prev : Pairs \union {None}, head : Commit, dirty : SUBSET Path,
               todo : SUBSET Path, hashes : Files, parsed : Files, since : Nat,
               quiet : BOOLEAN]
OtherCalls == {Idle, [at |-> "status"], [at |-> "returned"]}
    \union [at : {"load"}, manifest : Manifests]
    \union [at : {"loaded"}, pair : Pairs \union {None}]
Rebuilding(c) == c.at \in {"status", "terms", "index"} \/ (c.at \in Refreshing /\ c.force)

\* Types; who is in a section of the graph or of the index has its lock.
GraphTypes ==
    /\ work \in Files /\ head \in Commit /\ clock \in 0..MaxChanges
    /\ call \in [Process -> GraphCalls \union OtherCalls]
    /\ graphLock \in Process \union {None} /\ indexLock \in Process \union {None}
    /\ \A p \in Process : /\ (graphLock = p) = (call[p].at \in Refreshing)
                          /\ (indexLock = p) = Rebuilding(call[p])

\* What a manifest records is the graph it was written with; if nothing was edited then and
\* nothing changed while files were read, that is the graph of its commit.
ManifestIsTrue(m) ==
    /\ m.digest = m.hashes
    /\ m.quiet /\ m.dirty = {} => m.hashes = Visible(Tree[m.head])
PairIsTrue(pair) ==
    pair # None => ManifestIsTrue(pair.manifest) /\ pair.graph = pair.manifest.hashes

\* No index is newer than t.
IndexUntil(t) == \A a \in Artifacts : index[a] # None => index[a].since <= t

\* What a refresh has read so far: of the work tree, unless that has changed since, and of the
\* commit, if nothing was edited.
Unread(c) == IF c.at = "read" THEN c.todo ELSE {}
HashesAreTrue(c) ==
    /\ c.since = clock =>
           /\ c.head = head /\ c.dirty = ChangedPaths
           /\ \A q \in Path \ Unread(c) : c.hashes[q] = Visible(work)[q]
    /\ c.quiet /\ c.dirty = {} =>
           \A q \in Path \ Unread(c) : c.hashes[q] = Visible(Tree[c.head])[q]

\* What a call has found, by its place.
CallIsTrue(c) ==
    /\ c.at = "load" => ManifestIsTrue(c.manifest)
    /\ c.at = "loaded" => PairIsTrue(c.pair)
    /\ c.at \in Refreshing \union {"terms", "index"} =>
           /\ c.since <= clock
           /\ PairIsTrue(c.prev)
           /\ c.force => IndexUntil(c.since)
    /\ c.at \in {"terms", "index"} => c.force
    /\ c.at \in {"read", "parse", "manifest"} => HashesAreTrue(c)
    /\ c.at = "read" => c.parsed = NoFiles
    /\ c.at = "parse" =>
           /\ \A q \in c.todo : c.hashes[q] # None
           /\ \A q \in Path \ c.todo : c.parsed[q] = c.hashes[q]
    /\ c.at = "manifest" => c.parsed = c.hashes
    /\ c.at = "finish" =>
           /\ manifest # None /\ manifest.head = c.head
           /\ c.quiet /\ c.since = clock => c.parsed = Visible(work)

\* What is stored: a file that was parsed is parsed into itself.
Stored ==
    /\ graph \in Files \union {None} /\ manifest \in Manifests \union {None}
    /\ cursor \in Commit
    /\ cache \in [Content -> Content \union {None}]
    /\ index \in [Artifacts -> Builts \union {None}]
    /\ \A x \in Content : cache[x] \in {None, x}
    /\ manifest # None => ManifestIsTrue(manifest)
    /\ IndexUntil(clock)

GraphIInv ==
    /\ GraphTypes
    /\ Stored
    /\ \A p \in Process : CallIsTrue(call[p])

-----------------------------------------------------------------------------
(* The graph: files and calls. *)

\* What is in a work tree or a commit, and what is seen of it.
LEMMA VisibleTypes ==
  /\ \A files \in Files : Visible(files) \in Files
  /\ \A c \in Commit : Tree[c] \in Files
  /\ None \notin Indexable
BY RepositoryAssumption DEF Visible, Files

\* Where nothing has changed the work tree is the commit.
LEMMA CleanIsCommitted ==
  ASSUME work \in Files, head \in Commit, ChangedPaths = {}
  PROVE  work = Tree[head]
<1>1. Tree[head] \in Files /\ \A p \in Path : work[p] = Tree[head][p]
  BY VisibleTypes DEF ChangedPaths
<1> QED
  BY <1>1 DEF Files

\* A call that refreshes is a record of a refresh.
LEMMA GraphCallTypes ==
  ASSUME GraphTypes, NEW p \in Process, call[p].at \in Refreshing \union {"terms", "index"}
  PROVE  call[p] \in GraphCalls /\ call[p] # Idle
BY DEF GraphTypes, OtherCalls, Refreshing, Idle

\* A call that is set is that of its process.
LEMMA GraphSet ==
  ASSUME GraphTypes, NEW p \in Process, NEW c \in GraphCalls \union OtherCalls, Set(p, c)
  PROVE  /\ call' \in [Process -> GraphCalls \union OtherCalls] /\ call'[p] = c
         /\ \A q \in Process \ {p} : call'[q] = call[q]
BY DEF GraphTypes, Set

\* What a call has found stays true while its locks are respected.
LEMMA CallStays ==
  ASSUME NEW p \in Process, CallIsTrue(call[p]), call'[p] = call[p], UNCHANGED world,
         manifest' = manifest \/ call[p].at \notin Refreshing,
         index' = index \/ ~ Rebuilding(call[p])
  PROVE  CallIsTrue(call[p])'
<1>1. /\ \A m : ManifestIsTrue(m)' = ManifestIsTrue(m)
      /\ \A pair : PairIsTrue(pair)' = PairIsTrue(pair)
  BY DEF ManifestIsTrue, PairIsTrue, Visible
<1>2. UNCHANGED <<work, head, clock>> /\ ChangedPaths' = ChangedPaths
  BY DEF world, ChangedPaths
<1>3. \A c : HashesAreTrue(c)' = HashesAreTrue(c)
  BY <1>2 DEF HashesAreTrue, Visible, Unread
<1>4. CASE index' = index
  <2>1. \A t : IndexUntil(t)' = IndexUntil(t)
    BY <1>4 DEF IndexUntil
  <2> QED
    BY <1>1, <1>2, <1>3, <2>1 DEF CallIsTrue, Visible, Refreshing
<1>5. CASE ~ Rebuilding(call[p])
  BY <1>1, <1>2, <1>3, <1>5 DEF CallIsTrue, Visible, Refreshing, Rebuilding
<1> QED
  BY <1>4, <1>5

\* A step of a call in the world as it is: its locks follow its place.
LEMMA GraphStep ==
  ASSUME GraphIInv, NEW p \in Process, NEW c \in GraphCalls \union OtherCalls, Set(p, c),
         UNCHANGED world, Stored', CallIsTrue(call[p])',
         manifest' = manifest \/ call[p].at \in Refreshing,
         index' = index \/ Rebuilding(call[p]),
         graphLock' = IF c.at \in Refreshing THEN p ELSE IF graphLock = p THEN None ELSE graphLock,
         c.at \in Refreshing => graphLock \in {None, p},
         indexLock' = IF Rebuilding(c) THEN p ELSE IF indexLock = p THEN None ELSE indexLock,
         Rebuilding(c) => indexLock \in {None, p}
  PROVE  GraphIInv'
<1>1. /\ call' \in [Process -> GraphCalls \union OtherCalls] /\ call'[p] = c
      /\ \A q \in Process \ {p} : call'[q] = call[q]
  BY GraphSet DEF GraphIInv
<1>2. None \notin Process
  BY RepositoryAssumption
<1>3. \A q \in Process : /\ (graphLock = q) = (call[q].at \in Refreshing)
                         /\ (indexLock = q) = Rebuilding(call[q])
  BY DEF GraphIInv, GraphTypes
<1>4. \A q \in Process : (graphLock' = q) = (call'[q].at \in Refreshing)
  <2>1. (graphLock' = p) = (c.at \in Refreshing)
    BY <1>2
  <2>2. ASSUME NEW q \in Process \ {p} PROVE (graphLock' = q) = (call[q].at \in Refreshing)
    BY <1>2, <1>3
  <2> QED
    BY <1>1, <2>1, <2>2
<1>5. \A q \in Process : (indexLock' = q) = Rebuilding(call'[q])
  <2>1. (indexLock' = p) = Rebuilding(c)
    BY <1>2 DEF Rebuilding
  <2>2. ASSUME NEW q \in Process \ {p} PROVE (indexLock' = q) = Rebuilding(call[q])
    BY <1>2, <1>3
  <2> QED
    BY <1>1, <2>1, <2>2
<1>6. GraphTypes'
  <2>1. /\ UNCHANGED <<work, head, clock>>
        /\ graphLock' \in Process \union {None} /\ indexLock' \in Process \union {None}
    BY DEF world, GraphIInv, GraphTypes
  <2> QED
    BY <1>1, <1>4, <1>5, <2>1 DEF GraphIInv, GraphTypes, Rebuilding
<1>7. ASSUME NEW q \in Process PROVE CallIsTrue(call[q])'
  <2>1. CASE q = p
    BY <2>1
  <2>2. CASE q # p
    <3>1. call'[q] = call[q]
      BY <1>1, <2>2
    <3>2. manifest' = manifest \/ call[q].at \notin Refreshing
      BY <1>3, <2>2
    <3>3. index' = index \/ ~ Rebuilding(call[q])
      BY <1>3, <2>2
    <3>4. CallIsTrue(call[q])
      BY DEF GraphIInv
    <3> QED
      BY <3>1, <3>2, <3>3, <3>4, CallStays
  <2> QED
    BY <2>1, <2>2
<1> QED
  BY <1>6, <1>7 DEF GraphIInv

\* What is stored and not touched.
LEMMA StoredStays ==
  ASSUME Stored, UNCHANGED <<stored, index>>, clock' >= clock, clock \in Nat, clock' \in Nat
  PROVE  Stored'
<1>1. UNCHANGED <<graph, manifest, cursor, cache, index>>
  BY DEF stored
<1>2. ManifestIsTrue(manifest) => ManifestIsTrue(manifest)'
  BY <1>1 DEF ManifestIsTrue, Visible
<1>3. IndexUntil(clock)'
  <2>1. \A a \in Artifacts : index[a] # None => index[a].since \in Nat
    BY DEF Stored, Builts
  <2> QED
    BY <1>1, <2>1 DEF Stored, IndexUntil
<1> QED
  BY <1>1, <1>2, <1>3 DEF Stored

\* A refresh that goes on keeps its locks.
LEMMA GraphGoes ==
  ASSUME GraphIInv, NEW p \in Process, NEW c \in GraphCalls, Set(p, c),
         call[p].at \in Refreshing, c.at \in Refreshing, c.force = call[p].force,
         UNCHANGED <<world, index, graphLock, indexLock>>, Stored', CallIsTrue(call[p])'
  PROVE  GraphIInv'
<1>1. (graphLock = p) /\ (indexLock = p) = Rebuilding(call[p]) /\ None \notin Process
  BY RepositoryAssumption DEF GraphIInv, GraphTypes
<1>2. Rebuilding(c) = Rebuilding(call[p])
  BY DEF Rebuilding, Refreshing
<1>3. /\ graphLock' = p
      /\ indexLock' = IF Rebuilding(c) THEN p ELSE IF indexLock = p THEN None ELSE indexLock
      /\ Rebuilding(c) => indexLock = p
  BY <1>1, <1>2
<1> QED
  BY <1>1, <1>3, GraphStep

\* What is needed of a refresh that has not come to its end,
LEMMA RefreshIsTrue ==
  ASSUME NEW p \in Process, NEW c, call'[p] = c, UNCHANGED <<world, index>>,
         c.at \in {"read", "parse", "manifest"}, c.since <= clock, PairIsTrue(c.prev),
         c.force => IndexUntil(c.since), HashesAreTrue(c),
         c.at = "read" => c.parsed = NoFiles,
         c.at = "parse" => /\ \A q \in c.todo : c.hashes[q] # None
                           /\ \A q \in Path \ c.todo : c.parsed[q] = c.hashes[q],
         c.at = "manifest" => c.parsed = c.hashes
  PROVE  CallIsTrue(call[p])'
<1>1. PairIsTrue(c.prev)'
  BY DEF PairIsTrue, ManifestIsTrue, Visible
<1>2. UNCHANGED <<work, head, clock>> /\ ChangedPaths' = ChangedPaths
  BY DEF world, ChangedPaths
<1>3. HashesAreTrue(c)'
  BY <1>2 DEF HashesAreTrue, Visible, Unread
<1>4. IndexUntil(c.since) => IndexUntil(c.since)'
  BY DEF IndexUntil
<1> QED
  BY <1>1, <1>2, <1>3, <1>4 DEF CallIsTrue, Refreshing, NoFiles

\* and of one that has.
LEMMA FinishIsTrue ==
  ASSUME NEW p \in Process, NEW c, call'[p] = c, UNCHANGED <<world, index>>,
         c.at = "finish", c.since <= clock, PairIsTrue(c.prev),
         c.force => IndexUntil(c.since), manifest' # None, manifest'.head = c.head,
         c.quiet /\ c.since = clock => c.parsed = Visible(work)
  PROVE  CallIsTrue(call[p])'
<1>1. PairIsTrue(c.prev)'
  BY DEF PairIsTrue, ManifestIsTrue, Visible
<1>2. UNCHANGED <<work, head, clock>> /\ Visible(work)' = Visible(work)
  BY DEF world, Visible
<1>3. IndexUntil(c.since) => IndexUntil(c.since)'
  BY DEF IndexUntil
<1> QED
  BY <1>1, <1>2, <1>3 DEF CallIsTrue, Refreshing

\* What is known of a refresh under way.
LEMMA UnderWay ==
  ASSUME GraphIInv, NEW p \in Process, call[p].at \in Refreshing \union {"terms", "index"}
  PROVE  /\ call[p] \in GraphCalls
         /\ call[p].since <= clock /\ PairIsTrue(call[p].prev)
         /\ call[p].force => IndexUntil(call[p].since)
         /\ call[p].at \in {"read", "parse", "manifest"} => HashesAreTrue(call[p])
BY GraphCallTypes DEF GraphIInv, CallIsTrue

-----------------------------------------------------------------------------
(* The graph: its steps. *)

\* A rebuild begins with the lock of the index.
LEMMA BeginRebuildInv == ASSUME GraphIInv, NEW p \in Process, BeginRebuild(p) PROVE GraphIInv'
<1> DEFINE c == [at |-> "status"]
<1>1. /\ call[p] = Idle /\ indexLock = None /\ indexLock' = p /\ Set(p, c)
      /\ UNCHANGED <<world, stored, index, graphLock>>
  BY DEF BeginRebuild
<1>2. c \in OtherCalls /\ c.at = "status" /\ c.at \notin Refreshing /\ Rebuilding(c)
      /\ call[p].at = "idle"
  BY <1>1 DEF OtherCalls, Refreshing, Rebuilding, Idle
<1> HIDE DEF c
<1>3. graphLock # p
  BY <1>2 DEF GraphIInv, GraphTypes, Refreshing
<1>4. Stored'
  <2>1. clock' = clock /\ clock \in Nat
    BY <1>1, GraphAssumption DEF world, GraphIInv, GraphTypes
  <2> QED
    BY <1>1, <2>1, StoredStays DEF GraphIInv
<1>5. CallIsTrue(call[p])'
  <2>1. call'[p] = c
    BY <1>1, <1>2, GraphSet DEF GraphIInv
  <2> QED
    BY <1>2, <2>1 DEF CallIsTrue, Refreshing
<1> QED
  BY <1>1, <1>2, <1>3, <1>4, <1>5, GraphStep DEF stored

\* The pair that is loaded is a graph with its manifest.
LEMMA PairTypes ==
  ASSUME GraphIInv, NEW m \in Manifests \union {None}, m # None => ManifestIsTrue(m)
  PROVE  /\ Pair(m, graph) \in Pairs \union {None} /\ PairIsTrue(Pair(m, graph))
         /\ Pair(m, graph) # None =>
                Pair(m, graph).manifest = m /\ m # None /\ m.hashes = Pair(m, graph).graph
<1>1. graph \in Files \union {None}
  BY DEF GraphIInv, Stored
<1>2. CASE m = None \/ graph = None \/ m.digest # graph
  BY <1>2 DEF Pair, PairIsTrue
<1>3. CASE m # None /\ graph # None /\ m.digest = graph
  <2>1. Pair(m, graph) = [manifest |-> m, graph |-> graph]
    BY <1>3 DEF Pair
  <2> QED
    BY <1>1, <1>3, <2>1 DEF Pairs, PairIsTrue, ManifestIsTrue
<1> QED
  BY <1>2, <1>3

\* A refresh begins; it ends at once where everything is clean.
LEMMA StatusInv == ASSUME GraphIInv, NEW p \in Process, Status(p) PROVE GraphIInv'
<1> DEFINE pair == Pair(manifest, graph)
           force == call[p] # Idle
           b == [at |-> "read", force |-> force, prev |-> pair, head |-> head,
                 dirty |-> ChangedPaths, todo |-> Tracked(head) \union ChangedPaths,
                 hashes |-> NoFiles, parsed |-> NoFiles, since |-> clock, quiet |-> FALSE]
           f == [b EXCEPT !.at = "finish", !.parsed = pair.graph, !.quiet = pair.manifest.quiet]
           reuse == ~ force /\ Fresh(pair)
<1>1. /\ call[p] = Idle \/ call[p].at = "status"
      /\ graphLock = None /\ graphLock' = p /\ Set(p, IF reuse THEN f ELSE b)
      /\ UNCHANGED <<world, stored, index, indexLock>>
  BY Zenon DEF Status
<1>2. /\ pair \in Pairs \union {None} /\ PairIsTrue(pair)
      /\ pair # None => pair.manifest = manifest /\ manifest # None /\ pair.graph = manifest.hashes
  BY PairTypes DEF GraphIInv, Stored
<1>3. /\ work \in Files /\ head \in Commit /\ clock \in Nat /\ NoFiles \in Files
      /\ ChangedPaths \in SUBSET Path /\ Tracked(head) \in SUBSET Path
      /\ manifest \in Manifests \union {None}
      /\ manifest # None => ManifestIsTrue(manifest)
      /\ IndexUntil(clock)
  BY GraphAssumption DEF GraphIInv, GraphTypes, Stored, NoFiles, Files, ChangedPaths, Tracked
<1>4. force \in BOOLEAN /\ (indexLock = p) = force /\ call[p].at \in {"idle", "status"}
  <2>1. (indexLock = p) = Rebuilding(call[p])
    BY DEF GraphIInv, GraphTypes
  <2> QED
    BY <1>1, <2>1 DEF Rebuilding, Idle, Refreshing
<1> HIDE DEF pair
<1>5. b \in GraphCalls
  <2> HIDE DEF force
  <2> QED
    BY <1>2, <1>3, <1>4 DEF GraphCalls, Refreshing
<1>6. reuse => f \in GraphCalls
  <2>1. reuse => pair.graph \in Files /\ pair.manifest.quiet \in BOOLEAN
    BY <1>2, <1>3 DEF Fresh, Pairs, Manifests
  <2> HIDE DEF b, reuse
  <2> QED
    BY <1>5, <2>1 DEF GraphCalls, Refreshing
<1>7. Stored'
  <2>1. clock' = clock
    BY <1>1 DEF world
  <2> QED
    BY <1>1, <1>3, <2>1, StoredStays DEF GraphIInv
<1>8. CASE ~ reuse
  <2>1. HashesAreTrue(b)
    <3>1. \A q \in Path \ (Tracked(head) \union ChangedPaths) : Visible(work)[q] = None
      BY VisibleTypes DEF Tracked, ChangedPaths, Visible
    <3> HIDE DEF force
    <3> QED
      BY <3>1 DEF HashesAreTrue, Unread, NoFiles
  <2>2. Set(p, b) /\ call'[p] = b
    BY <1>1, <1>5, <1>8, GraphSet DEF GraphIInv
  <2>3. /\ b.at = "read" /\ b.since = clock /\ b.prev = pair /\ b.parsed = NoFiles
        /\ b.force = force
    OBVIOUS
  <2> HIDE DEF b, force
  <2>4. CallIsTrue(call[p])'
    BY <1>1, <1>2, <1>3, <2>1, <2>2, <2>3, RefreshIsTrue
  <2>5. Rebuilding(b) = force /\ b.at \in Refreshing
    BY <1>4, <2>3 DEF Rebuilding, Refreshing
  <2> QED
    BY <1>1, <1>4, <1>5, <1>7, <2>2, <2>4, <2>5, GraphStep DEF stored
<1>9. CASE reuse
  <2>1. Set(p, f) /\ call'[p] = f
    BY <1>1, <1>6, <1>9, GraphSet DEF GraphIInv
  <2>2. /\ f.at = "finish" /\ f.since = clock /\ f.prev = pair /\ f.parsed = pair.graph
        /\ f.force = force /\ f.head = head /\ f.quiet = pair.manifest.quiet
    OBVIOUS
  <2>3. /\ pair # None /\ pair.manifest.head = head /\ pair.manifest.dirty = {}
        /\ ChangedPaths = {} /\ ~ force
    BY <1>9 DEF Fresh
  <2>4. f.quiet => f.parsed = Visible(work)
    <3>1. work = Tree[head]
      BY <1>3, <2>3, CleanIsCommitted
    <3>2. pair.manifest.quiet => pair.graph = Visible(Tree[head])
      <4>1. /\ pair.manifest = manifest /\ pair.graph = manifest.hashes /\ manifest.head = head
            /\ manifest.dirty = {} /\ ManifestIsTrue(manifest)
        BY <1>2, <1>3, <2>3
      <4>2. manifest.quiet => manifest.hashes = Visible(Tree[manifest.head])
        BY <4>1, Zenon DEF ManifestIsTrue
      <4> QED
        BY <4>1, <4>2, Zenon
    <3> QED
      BY <2>2, <3>1, <3>2
  <2>5. manifest' # None /\ manifest'.head = f.head
    BY <1>1, <1>2, <2>2, <2>3 DEF stored
  <2> HIDE DEF f, b, force
  <2>6. CallIsTrue(call[p])'
    BY <1>1, <1>2, <1>3, <2>1, <2>2, <2>3, <2>4, <2>5, FinishIsTrue
  <2>7. Rebuilding(f) = force /\ f.at \in Refreshing
    BY <1>4, <2>2 DEF Rebuilding, Refreshing
  <2> QED
    BY <1>1, <1>4, <1>6, <1>7, <1>9, <2>1, <2>6, <2>7, GraphStep DEF stored
<1> QED
  BY <1>8, <1>9

\* A file is read and hashed.
LEMMA ReadSourceInv == ASSUME GraphIInv, NEW p \in Process, ReadSource(p) PROVE GraphIInv'
<1> DEFINE c == call[p]
           path == First(c.todo)
           d == [c EXCEPT !.hashes[path] = Visible(work)[path], !.todo = @ \ {path},
                          !.quiet = c.since = clock]
<1>1. /\ c.at = "read" /\ c.todo # {} /\ Set(p, d)
      /\ UNCHANGED <<world, stored, index, graphLock, indexLock>>
  BY DEF ReadSource
<1>2. /\ c \in GraphCalls /\ c.since <= clock /\ PairIsTrue(c.prev)
      /\ c.force => IndexUntil(c.since)
      /\ HashesAreTrue(c) /\ c.parsed = NoFiles
  BY <1>1, UnderWay DEF Refreshing, GraphIInv, CallIsTrue
<1>3. path \in c.todo /\ path \in Path /\ c.hashes \in Files
  BY <1>1, <1>2 DEF First, GraphCalls
<1>4. /\ work \in Files /\ Visible(work) \in Files /\ head \in Commit /\ clock \in Nat
  BY VisibleTypes, GraphAssumption DEF GraphIInv, GraphTypes
<1> HIDE DEF path
<1>5. /\ d.at = "read" /\ d.force = c.force /\ d.prev = c.prev /\ d.head = c.head
      /\ d.dirty = c.dirty /\ d.todo = c.todo \ {path} /\ d.parsed = c.parsed
      /\ d.since = c.since /\ d.quiet = (c.since = clock)
      /\ d.hashes = [c.hashes EXCEPT ![path] = Visible(work)[path]]
  BY <1>1, <1>2 DEF GraphCalls
<1>6. /\ d.hashes \in Files /\ d.hashes[path] = Visible(work)[path]
      /\ \A q \in Path \ {path} : d.hashes[q] = c.hashes[q]
  BY <1>3, <1>4, <1>5 DEF Files
<1>7. d \in GraphCalls
  BY <1>2, <1>3, <1>4, <1>6 DEF GraphCalls
<1> HIDE DEF d
<1>8. HashesAreTrue(d)
  <2>1. ASSUME c.since = clock
        PROVE  /\ c.head = head /\ c.dirty = ChangedPaths
               /\ \A q \in Path \ d.todo : d.hashes[q] = Visible(work)[q]
    BY <1>1, <1>2, <1>5, <1>6, <2>1 DEF HashesAreTrue, Unread
  <2>2. ASSUME c.since = clock, c.dirty = {}
        PROVE  Visible(work) = Visible(Tree[c.head])
    BY <1>4, <2>1, <2>2, CleanIsCommitted
  <2>3. Unread(d) = d.todo /\ d.since = c.since /\ d.head = c.head /\ d.dirty = c.dirty
    BY <1>5 DEF Unread
  <2>4. d.quiet => c.since = clock
    BY <1>5
  <2>5. d.quiet /\ d.dirty = {} => \A q \in Path \ d.todo : d.hashes[q] = Visible(Tree[d.head])[q]
    BY <2>1, <2>2, <2>3, <2>4, Zenon
  <2> QED
    BY <2>1, <2>3, <2>5, Zenon DEF HashesAreTrue
<1>9. call'[p] = d
  BY <1>1, <1>7, GraphSet DEF GraphIInv
<1>10. CallIsTrue(call[p])'
  BY <1>1, <1>2, <1>5, <1>8, <1>9, RefreshIsTrue
<1>11. Stored'
  <2>1. clock' = clock
    BY <1>1 DEF world
  <2> QED
    BY <1>1, <1>4, <2>1, StoredStays DEF GraphIInv
<1>12. c.at \in Refreshing /\ d.at \in Refreshing
  BY <1>1, <1>5 DEF Refreshing
<1> QED
  BY <1>1, <1>5, <1>7, <1>10, <1>11, <1>12, GraphGoes

\* The store is as it was.
LEMMA UnstoredStays ==
  ASSUME GraphIInv, UNCHANGED <<world, stored, index>> PROVE Stored'
<1>1. clock' = clock /\ clock \in Nat
  BY GraphAssumption DEF world, GraphIInv, GraphTypes
<1> QED
  BY <1>1, StoredStays DEF GraphIInv

\* A manifest is written: nothing else of the store changes.
LEMMA ManifestStored ==
  ASSUME GraphIInv, manifest' \in Manifests, ManifestIsTrue(manifest'),
         UNCHANGED <<world, graph, cursor, cache, index>>
  PROVE  Stored'
<1>1. UNCHANGED clock /\ Stored
  BY DEF world, GraphIInv
<1>2. ManifestIsTrue(manifest)'
  BY DEF ManifestIsTrue, Visible
<1>3. IndexUntil(clock)'
  BY <1>1 DEF Stored, IndexUntil
<1> QED
  BY <1>1, <1>2, <1>3 DEF Stored

\* Nothing differs: the manifest follows HEAD.
LEMMA KeepGraphInv == ASSUME GraphIInv, NEW p \in Process, KeepGraph(p) PROVE GraphIInv'
<1> DEFINE c == call[p]
           m == [c.prev.manifest EXCEPT !.head = c.head, !.dirty = c.dirty, !.quiet = c.quiet]
           d == [c EXCEPT !.at = "finish", !.parsed = c.prev.graph]
<1>1. /\ c.at = "read" /\ c.todo = {} /\ Unchanged(c) /\ manifest' = m /\ Set(p, d)
      /\ UNCHANGED <<world, graph, cursor, cache, index, graphLock, indexLock>>
  BY DEF KeepGraph
<1>2. /\ c \in GraphCalls /\ c.since <= clock /\ PairIsTrue(c.prev)
      /\ c.force => IndexUntil(c.since)
      /\ HashesAreTrue(c)
  BY <1>1, UnderWay DEF Refreshing
<1>3. /\ c.prev # None /\ c.prev \in Pairs /\ c.prev.manifest.hashes = c.hashes
      /\ c.prev.graph = c.hashes /\ c.prev.manifest.digest = c.hashes
  <2>1. c.prev # None /\ c.prev \in Pairs /\ c.prev.manifest.hashes = c.hashes
    BY <1>1, <1>2 DEF Unchanged, GraphCalls
  <2> QED
    BY <1>2, <2>1 DEF PairIsTrue, ManifestIsTrue
<1>4. /\ m \in Manifests /\ m.head = c.head /\ m.dirty = c.dirty /\ m.quiet = c.quiet
      /\ m.hashes = c.hashes /\ m.digest = c.hashes
  <2>1. c.prev.manifest \in Manifests /\ c.head \in Commit /\ c.dirty \in SUBSET Path
        /\ c.quiet \in BOOLEAN
    BY <1>2, <1>3 DEF Pairs, GraphCalls
  <2> HIDE DEF c
  <2> QED
    BY <1>3, <2>1 DEF Manifests
<1>5. d \in GraphCalls /\ d.at = "finish" /\ d.parsed = c.hashes /\ d.force = c.force
      /\ d.prev = c.prev /\ d.since = c.since /\ d.quiet = c.quiet /\ d.head = c.head
  BY <1>2, <1>3 DEF GraphCalls, Refreshing
<1> HIDE DEF m, d
<1>6. /\ c.since = clock => c.hashes = Visible(work)
      /\ c.quiet /\ c.dirty = {} => c.hashes = Visible(Tree[c.head])
  <2>1. /\ c.hashes \in Files /\ Visible(work) \in Files /\ Visible(Tree[c.head]) \in Files
        /\ Unread(c) = {}
    BY <1>1, <1>2, VisibleTypes DEF GraphIInv, GraphTypes, GraphCalls, Unread
  <2>2. \A f, g \in Files : (\A q \in Path : f[q] = g[q]) => f = g
    BY DEF Files
  <2>3. c.since = clock => \A q \in Path : c.hashes[q] = Visible(work)[q]
    BY <1>2, <2>1 DEF HashesAreTrue
  <2>4. c.quiet /\ c.dirty = {} => \A q \in Path : c.hashes[q] = Visible(Tree[c.head])[q]
    BY <1>2, <2>1 DEF HashesAreTrue
  <2> QED
    BY <2>1, <2>2, <2>3, <2>4
<1>7. ManifestIsTrue(m)
  BY <1>4, <1>6, Zenon DEF ManifestIsTrue
<1>8. Stored'
  BY <1>1, <1>4, <1>7, ManifestStored
<1>9. call'[p] = d
  BY <1>1, <1>5, GraphSet DEF GraphIInv
<1>10. CallIsTrue(call[p])'
  <2>1. manifest' # None /\ manifest'.head = d.head
    BY <1>1, <1>4, <1>5, GraphMarkAssumption
  <2>2. d.quiet /\ d.since = clock => d.parsed = Visible(work)
    BY <1>5, <1>6
  <2>3. d.since <= clock /\ PairIsTrue(d.prev) /\ (d.force => IndexUntil(d.since))
    BY <1>2, <1>5
  <2> QED
    BY <1>1, <1>5, <1>9, <2>1, <2>2, <2>3, FinishIsTrue
<1>11. c.at \in Refreshing /\ d.at \in Refreshing
  BY <1>1, <1>5 DEF Refreshing
<1> QED
  BY <1>1, <1>5, <1>8, <1>10, <1>11, GraphGoes

\* Everything is read; what is seen of it will be parsed.
LEMMA BeginParseInv == ASSUME GraphIInv, NEW p \in Process, BeginParse(p) PROVE GraphIInv'
<1> DEFINE c == call[p]
           d == [c EXCEPT !.at = "parse", !.todo = {q \in Path : c.hashes[q] # None}]
<1>1. /\ c.at = "read" /\ c.todo = {} /\ Set(p, d)
      /\ UNCHANGED <<world, stored, index, graphLock, indexLock>>
  BY DEF BeginParse
<1>2. /\ c \in GraphCalls /\ c.since <= clock /\ PairIsTrue(c.prev)
      /\ c.force => IndexUntil(c.since)
      /\ HashesAreTrue(c) /\ c.parsed = NoFiles
  BY <1>1, UnderWay DEF Refreshing, GraphIInv, CallIsTrue
<1>3. /\ d \in GraphCalls /\ d.at = "parse" /\ d.todo = {q \in Path : c.hashes[q] # None}
      /\ d.parsed = c.parsed /\ d.force = c.force /\ d.prev = c.prev /\ d.since = c.since
      /\ d.quiet = c.quiet /\ d.head = c.head /\ d.hashes = c.hashes /\ d.dirty = c.dirty
  BY <1>2 DEF GraphCalls, Refreshing
<1> HIDE DEF d
<1>4. HashesAreTrue(d)
  <2>1. Unread(c) = {} /\ Unread(d) = {}
    BY <1>1, <1>3 DEF Unread
  <2> QED
    BY <1>2, <1>3, <2>1 DEF HashesAreTrue
<1>5. /\ \A q \in d.todo : d.hashes[q] # None
      /\ \A q \in Path \ d.todo : d.parsed[q] = d.hashes[q]
  BY <1>2, <1>3 DEF NoFiles
<1>6. call'[p] = d
  BY <1>1, <1>3, GraphSet DEF GraphIInv
<1>7. CallIsTrue(call[p])'
  BY <1>1, <1>2, <1>3, <1>4, <1>5, <1>6, RefreshIsTrue
<1>8. Stored' /\ c.at \in Refreshing /\ d.at \in Refreshing
  BY <1>1, <1>3, UnstoredStays DEF Refreshing
<1> QED
  BY <1>1, <1>3, <1>7, <1>8, GraphGoes

\* A file is parsed into what was hashed, or was parsed from that before.
LEMMA ParsedInv ==
  ASSUME GraphIInv, NEW p \in Process, call[p].at = "parse", NEW path \in call[p].todo,
         Set(p, [call[p] EXCEPT !.parsed[path] = call[p].hashes[path], !.todo = @ \ {path}]),
         UNCHANGED <<world, index, graphLock, indexLock>>, Stored'
  PROVE  GraphIInv'
<1> DEFINE c == call[p]
           d == [c EXCEPT !.parsed[path] = c.hashes[path], !.todo = @ \ {path}]
<1>1. /\ c \in GraphCalls /\ c.since <= clock /\ PairIsTrue(c.prev)
      /\ c.force => IndexUntil(c.since)
      /\ HashesAreTrue(c)
      /\ \A q \in c.todo : c.hashes[q] # None
      /\ \A q \in Path \ c.todo : c.parsed[q] = c.hashes[q]
  BY UnderWay DEF Refreshing, GraphIInv, CallIsTrue
<1>2. path \in Path /\ c.hashes \in Files /\ c.parsed \in Files
  BY <1>1 DEF GraphCalls
<1>3. /\ d.at = "parse" /\ d.todo = c.todo \ {path} /\ d.force = c.force /\ d.prev = c.prev
      /\ d.since = c.since /\ d.quiet = c.quiet /\ d.head = c.head /\ d.hashes = c.hashes
      /\ d.dirty = c.dirty /\ d.parsed = [c.parsed EXCEPT ![path] = c.hashes[path]]
  BY <1>1 DEF GraphCalls
<1>4. /\ d.parsed \in Files /\ d.parsed[path] = c.hashes[path]
      /\ \A q \in Path \ {path} : d.parsed[q] = c.parsed[q]
  BY <1>2, <1>3 DEF Files
<1>5. d \in GraphCalls
  BY <1>1, <1>4 DEF GraphCalls
<1>6. Set(p, d)
  OBVIOUS
<1> HIDE DEF d
<1>7. HashesAreTrue(d)
  <2>1. Unread(c) = {} /\ Unread(d) = {}
    BY <1>3 DEF Unread
  <2> QED
    BY <1>1, <1>3, <2>1 DEF HashesAreTrue
<1>8. /\ \A q \in d.todo : d.hashes[q] # None
      /\ \A q \in Path \ d.todo : d.parsed[q] = d.hashes[q]
  BY <1>1, <1>3, <1>4
<1>9. call'[p] = d
  BY <1>5, <1>6, GraphSet DEF GraphIInv
<1>10. CallIsTrue(call[p])'
  BY <1>1, <1>3, <1>7, <1>8, <1>9, RefreshIsTrue
<1>11. c.at \in Refreshing /\ d.at \in Refreshing
  BY <1>3 DEF Refreshing
<1> QED
  BY <1>3, <1>5, <1>6, <1>10, <1>11, GraphGoes

\* What was parsed before is found in the cache.
LEMMA ReadCacheInv == ASSUME GraphIInv, NEW p \in Process, ReadCache(p) PROVE GraphIInv'
<1> DEFINE c == call[p]
           path == First(c.todo)
<1>1. /\ c.at = "parse" /\ c.todo # {} /\ cache[c.hashes[path]] # None
      /\ Set(p, [c EXCEPT !.parsed[path] = cache[c.hashes[path]], !.todo = @ \ {path}])
      /\ UNCHANGED <<world, stored, index, graphLock, indexLock>>
  BY DEF ReadCache
<1>2. path \in c.todo
  BY <1>1 DEF First
<1> HIDE DEF path
<1>3. cache[c.hashes[path]] = c.hashes[path]
  <2>1. c \in GraphCalls /\ c.hashes[path] # None
    BY <1>1, <1>2, UnderWay DEF Refreshing, GraphIInv, CallIsTrue
  <2>2. c.hashes[path] \in Content
    BY <1>2, <2>1 DEF GraphCalls, Files
  <2> QED
    BY <1>1, <2>2 DEF GraphIInv, Stored
<1>4. Set(p, [c EXCEPT !.parsed[path] = c.hashes[path], !.todo = @ \ {path}])
  BY <1>1, <1>3
<1>5. Stored'
  BY <1>1, UnstoredStays
<1> QED
  BY <1>1, <1>2, <1>4, <1>5, ParsedInv

\* A file is parsed and put into the cache.
LEMMA ParseInv == ASSUME GraphIInv, NEW p \in Process, Parse(p) PROVE GraphIInv'
<1> DEFINE c == call[p]
           path == First(c.todo)
<1>1. /\ c.at = "parse" /\ c.todo # {} /\ work[path] = c.hashes[path]
      /\ cache' = [cache EXCEPT ![c.hashes[path]] = work[path]]
      /\ Set(p, [c EXCEPT !.parsed[path] = work[path], !.todo = @ \ {path}])
      /\ UNCHANGED <<world, graph, manifest, cursor, index, graphLock, indexLock>>
  BY DEF Parse
<1>2. path \in c.todo
  BY <1>1 DEF First
<1> HIDE DEF path
<1>3. c.hashes[path] \in Content
  <2>1. c \in GraphCalls /\ c.hashes[path] # None
    BY <1>1, <1>2, UnderWay DEF Refreshing, GraphIInv, CallIsTrue
  <2> QED
    BY <1>2, <2>1 DEF GraphCalls, Files
<1>4. Set(p, [c EXCEPT !.parsed[path] = c.hashes[path], !.todo = @ \ {path}])
  BY <1>1
<1>5. Stored'
  <2>1. /\ cache' \in [Content -> Content \union {None}]
        /\ \A x \in Content : cache'[x] \in {None, x}
    BY <1>1, <1>3 DEF GraphIInv, Stored
  <2>2. UNCHANGED clock /\ (ManifestIsTrue(manifest) => ManifestIsTrue(manifest)')
    BY <1>1 DEF world, ManifestIsTrue, Visible
  <2>3. IndexUntil(clock)'
    BY <1>1, <2>2 DEF GraphIInv, Stored, IndexUntil
  <2> QED
    BY <1>1, <2>1, <2>2, <2>3 DEF GraphIInv, Stored
<1> QED
  BY <1>1, <1>2, <1>4, <1>5, ParsedInv

\* The graph is written before its manifest.
LEMMA WriteGraphInv == ASSUME GraphIInv, NEW p \in Process, WriteGraph(p) PROVE GraphIInv'
<1> DEFINE c == call[p]
           d == [c EXCEPT !.at = "manifest"]
<1>1. /\ c.at = "parse" /\ c.todo = {} /\ graph' = c.parsed /\ Set(p, d)
      /\ UNCHANGED <<world, manifest, cursor, cache, index, graphLock, indexLock>>
  BY DEF WriteGraph, Goto, Set
<1>2. /\ c \in GraphCalls /\ c.since <= clock /\ PairIsTrue(c.prev)
      /\ c.force => IndexUntil(c.since)
      /\ HashesAreTrue(c)
      /\ \A q \in Path \ c.todo : c.parsed[q] = c.hashes[q]
  BY <1>1, UnderWay DEF Refreshing, GraphIInv, CallIsTrue
<1>3. c.parsed \in Files /\ c.hashes \in Files /\ c.parsed = c.hashes
  BY <1>1, <1>2 DEF GraphCalls, Files
<1>4. /\ d \in GraphCalls /\ d.at = "manifest"
      /\ d.parsed = c.parsed /\ d.force = c.force /\ d.prev = c.prev /\ d.since = c.since
      /\ d.quiet = c.quiet /\ d.head = c.head /\ d.hashes = c.hashes /\ d.dirty = c.dirty
  BY <1>2 DEF GraphCalls, Refreshing
<1> HIDE DEF d
<1>5. HashesAreTrue(d)
  <2>1. Unread(c) = {} /\ Unread(d) = {}
    BY <1>1, <1>4 DEF Unread
  <2> QED
    BY <1>2, <1>4, <2>1 DEF HashesAreTrue
<1>6. call'[p] = d
  BY <1>1, <1>4, GraphSet DEF GraphIInv
<1>7. CallIsTrue(call[p])'
  BY <1>1, <1>2, <1>3, <1>4, <1>5, <1>6, RefreshIsTrue
<1>8. Stored'
  <2>1. UNCHANGED clock /\ (ManifestIsTrue(manifest) => ManifestIsTrue(manifest)')
    BY <1>1 DEF world, ManifestIsTrue, Visible
  <2>2. IndexUntil(clock)'
    BY <1>1, <2>1 DEF GraphIInv, Stored, IndexUntil
  <2> QED
    BY <1>1, <1>3, <2>1, <2>2 DEF GraphIInv, Stored
<1>9. c.at \in Refreshing /\ d.at \in Refreshing
  BY <1>1, <1>4 DEF Refreshing
<1> QED
  BY <1>1, <1>4, <1>7, <1>8, <1>9, GraphGoes

\* The manifest records what the graph was parsed from.
LEMMA WriteManifestInv == ASSUME GraphIInv, NEW p \in Process, WriteManifest(p) PROVE GraphIInv'
<1> DEFINE c == call[p]
           m == [head |-> c.head, dirty |-> c.dirty, hashes |-> c.hashes,
                 digest |-> c.parsed, quiet |-> c.quiet]
           d == [c EXCEPT !.at = "finish"]
<1>1. /\ c.at = "manifest" /\ manifest' = m /\ Set(p, d)
      /\ UNCHANGED <<world, graph, cursor, cache, index, graphLock, indexLock>>
  BY DEF WriteManifest, Goto, Set
<1>2. /\ c \in GraphCalls /\ c.since <= clock /\ PairIsTrue(c.prev)
      /\ c.force => IndexUntil(c.since)
      /\ HashesAreTrue(c) /\ c.parsed = c.hashes
  BY <1>1, UnderWay DEF Refreshing, GraphIInv, CallIsTrue
<1>3. /\ m \in Manifests /\ m.head = c.head /\ m.dirty = c.dirty /\ m.quiet = c.quiet
      /\ m.hashes = c.hashes /\ m.digest = c.hashes
  BY <1>2 DEF Manifests, GraphCalls
<1>4. d \in GraphCalls /\ d.at = "finish" /\ d.parsed = c.hashes /\ d.force = c.force
      /\ d.prev = c.prev /\ d.since = c.since /\ d.quiet = c.quiet /\ d.head = c.head
  BY <1>2 DEF GraphCalls, Refreshing
<1> HIDE DEF m, d
<1>5. /\ c.since = clock => c.hashes = Visible(work)
      /\ c.quiet /\ c.dirty = {} => c.hashes = Visible(Tree[c.head])
  <2>1. /\ c.hashes \in Files /\ Visible(work) \in Files /\ Visible(Tree[c.head]) \in Files
        /\ Unread(c) = {}
    BY <1>1, <1>2, VisibleTypes DEF GraphIInv, GraphTypes, GraphCalls, Unread
  <2>2. \A f, g \in Files : (\A q \in Path : f[q] = g[q]) => f = g
    BY DEF Files
  <2>3. c.since = clock => \A q \in Path : c.hashes[q] = Visible(work)[q]
    BY <1>2, <2>1 DEF HashesAreTrue
  <2>4. c.quiet /\ c.dirty = {} => \A q \in Path : c.hashes[q] = Visible(Tree[c.head])[q]
    BY <1>2, <2>1 DEF HashesAreTrue
  <2> QED
    BY <2>1, <2>2, <2>3, <2>4
<1>6. ManifestIsTrue(m)
  BY <1>3, <1>5, Zenon DEF ManifestIsTrue
<1>7. Stored'
  BY <1>1, <1>3, <1>6, ManifestStored
<1>8. call'[p] = d
  BY <1>1, <1>4, GraphSet DEF GraphIInv
<1>9. CallIsTrue(call[p])'
  <2>1. manifest' # None /\ manifest'.head = d.head
    BY <1>1, <1>3, <1>4, GraphMarkAssumption
  <2>2. d.quiet /\ d.since = clock => d.parsed = Visible(work)
    BY <1>4, <1>5
  <2>3. d.since <= clock /\ PairIsTrue(d.prev) /\ (d.force => IndexUntil(d.since))
    BY <1>2, <1>4
  <2> QED
    BY <1>1, <1>4, <1>8, <2>1, <2>2, <2>3, FinishIsTrue
<1>10. c.at \in Refreshing /\ d.at \in Refreshing
  BY <1>1, <1>4 DEF Refreshing
<1> QED
  BY <1>1, <1>4, <1>7, <1>9, <1>10, GraphGoes

\* The refresh is over; a rebuild goes on with the index.
LEMMA FinishInv == ASSUME GraphIInv, NEW p \in Process, Finish(p) PROVE GraphIInv'
<1> DEFINE c == call[p]
           t == [c EXCEPT !.at = "terms"]
           r == [at |-> "returned"]
<1>1. /\ c.at = "finish" /\ cursor' = c.head /\ graphLock' = None
      /\ Set(p, IF c.force THEN t ELSE r)
      /\ UNCHANGED <<world, graph, manifest, cache, index, indexLock>>
  BY DEF Finish
<1>2. /\ c \in GraphCalls /\ c.since <= clock /\ PairIsTrue(c.prev)
      /\ c.force => IndexUntil(c.since)
      /\ graphLock = p /\ (indexLock = p) = c.force /\ c.head \in Commit /\ clock \in Nat
  <2>1. graphLock = p /\ (indexLock = p) = Rebuilding(c) /\ clock \in Nat
    BY <1>1, GraphAssumption DEF GraphIInv, GraphTypes, Refreshing
  <2>2. c \in GraphCalls /\ c.since <= clock /\ PairIsTrue(c.prev)
        /\ (c.force => IndexUntil(c.since))
    BY <1>1, UnderWay DEF Refreshing
  <2>3. c.head \in Commit /\ c.force \in BOOLEAN
    BY <2>2 DEF GraphCalls
  <2> QED
    BY <1>1, <2>1, <2>2, <2>3 DEF Rebuilding, Refreshing
<1>3. Stored'
  <2>1. UNCHANGED clock /\ (ManifestIsTrue(manifest) => ManifestIsTrue(manifest)')
    BY <1>1 DEF world, ManifestIsTrue, Visible
  <2>2. IndexUntil(clock)'
    BY <1>1, <2>1 DEF GraphIInv, Stored, IndexUntil
  <2> QED
    BY <1>1, <1>2, <2>1, <2>2 DEF GraphIInv, Stored
<1>4. CASE c.force
  <2>1. t \in GraphCalls /\ t.at = "terms" /\ t.force = TRUE /\ t.since = c.since /\ t.prev = c.prev
    BY <1>2, <1>4 DEF GraphCalls
  <2>2. Set(p, t)
    BY <1>1, <1>4
  <2> HIDE DEF t
  <2>3. call'[p] = t
    BY <2>1, <2>2, GraphSet DEF GraphIInv
  <2>4. /\ \A x : PairIsTrue(x)' = PairIsTrue(x) /\ IndexUntil(x)' = IndexUntil(x)
        /\ clock' = clock
    BY <1>1 DEF PairIsTrue, ManifestIsTrue, Visible, IndexUntil, world
  <2>5. CallIsTrue(call[p])'
    BY <1>2, <1>4, <2>1, <2>3, <2>4 DEF CallIsTrue, Refreshing
  <2>6. t.at \notin Refreshing /\ Rebuilding(t)
    BY <2>1 DEF Refreshing, Rebuilding
  <2> QED
    BY <1>1, <1>2, <1>3, <1>4, <2>1, <2>2, <2>5, <2>6, GraphStep
<1>5. CASE ~ c.force
  <2>1. r \in OtherCalls /\ r.at = "returned"
    BY DEF OtherCalls
  <2>2. Set(p, r)
    BY <1>1, <1>5
  <2> HIDE DEF r
  <2>3. call'[p] = r
    BY <2>1, <2>2, GraphSet DEF GraphIInv
  <2>4. CallIsTrue(call[p])'
    BY <2>1, <2>3 DEF CallIsTrue, Refreshing
  <2>5. r.at \notin Refreshing /\ ~ Rebuilding(r)
    BY <2>1 DEF Refreshing, Rebuilding
  <2> QED
    BY <1>1, <1>2, <1>3, <1>5, <2>1, <2>2, <2>4, <2>5, GraphStep
<1> QED
  BY <1>4, <1>5

\* An artifact of the index is written: it is no older than what it replaces.
LEMMA IndexWritten ==
  ASSUME GraphIInv, NEW p \in Process, call[p].at \in {"terms", "index"}, NEW a \in Artifacts,
         index' = [index EXCEPT ![a] = Built(call[p])], UNCHANGED <<world, stored>>
  PROVE  /\ Stored'
         /\ \A k \in Artifacts : index'[k] # None => index'[k].since <= call[p].since
         /\ \A k \in Artifacts : index[k] # None => index[k].since <= index'[k].since
<1> DEFINE c == call[p]
           b == Built(c)
<1>1. /\ c \in GraphCalls /\ c.since <= clock /\ c.force /\ IndexUntil(c.since)
  BY UnderWay DEF GraphIInv, CallIsTrue
<1>2. b \in Builts /\ b.since = c.since /\ c.since \in Nat /\ clock \in Nat
  BY <1>1, GraphAssumption DEF Built, Builts, GraphCalls, GraphIInv, GraphTypes
<1> HIDE DEF b
<1>3. /\ index \in [Artifacts -> Builts \union {None}]
      /\ \A k \in Artifacts : index[k] # None => index[k].since \in Nat /\ index[k].since <= c.since
  BY <1>1 DEF GraphIInv, Stored, IndexUntil, Builts
<1>4. /\ index' \in [Artifacts -> Builts \union {None}] /\ index'[a] = b
      /\ \A k \in Artifacts \ {a} : index'[k] = index[k]
  BY <1>2, <1>3 DEF b
<1>5. \A k \in Artifacts : index'[k] # None => index'[k].since \in Nat /\ index'[k].since <= c.since
  BY <1>2, <1>3, <1>4
<1>6. Stored'
  <2>1. UNCHANGED <<graph, manifest, cursor, cache, clock>>
        /\ (ManifestIsTrue(manifest) => ManifestIsTrue(manifest)')
    BY DEF world, stored, ManifestIsTrue, Visible
  <2>2. IndexUntil(clock)'
    BY <1>1, <1>2, <1>5, <2>1 DEF IndexUntil
  <2> QED
    BY <1>4, <2>1, <2>2 DEF GraphIInv, Stored
<1>7. \A k \in Artifacts : index[k] # None => index[k].since <= index'[k].since
  BY <1>2, <1>3, <1>4
<1> QED
  BY <1>5, <1>6, <1>7

\* The artifacts of the index,
LEMMA WriteTermsInv == ASSUME GraphIInv, NEW p \in Process, WriteTerms(p) PROVE GraphIInv'
<1> DEFINE c == call[p]
           d == [c EXCEPT !.at = "index"]
<1>1. /\ c.at = "terms" /\ index' = [index EXCEPT !["terms"] = Built(c)] /\ Set(p, d)
      /\ UNCHANGED <<world, stored, graphLock, indexLock>>
  BY DEF WriteTerms, Goto, Set
<1>2. /\ c \in GraphCalls /\ c.since <= clock /\ PairIsTrue(c.prev) /\ c.force
      /\ graphLock # p /\ indexLock = p
  BY <1>1, UnderWay DEF GraphIInv, CallIsTrue, GraphTypes, Refreshing, Rebuilding
<1>3. /\ Stored'
      /\ \A k \in Artifacts : index'[k] # None => index'[k].since <= c.since
  <2>1. "terms" \in Artifacts
    BY DEF Artifacts
  <2> QED
    BY <1>1, <2>1, IndexWritten
<1>4. d \in GraphCalls /\ d.at = "index" /\ d.force = TRUE /\ d.since = c.since /\ d.prev = c.prev
  BY <1>2 DEF GraphCalls
<1> HIDE DEF d
<1>5. call'[p] = d
  BY <1>1, <1>4, GraphSet DEF GraphIInv
<1>6. CallIsTrue(call[p])'
  <2>1. (\A x : PairIsTrue(x)' = PairIsTrue(x)) /\ clock' = clock
    BY <1>1 DEF PairIsTrue, ManifestIsTrue, Visible, world
  <2>2. \A x : x = c.since => IndexUntil(x)'
    BY <1>3 DEF IndexUntil
  <2> QED
    BY <1>2, <1>4, <1>5, <2>1, <2>2 DEF CallIsTrue, Refreshing
<1>7. d.at \notin Refreshing /\ Rebuilding(d) /\ Rebuilding(c)
  BY <1>1, <1>4 DEF Refreshing, Rebuilding
<1> QED
  BY <1>1, <1>2, <1>3, <1>4, <1>6, <1>7, GraphStep DEF stored

\* and its manifest; the lock of the index is given back.
LEMMA WriteIndexInv == ASSUME GraphIInv, NEW p \in Process, WriteIndex(p) PROVE GraphIInv'
<1> DEFINE c == call[p]
<1>1. /\ c.at = "index" /\ index' = [index EXCEPT !["manifest"] = Built(c)] /\ Set(p, Idle)
      /\ indexLock' = None /\ UNCHANGED <<world, stored, graphLock>>
  BY DEF WriteIndex
<1>2. graphLock # p /\ indexLock = p /\ Rebuilding(c)
  BY <1>1 DEF GraphIInv, GraphTypes, Refreshing, Rebuilding
<1>3. Stored'
  <2>1. "manifest" \in Artifacts
    BY DEF Artifacts
  <2> QED
    BY <1>1, <2>1, IndexWritten
<1>4. Idle \in OtherCalls /\ Idle.at \notin Refreshing /\ ~ Rebuilding(Idle) /\ Idle.at = "idle"
  BY DEF OtherCalls, Idle, Refreshing, Rebuilding
<1>5. CallIsTrue(call[p])'
  <2>1. call'[p] = Idle
    BY <1>1, <1>4, GraphSet DEF GraphIInv
  <2> QED
    BY <1>4, <2>1 DEF CallIsTrue, Refreshing
<1> QED
  BY <1>1, <1>2, <1>3, <1>4, <1>5, GraphStep DEF stored

\* A call that holds no lock goes on without one.
LEMMA ReaderStep ==
  ASSUME GraphIInv, NEW p \in Process, NEW c \in OtherCalls, Set(p, c),
         call[p].at \in {"idle", "load", "loaded", "returned"},
         c.at \in {"idle", "load", "loaded", "returned"},
         c.at = "load" => ManifestIsTrue(c.manifest), c.at = "loaded" => PairIsTrue(c.pair),
         UNCHANGED <<world, stored, index, graphLock, indexLock>>
  PROVE  GraphIInv'
<1>1. graphLock # p /\ indexLock # p
  BY DEF GraphIInv, GraphTypes, Refreshing, Rebuilding
<1>2. Stored'
  BY UnstoredStays
<1>3. c.at \notin Refreshing /\ ~ Rebuilding(c)
  BY DEF Refreshing, Rebuilding
<1>4. CallIsTrue(call[p])'
  <2>1. call'[p] = c
    BY GraphSet DEF GraphIInv
  <2>2. \A x : PairIsTrue(x)' = PairIsTrue(x) /\ ManifestIsTrue(x)' = ManifestIsTrue(x)
    BY DEF PairIsTrue, ManifestIsTrue, Visible
  <2> QED
    BY <2>1, <2>2 DEF CallIsTrue, Refreshing
<1> QED
  BY <1>1, <1>2, <1>3, <1>4, GraphStep DEF stored

\* The manifest is read without a lock,
LEMMA LoadManifestInv == ASSUME GraphIInv, NEW p \in Process, LoadManifest(p) PROVE GraphIInv'
<1> DEFINE c == [at |-> "load", manifest |-> manifest]
<1>1. /\ call[p] = Idle /\ manifest # None /\ Set(p, c)
      /\ UNCHANGED <<world, stored, index, graphLock, indexLock>>
  BY DEF LoadManifest
<1>2. manifest \in Manifests /\ ManifestIsTrue(manifest)
  BY <1>1 DEF GraphIInv, Stored
<1>3. c \in OtherCalls /\ c.at = "load" /\ c.manifest = manifest /\ call[p].at = "idle"
  BY <1>1, <1>2 DEF OtherCalls, Idle
<1> HIDE DEF c
<1> QED
  BY <1>1, <1>2, <1>3, ReaderStep

\* then the graph, which counts if it is the one the manifest was written for.
LEMMA LoadGraphInv == ASSUME GraphIInv, NEW p \in Process, LoadGraph(p) PROVE GraphIInv'
<1> DEFINE pair == Pair(call[p].manifest, graph)
           c == [at |-> "loaded", pair |-> pair]
<1>1. /\ call[p].at = "load" /\ Set(p, c)
      /\ UNCHANGED <<world, stored, index, graphLock, indexLock>>
  BY DEF LoadGraph
<1>2. call[p].manifest \in Manifests /\ ManifestIsTrue(call[p].manifest)
  <2>1. call[p] \in [at : {"load"}, manifest : Manifests]
    BY <1>1 DEF GraphIInv, GraphTypes, GraphCalls, OtherCalls, Refreshing, Idle
  <2> QED
    BY <1>1, <2>1 DEF GraphIInv, CallIsTrue
<1>3. pair \in Pairs \union {None} /\ PairIsTrue(pair)
  BY <1>2, PairTypes
<1> HIDE DEF pair
<1>4. c \in OtherCalls /\ c.at = "loaded" /\ c.pair = pair
  BY <1>3 DEF OtherCalls
<1> HIDE DEF c
<1> QED
  BY <1>1, <1>3, <1>4, ReaderStep

\* A call returns.
LEMMA ReturnInv == ASSUME GraphIInv, NEW p \in Process, Return(p) PROVE GraphIInv'
<1>1. Idle \in OtherCalls /\ Idle.at = "idle"
  BY DEF OtherCalls, Idle
<1> QED
  BY <1>1, ReaderStep DEF Return

\* A call ends before its time, and its locks are free.
LEMMA StopInv == ASSUME GraphIInv, NEW p \in Process, Stop(p) PROVE GraphIInv'
<1>1. /\ Set(p, Idle) /\ UNCHANGED <<world, stored, index>>
      /\ graphLock' = IF graphLock = p THEN None ELSE graphLock
      /\ indexLock' = IF indexLock = p THEN None ELSE indexLock
  BY DEF Stop
<1>2. Idle \in OtherCalls /\ Idle.at \notin Refreshing /\ ~ Rebuilding(Idle) /\ Idle.at = "idle"
  BY DEF OtherCalls, Idle, Refreshing, Rebuilding
<1>3. CallIsTrue(call[p])'
  <2>1. call'[p] = Idle
    BY <1>1, <1>2, GraphSet DEF GraphIInv
  <2> QED
    BY <1>2, <2>1 DEF CallIsTrue, Refreshing
<1>4. Stored'
  BY <1>1, UnstoredStays
<1> QED
  BY <1>1, <1>2, <1>3, <1>4, GraphStep DEF stored

\* Files are edited, committed and checked out: no refresh under way is quiet any more.
LEMMA RepositoryChangesInv == ASSUME GraphIInv, RepositoryChanges PROVE GraphIInv'
<1>1. /\ clock < MaxChanges /\ clock' = clock + 1
      /\ UNCHANGED <<stored, index, call, graphLock, indexLock>>
  BY DEF RepositoryChanges
<1>2. work' \in Files /\ head' \in Commit
  <2>1. work \in Files /\ head \in Commit /\ \A c \in Commit : Tree[c] \in Files
    BY VisibleTypes DEF GraphIInv, GraphTypes
  <2>2. ASSUME NEW path \in Path, NEW content \in Content \union {None}, Edit(path, content)
        PROVE  work' \in Files /\ head' \in Commit
    BY <2>1, <2>2 DEF Edit, Files
  <2>3. ASSUME NEW c \in Commit, GitCommit(c) \/ CheckoutWork(c)
        PROVE  work' \in Files /\ head' \in Commit
    BY <2>1, <2>3 DEF GitCommit, CheckoutWork
  <2> QED
    BY <2>2, <2>3 DEF RepositoryChanges
<1>3. clock \in Nat /\ clock' \in 0..MaxChanges
  BY <1>1, GraphAssumption DEF GraphIInv, GraphTypes
<1>4. GraphTypes'
  BY <1>1, <1>2, <1>3 DEF GraphIInv, GraphTypes, Rebuilding
<1>5. Stored'
  BY <1>1, <1>3, StoredStays DEF GraphIInv
<1>6. ASSUME NEW p \in Process PROVE CallIsTrue(call[p])'
  <2>1. call'[p] = call[p] /\ CallIsTrue(call[p])
    BY <1>1 DEF GraphIInv
  <2>2. /\ \A x : PairIsTrue(x)' = PairIsTrue(x) /\ ManifestIsTrue(x)' = ManifestIsTrue(x)
        /\ \A x : IndexUntil(x)' = IndexUntil(x)
        /\ manifest' = manifest
    BY <1>1 DEF PairIsTrue, ManifestIsTrue, Visible, IndexUntil, stored
  <2>3. call[p].at \in Refreshing \union {"terms", "index"} =>
           /\ call[p].since \in Nat /\ call[p].since <= clock
           /\ call[p].since < clock'
    <3>1. call[p].at \in Refreshing \union {"terms", "index"} => call[p] \in GraphCalls
      BY GraphCallTypes DEF GraphIInv
    <3>2. call[p] \in GraphCalls => call[p].since \in Nat
      BY DEF GraphCalls
    <3> QED
      BY <1>1, <1>3, <2>1, <3>1, <3>2 DEF CallIsTrue
  <2>4. call[p].at \in {"read", "parse", "manifest"} => HashesAreTrue(call[p])'
    BY <2>1, <2>3, <1>3 DEF CallIsTrue, HashesAreTrue, Refreshing, Unread, Visible
  <2> QED
    BY <1>3, <2>1, <2>2, <2>3, <2>4 DEF CallIsTrue, Refreshing, NoFiles
<1> QED
  BY <1>4, <1>5, <1>6 DEF GraphIInv

\* Derived data is removed, or nothing happens.
LEMMA RemoveGraphInv ==
  ASSUME GraphIInv, RemoveGraph \/ UNCHANGED graphVars PROVE GraphIInv'
<1>1. /\ UNCHANGED <<world, manifest, cursor, index, call, graphLock, indexLock>>
      /\ \/ graph' = None /\ cache' = [c \in Content |-> None]
         \/ UNCHANGED <<graph, cache>>
  BY DEF RemoveGraph, graphVars, stored
<1>2. UNCHANGED <<work, head, clock>>
  BY <1>1 DEF world
<1>3. GraphTypes'
  BY <1>1, <1>2 DEF GraphIInv, GraphTypes, Rebuilding
<1>4. Stored'
  <2>1. ManifestIsTrue(manifest) => ManifestIsTrue(manifest)'
    BY <1>1 DEF ManifestIsTrue, Visible
  <2>2. IndexUntil(clock)'
    BY <1>1, <1>2 DEF GraphIInv, Stored, IndexUntil
  <2>3. /\ graph' \in Files \union {None} /\ cache' \in [Content -> Content \union {None}]
        /\ \A x \in Content : cache'[x] \in {None, x}
    BY <1>1 DEF GraphIInv, Stored
  <2> QED
    BY <1>1, <2>1, <2>2, <2>3 DEF GraphIInv, Stored
<1>5. \A p \in Process : CallIsTrue(call[p])'
  BY <1>1, CallStays DEF GraphIInv
<1> QED
  BY <1>3, <1>4, <1>5 DEF GraphIInv

-----------------------------------------------------------------------------
(* The graph: theorems. *)

\* Nothing is derived yet.
LEMMA GraphInitInv == GraphInit => GraphIInv
<1> SUFFICES ASSUME GraphInit PROVE GraphIInv
  OBVIOUS
<1>1. /\ work = Tree[Start] /\ head = Start /\ clock = 0
      /\ graph = None /\ manifest = None /\ cursor = Start
      /\ cache = [c \in Content |-> None] /\ index = [a \in Artifacts |-> None]
      /\ call = [p \in Process |-> Idle] /\ graphLock = None /\ indexLock = None
  BY DEF GraphInit
<1>2. /\ work \in Files /\ head \in Commit /\ clock \in 0..MaxChanges /\ None \notin Process
  BY <1>1, VisibleTypes, GraphAssumption, RepositoryAssumption
<1>3. Idle \in OtherCalls /\ Idle.at \notin Refreshing /\ ~ Rebuilding(Idle) /\ Idle.at = "idle"
  BY DEF OtherCalls, Idle, Refreshing, Rebuilding
<1>4. \A p \in Process : call[p] = Idle
  BY <1>1
<1>5. call \in [Process -> GraphCalls \union OtherCalls]
  BY <1>1, <1>3
<1>6. ASSUME NEW p \in Process
      PROVE  /\ (graphLock = p) = (call[p].at \in Refreshing)
             /\ (indexLock = p) = Rebuilding(call[p])
  <2>1. p # None /\ call[p] = Idle
    BY <1>2, <1>4
  <2>2. ~ (graphLock = p) /\ ~ (indexLock = p)
    BY <1>1, <2>1
  <2>3. (call[p].at \in Refreshing) = FALSE
    BY <1>3, <2>1
  <2>4. ~ Rebuilding(call[p])
    BY <1>3, <2>1
  <2>5. (graphLock = p) = FALSE /\ (indexLock = p) = FALSE
    BY <2>2
  <2>6. Rebuilding(call[p]) \in BOOLEAN
    BY DEF Rebuilding
  <2> QED
    BY <2>3, <2>4, <2>5, <2>6
<1>8. GraphTypes
  BY <1>1, <1>2, <1>5, <1>6 DEF GraphTypes
<1>9. Stored
  BY <1>1, GraphAssumption DEF Stored, IndexUntil
<1>10. CallIsTrue(Idle)
  BY <1>3 DEF CallIsTrue, Refreshing
<1> QED
  BY <1>4, <1>8, <1>9, <1>10 DEF GraphIInv

\* Every step keeps the invariant.
LEMMA GraphNextInv == GraphIInv /\ [GraphNext]_graphVars => GraphIInv'
<1> SUFFICES ASSUME GraphIInv, [GraphNext]_graphVars PROVE GraphIInv'
  OBVIOUS
<1>1. ASSUME NEW p \in Process,
             \/ BeginRebuild(p) \/ Status(p) \/ KeepGraph(p) \/ BeginParse(p)
             \/ ReadSource(p) \/ ReadCache(p) \/ Parse(p)
             \/ WriteGraph(p) \/ WriteManifest(p) \/ Finish(p)
      PROVE  GraphIInv'
  BY <1>1, BeginRebuildInv, StatusInv, KeepGraphInv, BeginParseInv, ReadSourceInv,
     ReadCacheInv, ParseInv, WriteGraphInv, WriteManifestInv, FinishInv
<1>2. ASSUME NEW p \in Process,
             \/ WriteTerms(p) \/ WriteIndex(p)
             \/ LoadManifest(p) \/ LoadGraph(p) \/ Return(p) \/ Stop(p)
      PROVE  GraphIInv'
  BY <1>2, WriteTermsInv, WriteIndexInv, LoadManifestInv, LoadGraphInv, ReturnInv, StopInv
<1>3. CASE RepositoryChanges
  BY <1>3, RepositoryChangesInv
<1>4. CASE RemoveGraph \/ UNCHANGED graphVars
  BY <1>4, RemoveGraphInv
<1> QED
  BY <1>1, <1>2, <1>3, <1>4 DEF GraphNext

\* What is stored and what each call has found go together in every state.
THEOREM GraphInvariant == GraphSpec => []GraphIInv
BY GraphInitInv, GraphNextInv, PTL DEF GraphSpec

\* A graph that is accepted is whole, and one that a refresh returns is of the work tree,
\* also when it was parsed by an earlier refresh (graph/engine.py:595).
THEOREM GraphIsReliable == GraphSpec => []GraphInv
<1>1. GraphIInv => GraphInv
  <2> SUFFICES ASSUME GraphIInv PROVE GraphInv
    OBVIOUS
  <2>1. GraphTypeOK
    BY DEF GraphIInv, GraphTypes, Stored, GraphTypeOK
  <2>2. AcceptedGraphsAreWhole
    <3>1. PairIsTrue(Pair(manifest, graph))
      BY PairTypes DEF GraphIInv, Stored
    <3>2. \A p \in Process : call[p].at = "loaded" => PairIsTrue(call[p].pair)
      BY DEF GraphIInv, CallIsTrue
    <3> QED
      BY <3>1, <3>2 DEF AcceptedGraphsAreWhole, PairIsTrue
  <2>3. RefreshIsCurrent
    BY DEF GraphIInv, CallIsTrue, RefreshIsCurrent
  <2> QED
    BY <2>1, <2>2, <2>3 DEF GraphInv
<1> QED
  BY <1>1, GraphInvariant, PTL

\* A refresh that returns has come to its end, and leaves the cursor at the commit of its graph.
LEMMA ReturnsAtTheEnd ==
  ASSUME GraphIInv, GraphNext, NEW p \in Process, call[p].at = "finish",
         call'[p].at \in {"returned", "terms"}
  PROVE  manifest' # None /\ cursor' = manifest'.head
<1>1. manifest # None /\ manifest.head = call[p].head /\ call \in [Process -> GraphCalls \union OtherCalls]
  BY DEF GraphIInv, CallIsTrue, GraphTypes
<1>2. ASSUME NEW q \in Process,
             \/ BeginRebuild(q) \/ Status(q) \/ KeepGraph(q) \/ BeginParse(q)
             \/ ReadSource(q) \/ ReadCache(q) \/ Parse(q)
             \/ WriteGraph(q) \/ WriteManifest(q)
      PROVE  FALSE
  <2>1. call[q].at # "finish" /\ q # p
    BY <1>2 DEF BeginRebuild, Status, KeepGraph, BeginParse, ReadSource, ReadCache, Parse,
       WriteGraph, WriteManifest, Idle
  <2>2. \E c : call' = [call EXCEPT ![q] = c]
    BY <1>2, Zenon DEF BeginRebuild, Status, KeepGraph, BeginParse, ReadSource, ReadCache, Parse,
       WriteGraph, WriteManifest, Set, Goto
  <2>3. call'[p] = call[p]
    BY <1>1, <2>1, <2>2
  <2> QED
    BY <2>3
<1>3. ASSUME NEW q \in Process,
             WriteTerms(q) \/ WriteIndex(q) \/ LoadManifest(q) \/ LoadGraph(q) \/ Return(q)
      PROVE  FALSE
  <2>1. call[q].at # "finish" /\ q # p
    BY <1>3 DEF WriteTerms, WriteIndex, LoadManifest, LoadGraph, Return, Idle
  <2>2. \E c : call' = [call EXCEPT ![q] = c]
    BY <1>3, Zenon DEF WriteTerms, WriteIndex, LoadManifest, LoadGraph, Return, Set, Goto
  <2>3. call'[p] = call[p]
    BY <1>1, <2>1, <2>2
  <2> QED
    BY <2>3
<1>4. ASSUME NEW q \in Process, Stop(q) PROVE FALSE
  <2>1. call'[p] = call[p] \/ call'[p] = Idle
    BY <1>1, <1>4 DEF Stop, Set
  <2> QED
    BY <2>1 DEF Idle
<1>5. ASSUME NEW q \in Process, Finish(q) PROVE manifest' # None /\ cursor' = manifest'.head
  <2>1. q = p
    <3>1. graphLock = p /\ (call[q].at = "finish" => graphLock = q)
      BY DEF GraphIInv, GraphTypes, Refreshing
    <3> QED
      BY <1>5, <3>1 DEF Finish
  <2> QED
    BY <1>1, <1>5, <2>1 DEF Finish
<1>6. CASE RepositoryChanges \/ RemoveGraph
  BY <1>6 DEF RepositoryChanges, RemoveGraph
<1> QED
  BY <1>2, <1>3, <1>4, <1>5, <1>6 DEF GraphNext

\* The index is written by a rebuild only, and by one that began after it.
LEMMA IndexGrows ==
  ASSUME GraphIInv, GraphNext, NEW a \in Artifacts, index[a] # None, index'[a] # None
  PROVE  index[a].since <= index'[a].since
<1>1. index[a].since \in Nat
  BY DEF GraphIInv, Stored, Builts
<1>2. CASE index' = index
  BY <1>1, <1>2
<1>3. ASSUME NEW p \in Process, WriteTerms(p) PROVE index[a].since <= index'[a].since
  <2>1. "terms" \in Artifacts
    BY DEF Artifacts
  <2> QED
    BY <1>3, <2>1, IndexWritten DEF WriteTerms
<1>4. ASSUME NEW p \in Process, WriteIndex(p) PROVE index[a].since <= index'[a].since
  <2>1. "manifest" \in Artifacts
    BY DEF Artifacts
  <2> QED
    BY <1>4, <2>1, IndexWritten DEF WriteIndex
<1>5. ASSUME NEW p \in Process,
             \/ BeginRebuild(p) \/ Status(p) \/ KeepGraph(p) \/ BeginParse(p)
             \/ ReadSource(p) \/ ReadCache(p) \/ Parse(p)
             \/ WriteGraph(p) \/ WriteManifest(p) \/ Finish(p)
             \/ LoadManifest(p) \/ LoadGraph(p) \/ Return(p) \/ Stop(p)
      PROVE  index' = index
  BY <1>5 DEF BeginRebuild, Status, KeepGraph, BeginParse, ReadSource, ReadCache, Parse,
     WriteGraph, WriteManifest, Finish, LoadManifest, LoadGraph, Return, Stop
<1>6. CASE RepositoryChanges \/ RemoveGraph
  BY <1>2, <1>6 DEF RepositoryChanges, RemoveGraph
<1> QED
  BY <1>2, <1>3, <1>4, <1>5, <1>6 DEF GraphNext

\* What is derived goes forward with the repository: the cursor follows the graph, whichever
\* way a refresh obtained it, and a rebuild never brings back an older index
\* (graph/engine.py:484, indexing/service.py:68).
THEOREM GraphAdvances == GraphSpec => GraphGoesForward
<1> DEFINE Cursor == [\A p \in Process :
              (call[p].at = "finish" /\ call'[p].at \in {"returned", "terms"})
                  => manifest' # None /\ cursor' = manifest'.head]_graphVars
           Grows == [\A a \in Artifacts : index[a] # None /\ index'[a] # None
                                => index[a].since <= index'[a].since]_graphVars
<1>1. GraphIInv /\ [GraphNext]_graphVars => Cursor
  BY ReturnsAtTheEnd
<1>2. GraphIInv /\ [GraphNext]_graphVars => Grows
  BY IndexGrows
<1> QED
  BY <1>1, <1>2, GraphInvariant, PTL
     DEF GraphSpec, GraphGoesForward, CursorFollowsGraph, IndexNeverGoesBack
=============================================================================
