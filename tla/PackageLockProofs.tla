-------------------------- MODULE PackageLockProofs --------------------------
(***************************************************************************)
(* Proofs about PackageLock for every set of dependencies, every set of    *)
(* manifests and any number of versions.                                   *)
(*                                                                         *)
(* SourcesMatchLock speaks of a command that is done; to get there the     *)
(* invariant follows one under way.  Context relates its copy of the lock  *)
(* to the file and to the manifest, and says that a copy that differs has  *)
(* a cause; Obtained says that the sources it has been through are what    *)
(* its copy says, which no later step of the command touches, as the       *)
(* dependencies it still works on are others; Position says what it is at  *)
(* and that an archive it unpacks is the locked one.  Intact is what       *)
(* survives kills: a marker is written only into a tree of that archive.   *)
(* That the files are whole is claimed only with CutShort = {}: work on    *)
(* them that ends half way leaves the HEAD or the marker over the rest.    *)
(***************************************************************************)
EXTENDS PackageLock, TLAPS

Working   == {"clone", "checkout", "download", "marker", "remove", "extract", "mark"}
Unpacking == {"marker", "remove", "extract", "mark"}
Active    == {"fetch", "write", "rename", "done"} \cup Working

Reasons ==
  {"", "malformed", "stale", "version", "offline", "network", "checkout", "checksum",
   "tar", "verify", "strict", "write"}
Commands ==
  [pc : {"idle", "prepare", "failed"} \cup Active, mode : Modes, todo : SUBSET Deps,
   partial : BOOLEAN, dep : Deps \cup {""}, entries : Lockfiles, observed : SUBSET Deps,
   dirty : BOOLEAN, why : Reasons]

WorldOK == manifest \in Manifests /\ up \in [Deps -> Versions]
DiskOK ==
  /\ lock \in {Missing} \cup Lockfiles
  /\ clone \in [GitDeps -> {Missing} \cup Checkouts]
  /\ tar \in [ArchiveDeps -> {Missing, Torn} \cup Versions]
  /\ tree \in [ArchiveDeps -> {Missing} \cup Trees]
Typed == WorldOK /\ DiskOK /\ cmd \in Commands

\* A marker is the checksum of the archive that was extracted; files are whole
\* unless work on them ends half way.
Intact ==
  /\ \A d \in ArchiveDeps : tree[d] # Missing =>
       /\ tree[d].marker # 0 => tree[d].version = tree[d].marker
       /\ CutShort = {} => tree[d].whole = TRUE
  /\ \A d \in GitDeps : clone[d] # Missing => (CutShort = {} => clone[d].whole = TRUE)

\* Why a command may replace the lockfile.
Cause ==
  \/ lock = Missing
  \/ \E d \in Declared(manifest) : ~Fits(lock, d)
  \/ DOMAIN lock \ Declared(manifest) # {}
  \/ \E d \in PathDeps \cap DOMAIN lock : lock[d].rev # up[d]

\* What a command that starts was asked to do.
Asked ==
  cmd.pc = "prepare" =>
    /\ cmd.todo \subseteq Declared(manifest) /\ cmd.observed = {}
    /\ cmd.partial = FALSE => cmd.todo = Declared(manifest)

\* The DependencyLockContext of a command that has read the lockfile.
Context ==
  cmd.pc \in Active =>
    /\ cmd.todo \subseteq Declared(manifest) /\ cmd.observed \subseteq Declared(manifest)
    /\ cmd.todo \cap cmd.observed = {}
    /\ cmd.partial = FALSE => Declared(manifest) \subseteq cmd.todo \cup cmd.observed
    /\ \A d \in DOMAIN cmd.entries \cap Declared(manifest) : cmd.entries[d].decl = manifest[d]
    /\ cmd.dirty = FALSE \/ cmd.mode \in Strict => Declared(manifest) \subseteq DOMAIN cmd.entries
    /\ cmd.dirty = FALSE => lock = cmd.entries
    /\ cmd.dirty = TRUE => cmd.pc = "done" \/ Cause
    /\ cmd.pc = "done" => lock = cmd.entries
    /\ cmd.pc \in {"write", "rename"} => cmd.mode = "normal"

\* The sources the command has been through are what its entries say.
Obtained ==
  cmd.pc \in Active => \A d \in cmd.observed :
    d \in DOMAIN cmd.entries /\ Version(d) = cmd.entries[d].rev

\* The dependency it is working on.
Position ==
  /\ cmd.pc \in Working => cmd.dep \in cmd.todo /\ cmd.mode # "verify"
  /\ cmd.pc \in {"clone", "checkout"} => cmd.dep \in GitDeps
  /\ cmd.pc \in {"download"} \cup Unpacking => cmd.dep \in ArchiveDeps
  /\ cmd.pc \in {"clone", "download"} => cmd.mode # "offline"
  /\ cmd.pc = "checkout" => clone[cmd.dep] # Missing
  /\ cmd.pc \in Unpacking =>
       /\ tar[cmd.dep] \in Versions
       /\ cmd.dep \in DOMAIN cmd.entries => tar[cmd.dep] = cmd.entries[cmd.dep].rev
  /\ cmd.pc = "mark" =>
       tree[cmd.dep] \in Trees /\ tree[cmd.dep].version = tar[cmd.dep]

PackageInv == Typed /\ Intact /\ Asked /\ Context /\ Obtained /\ Position

-----------------------------------------------------------------------------
LEMMA Constants ==
  /\ MaxVersion \in Nat \ {0} /\ 1 \in Versions /\ Versions \subseteq Nat /\ 0 \notin Versions
  /\ \A m \in Manifests : m \in [Deps -> Declarations]
  /\ GitDeps \cap ArchiveDeps = {} /\ PathDeps \cap GitDeps = {} /\ PathDeps \cap ArchiveDeps = {}
  /\ Missing # Torn
  /\ Missing \notin Versions /\ Torn \notin Versions
  /\ Missing \notin Lockfiles /\ Torn \notin Lockfiles
  /\ Missing \notin Checkouts /\ Torn \notin Checkouts
  /\ Missing \notin Trees /\ Torn \notin Trees
  BY PackageAssumption DEF PackageAssumption, Versions

LEMMA Entries ==
  ASSUME NEW e \in Lockfiles
  PROVE  /\ DOMAIN e \subseteq Deps
         /\ \A d \in DOMAIN e : e[d] \in Entry /\ e[d].rev \in Versions
         /\ e = [d \in DOMAIN e |-> e[d]]
<1>1. PICK S \in SUBSET Deps : e \in [S -> Entry]
  BY DEF Lockfiles
<1> QED
  BY <1>1 DEF Entry

LEMMA MakeEntries ==
  ASSUME NEW S \in SUBSET Deps, NEW f \in [S -> Entry]
  PROVE  f \in Lockfiles
  BY DEF Lockfiles

LEMMA NoEntriesFact == NoEntries \in Lockfiles /\ DOMAIN NoEntries = {}
<1>1. NoEntries \in [{} -> Entry] /\ DOMAIN NoEntries = {}
  BY DEF NoEntries
<1> QED
  BY <1>1, MakeEntries

LEMMA IdleFact == Idle \in Commands /\ Idle.pc = "idle"
<1>1. Idle.pc = "idle"
  BY DEF Idle
<1>2. /\ "normal" \in Modes /\ "" \in Reasons /\ "" \in Deps \cup {""} /\ {} \in SUBSET Deps
      /\ "idle" \in {"idle", "prepare", "failed"} \cup Active /\ FALSE \in BOOLEAN
  BY DEF Modes, Reasons
<1>3. Idle \in Commands
  BY <1>2, NoEntriesFact DEF Idle, Commands
<1> QED
  BY <1>1, <1>3

\* A source changes only where the command works.
LEMMA VersionKept ==
  ASSUME Typed, NEW d, NEW e \in Deps, e # d, up' = up,
         \A x \in GitDeps : x # d => clone'[x] = clone[x],
         \A x \in ArchiveDeps : x # d => tree'[x] = tree[x]
  PROVE  Version(e)' = Version(e)
<1>1. CASE e \in PathDeps
  BY <1>1 DEF Version
<1>2. CASE e \in GitDeps
  BY <1>2, Constants DEF Version
<1>3. CASE e \in ArchiveDeps
  BY <1>3, Constants DEF Version
<1> QED
  BY <1>1, <1>2, <1>3 DEF Deps


\* How the actions change the command.
Same(c) ==
  /\ c.mode = cmd.mode /\ c.todo = cmd.todo /\ c.partial = cmd.partial
  /\ c.entries = cmd.entries /\ c.observed = cmd.observed /\ c.dirty = cmd.dirty

LEMMA FailFact ==
  ASSUME cmd \in Commands, NEW why \in Reasons, Fail(why)
  PROVE  cmd' \in Commands /\ cmd'.pc = "failed"
  BY DEF Commands, Fail

LEMMA GotoFact ==
  ASSUME cmd \in Commands, NEW pc \in Active, Goto(pc)
  PROVE  cmd' \in Commands /\ cmd'.pc = pc /\ cmd'.dep = cmd.dep /\ Same(cmd')
  BY DEF Commands, Goto, Same

LEMMA WorkFact ==
  ASSUME cmd \in Commands, NEW pc \in Active, NEW d \in Deps, Work(d, pc)
  PROVE  cmd' \in Commands /\ cmd'.pc = pc /\ cmd'.dep = d /\ Same(cmd')
  BY DEF Commands, Work, Same

LEMMA RecordedFact ==
  ASSUME WorldOK, cmd \in Commands, NEW d \in Declared(manifest), NEW rev \in Versions,
         cmd' = Recorded(d, rev)
  PROVE  /\ cmd' \in Commands /\ cmd'.pc = "fetch" /\ cmd'.mode = cmd.mode
         /\ cmd'.todo = cmd.todo \ {d} /\ cmd'.observed = cmd.observed \cup {d}
         /\ cmd'.partial = cmd.partial
         /\ DOMAIN cmd'.entries = DOMAIN cmd.entries \cup {d}
         /\ cmd'.entries[d].decl = manifest[d] /\ cmd'.entries[d].rev = rev
         /\ \A e \in DOMAIN cmd.entries : e # d => cmd'.entries[e] = cmd.entries[e]
         /\ cmd.dirty = TRUE => cmd'.dirty = TRUE
         /\ cmd'.dirty = TRUE => \/ cmd.dirty = TRUE
                                 \/ d \notin DOMAIN cmd.entries
                                 \/ cmd.entries[d].decl # manifest[d]
                                 \/ cmd.entries[d].rev # rev
         /\ cmd'.dirty = FALSE => cmd'.entries = cmd.entries
<1>1. PICK new : new = [decl |-> manifest[d], rev |-> rev]
  OBVIOUS
<1>2. PICK ent : ent = [e \in DOMAIN cmd.entries \cup {d} |-> IF e = d THEN new ELSE cmd.entries[e]]
  OBVIOUS
<1>3. PICK dirty : dirty = (cmd.dirty \/ ~(d \in DOMAIN cmd.entries /\ cmd.entries[d] = new))
  OBVIOUS
<1>4. cmd' = [cmd EXCEPT !.pc = "fetch", !.todo = cmd.todo \ {d}, !.observed = cmd.observed \cup {d},
                         !.dirty = dirty, !.entries = ent]
  BY <1>1, <1>2, <1>3 DEF Recorded, Locked
<1>5. /\ d \in Deps /\ manifest[d] \in Declarations \ {"none"} /\ cmd.entries \in Lockfiles
      /\ cmd.dirty \in BOOLEAN /\ cmd.todo \subseteq Deps /\ cmd.observed \subseteq Deps
  <2>1. d \in Deps /\ manifest[d] # "none" /\ manifest \in [Deps -> Declarations]
    BY Constants DEF WorldOK, Declared
  <2>2. /\ cmd.entries \in Lockfiles /\ cmd.dirty \in BOOLEAN
        /\ cmd.todo \subseteq Deps /\ cmd.observed \subseteq Deps
    BY DEF Commands
  <2> QED
    BY <2>1, <2>2
<1>6. new \in Entry /\ new.decl = manifest[d] /\ new.rev = rev
  <2>1. new.decl = manifest[d] /\ new.rev = rev
    BY <1>1
  <2>2. new \in Entry
    BY <1>1, <1>5, Zenon DEF Entry
  <2> QED
    BY <2>1, <2>2
<1>7. ent \in Lockfiles /\ DOMAIN ent = DOMAIN cmd.entries \cup {d} /\ ent[d] = new
      /\ \A e \in DOMAIN cmd.entries : e # d => ent[e] = cmd.entries[e]
  <2>1. DOMAIN cmd.entries \cup {d} \in SUBSET Deps
        /\ \A e \in DOMAIN cmd.entries : cmd.entries[e] \in Entry
    BY <1>5, Entries
  <2>2. ent \in [DOMAIN cmd.entries \cup {d} -> Entry]
    BY <1>2, <1>6, <2>1
  <2> QED
    BY <1>2, <2>1, <2>2, MakeEntries
<1>8. dirty \in BOOLEAN
  BY <1>3
<1>9. cmd' \in Commands
  <2>1. /\ cmd.todo \ {d} \in SUBSET Deps /\ cmd.observed \cup {d} \in SUBSET Deps
        /\ "fetch" \in {"idle", "prepare", "failed"} \cup Active
    BY <1>5 DEF Active
  <2> QED
    BY <1>4, <1>7, <1>8, <2>1 DEF Commands
<1>10. /\ cmd'.pc = "fetch" /\ cmd'.mode = cmd.mode /\ cmd'.partial = cmd.partial
       /\ cmd'.todo = cmd.todo \ {d} /\ cmd'.observed = cmd.observed \cup {d}
       /\ cmd'.entries = ent /\ cmd'.dirty = dirty
  BY <1>4 DEF Commands
<1>11. dirty = FALSE => ent = cmd.entries
  <2> SUFFICES ASSUME dirty = FALSE PROVE ent = cmd.entries
    OBVIOUS
  <2>1. d \in DOMAIN cmd.entries /\ cmd.entries[d] = new
    BY <1>3
  <2>2. \A e \in DOMAIN cmd.entries \cup {d} :
          (IF e = d THEN new ELSE cmd.entries[e]) = cmd.entries[e]
    BY <2>1
  <2>3. DOMAIN cmd.entries \cup {d} = DOMAIN cmd.entries
    BY <2>1
  <2>4. cmd.entries = [e \in DOMAIN cmd.entries |-> cmd.entries[e]]
    BY <1>5, Entries
  <2> QED
    BY <1>2, <2>2, <2>3, <2>4
<1>12. cmd.dirty = TRUE => dirty = TRUE
  BY <1>3
<1>13. dirty = TRUE => \/ cmd.dirty = TRUE \/ d \notin DOMAIN cmd.entries
                       \/ cmd.entries[d].decl # manifest[d] \/ cmd.entries[d].rev # rev
  <2> SUFFICES ASSUME dirty = TRUE, cmd.dirty = FALSE, d \in DOMAIN cmd.entries
               PROVE  cmd.entries[d].decl # manifest[d] \/ cmd.entries[d].rev # rev
    BY <1>5
  <2>1. cmd.entries[d] # new
    BY <1>3
  <2>2. cmd.entries[d] \in Entry
    BY <1>5, Entries
  <2> QED
    BY <1>1, <2>1, <2>2 DEF Entry
<1> QED
  BY <1>6, <1>7, <1>9, <1>10, <1>11, <1>12, <1>13

-----------------------------------------------------------------------------
\* A command that has ended says nothing.
LEMMA OutsideInv ==
  ASSUME WorldOK', DiskOK', Intact', cmd' \in Commands, cmd'.pc \in {"idle", "failed"}
  PROVE  PackageInv'
  BY DEF PackageInv, Typed, Asked, Context, Obtained, Position, Active, Working, Unpacking

\* A step inside the work on the dependency d.
LEMMA MoveInv ==
  ASSUME PackageInv, NEW d \in cmd.todo, cmd.pc \in Active \ {"done", "write", "rename"},
         cmd' \in Commands, cmd'.pc \in Working, Same(cmd'), UNCHANGED <<world, lock>>,
         \A x \in GitDeps : x # d => clone'[x] = clone[x],
         \A x \in ArchiveDeps : x # d => tree'[x] = tree[x]
  PROVE  Context' /\ Obtained'
<1>1. UNCHANGED <<manifest, up>> /\ Declared(manifest)' = Declared(manifest)
  BY DEF world, Declared
<1>2. Cause' = Cause
  BY <1>1 DEF Cause, Fits
<1>3. Context'
  BY <1>1, <1>2 DEF PackageInv, Context, Same, Working, Active
<1>4. Obtained'
  <2> SUFFICES ASSUME NEW e \in cmd.observed
               PROVE  e \in DOMAIN cmd.entries
                      /\ Version(e)' = cmd.entries[e].rev
    BY DEF Obtained, Same
  <2>1. e \in Deps /\ e # d
    BY DEF PackageInv, Context, Typed, Commands
  <2>2. Version(e)' = Version(e)
    BY <1>1, <2>1, VersionKept DEF PackageInv
  <2> QED
    BY <2>2 DEF PackageInv, Obtained
<1> QED
  BY <1>3, <1>4

\* The work on d is done and recorded.
LEMMA RecordedInv ==
  ASSUME PackageInv, NEW d \in cmd.todo, NEW rev \in Versions,
         cmd.pc \in Active \ {"done", "write", "rename"}, cmd' = Recorded(d, rev),
         UNCHANGED <<world, lock>>, DiskOK', Intact',
         \A x \in GitDeps : x # d => clone'[x] = clone[x],
         \A x \in ArchiveDeps : x # d => tree'[x] = tree[x],
         Version(d)' = rev,
         d \in DOMAIN cmd.entries /\ cmd.entries[d].rev # rev => d \in PathDeps /\ rev = up[d]
  PROVE  PackageInv'
<1>1. /\ UNCHANGED <<manifest, up>> /\ Declared(manifest)' = Declared(manifest)
      /\ Typed /\ WorldOK' /\ d \in Declared(manifest)
  BY DEF world, Declared, PackageInv, Typed, WorldOK, Context
<1>2. Cause' = Cause
  BY <1>1 DEF Cause, Fits
<1>3. /\ cmd' \in Commands /\ cmd'.pc = "fetch" /\ cmd'.mode = cmd.mode
      /\ cmd'.todo = cmd.todo \ {d} /\ cmd'.observed = cmd.observed \cup {d}
      /\ cmd'.partial = cmd.partial
      /\ DOMAIN cmd'.entries = DOMAIN cmd.entries \cup {d}
      /\ cmd'.entries[d].decl = manifest[d] /\ cmd'.entries[d].rev = rev
      /\ \A e \in DOMAIN cmd.entries : e # d => cmd'.entries[e] = cmd.entries[e]
      /\ cmd.dirty = TRUE => cmd'.dirty = TRUE
      /\ cmd'.dirty = TRUE => \/ cmd.dirty = TRUE
                              \/ d \notin DOMAIN cmd.entries
                              \/ cmd.entries[d].decl # manifest[d]
                              \/ cmd.entries[d].rev # rev
      /\ cmd'.dirty = FALSE => cmd'.entries = cmd.entries
  BY <1>1, RecordedFact DEF Typed
<1>4. cmd.dirty \in BOOLEAN /\ cmd'.dirty \in BOOLEAN
  BY <1>1, <1>3 DEF Typed, Commands
<1>5. /\ cmd.todo \subseteq Declared(manifest) /\ cmd.observed \subseteq Declared(manifest)
      /\ cmd.todo \cap cmd.observed = {}
      /\ cmd.partial = FALSE => Declared(manifest) \subseteq cmd.todo \cup cmd.observed
      /\ \A e \in DOMAIN cmd.entries \cap Declared(manifest) : cmd.entries[e].decl = manifest[e]
      /\ cmd.dirty = FALSE \/ cmd.mode \in Strict => Declared(manifest) \subseteq DOMAIN cmd.entries
      /\ cmd.dirty = FALSE => lock = cmd.entries
      /\ cmd.dirty = TRUE => Cause
  BY DEF PackageInv, Context
<1>6. cmd'.dirty = TRUE => Cause
  <2> SUFFICES ASSUME cmd'.dirty = TRUE, cmd.dirty = FALSE PROVE Cause
    BY <1>4, <1>5
  <2>1. d \in DOMAIN cmd.entries /\ lock = cmd.entries /\ cmd.entries[d].decl = manifest[d]
    BY <1>1, <1>5
  <2>2. d \in PathDeps /\ lock[d].rev # up[d]
    BY <1>3, <2>1
  <2> QED
    BY <2>1, <2>2 DEF Cause
<1>7. Context'
  <2>1. \A e \in DOMAIN cmd'.entries \cap Declared(manifest) : cmd'.entries[e].decl = manifest[e]
    BY <1>3, <1>5
  <2>2. cmd'.dirty = FALSE => cmd.dirty = FALSE /\ lock = cmd'.entries
    BY <1>3, <1>4, <1>5
  <2>3. cmd'.dirty = FALSE \/ cmd'.mode \in Strict => Declared(manifest) \subseteq DOMAIN cmd'.entries
    BY <1>3, <1>5, <2>2
  <2>4. /\ cmd'.todo \subseteq Declared(manifest) /\ cmd'.observed \subseteq Declared(manifest)
        /\ cmd'.todo \cap cmd'.observed = {}
        /\ cmd'.partial = FALSE => Declared(manifest) \subseteq cmd'.todo \cup cmd'.observed
    BY <1>1, <1>3, <1>5
  <2> QED
    BY <1>1, <1>2, <1>3, <1>6, <2>1, <2>2, <2>3, <2>4 DEF Context
<1>8. Obtained'
  <2> SUFFICES ASSUME NEW e \in cmd.observed, e # d
               PROVE  /\ e \in DOMAIN cmd'.entries
                      /\ Version(e)' = cmd'.entries[e].rev
    BY <1>3 DEF Obtained
  <2>1. /\ e \in DOMAIN cmd.entries
        /\ Version(e) = cmd.entries[e].rev
    BY DEF PackageInv, Obtained
  <2>2. e \in Deps
    BY <1>1 DEF Typed, Commands
  <2>3. Version(e)' = Version(e)
    BY <1>1, <2>2, VersionKept
  <2> QED
    BY <1>3, <2>1, <2>3
<1>9. Position'
  BY <1>3 DEF Position, Working, Unpacking
<1> QED
  BY <1>1, <1>3, <1>7, <1>8, <1>9 DEF PackageInv, Typed, Asked

-----------------------------------------------------------------------------
LEMMA BeginInv ==
  ASSUME PackageInv, NEW mode \in Modes, NEW s \in SUBSET Declared(manifest), Begin(mode, s)
  PROVE  PackageInv'
<1>1. PICK part : part = (s # Declared(manifest))
  OBVIOUS
<1>2. part \in BOOLEAN /\ s \in SUBSET Deps /\ "prepare" \in {"idle", "prepare", "failed"} \cup Active
  BY <1>1 DEF Declared
<1>3. cmd' = [Idle EXCEPT !.pc = "prepare", !.mode = mode, !.todo = s, !.partial = part]
  BY <1>1 DEF Begin
<1>4. /\ cmd' \in Commands /\ cmd'.pc = "prepare" /\ cmd'.todo = s /\ cmd'.partial = part
      /\ cmd'.observed = {}
  BY <1>2, <1>3, IdleFact DEF Commands, Idle
<1>5. WorldOK' /\ DiskOK' /\ Intact' /\ Declared(manifest)' = Declared(manifest)
  BY DEF Begin, PackageInv, Typed, WorldOK, DiskOK, Intact, world, disk, Declared
<1>6. Asked'
  BY <1>1, <1>4, <1>5 DEF Asked
<1> QED
  BY <1>4, <1>5, <1>6 DEF PackageInv, Typed, Context, Obtained, Position, Active, Working, Unpacking

LEMMA FailInv ==
  ASSUME PackageInv, NEW why \in Reasons, Fail(why), WorldOK', DiskOK', Intact'
  PROVE  PackageInv'
  BY FailFact, OutsideInv DEF PackageInv, Typed

\* What the steps that do not touch a file, or the world, keep.
LEMMA WorldKept ==
  ASSUME PackageInv, UNCHANGED world
  PROVE  WorldOK' /\ UNCHANGED <<manifest, up>> /\ Declared(manifest)' = Declared(manifest)
  BY DEF PackageInv, Typed, WorldOK, world, Declared

LEMMA DiskKept ==
  ASSUME PackageInv, UNCHANGED disk
  PROVE  DiskOK' /\ Intact' /\ UNCHANGED <<lock, clone, tar, tree>>
  BY DEF PackageInv, Typed, DiskOK, Intact, disk

LEMMA PrepareInv ==
  ASSUME PackageInv, Prepare
  PROVE  PackageInv'
<1>1. PICK read : read = IF lock = Missing THEN NoEntries ELSE lock
  OBVIOUS
<1>2. PICK stale : stale = (\E d \in Declared(manifest) : ~Fits(read, d))
  OBVIOUS
<1>3. /\ WorldOK' /\ DiskOK' /\ Intact' /\ UNCHANGED <<manifest, up, lock, clone, tar, tree>>
      /\ Declared(manifest)' = Declared(manifest)
  BY WorldKept, DiskKept DEF Prepare
<1>4. cmd \in Commands /\ cmd.pc = "prepare" /\ lock \in {Missing} \cup Lockfiles /\ lock # Torn
  BY Constants DEF PackageInv, Typed, DiskOK, Prepare, At
<1>5. CASE cmd.mode \in Strict /\ (lock = Missing \/ stale)
  <2>1. Fail("stale")
    BY <1>1, <1>2, <1>4, <1>5 DEF Prepare
  <2> QED
    BY <1>3, <2>1, FailInv DEF Reasons
<1>6. CASE ~(cmd.mode \in Strict /\ (lock = Missing \/ stale))
  <2>1. PICK ent : ent = IF stale THEN NoEntries ELSE read
    OBVIOUS
  <2>2. PICK dirty : dirty = (stale \/ lock = Missing)
    OBVIOUS
  <2>3. cmd' = [cmd EXCEPT !.pc = "fetch", !.entries = ent, !.dirty = dirty]
    BY <1>1, <1>2, <1>4, <1>6, <2>1, <2>2 DEF Prepare
  <2>4. ent \in Lockfiles /\ dirty \in BOOLEAN /\ stale \in BOOLEAN
    BY <1>1, <1>2, <1>4, <2>1, <2>2, NoEntriesFact
  <2>5. cmd' \in Commands
    <3>1. "fetch" \in {"idle", "prepare", "failed"} \cup Active
      BY DEF Active
    <3> QED
      BY <1>4, <2>3, <2>4, <3>1 DEF Commands
  <2>6. /\ cmd'.pc = "fetch" /\ cmd'.entries = ent /\ cmd'.dirty = dirty /\ cmd'.mode = cmd.mode
        /\ cmd'.todo = cmd.todo /\ cmd'.partial = cmd.partial /\ cmd'.observed = cmd.observed
    BY <1>4, <2>3 DEF Commands
  <2>7. /\ cmd.todo \subseteq Declared(manifest) /\ cmd.observed = {}
        /\ cmd.partial = FALSE => cmd.todo = Declared(manifest)
    BY <1>4 DEF PackageInv, Asked
  <2>8. ~stale => \A d \in Declared(manifest) : d \in DOMAIN ent /\ ent[d].decl = manifest[d]
    BY <1>2, <2>1 DEF Fits
  <2>9. stale => DOMAIN ent = {}
    BY <2>1, NoEntriesFact
  <2>10. dirty = FALSE => lock = ent /\ ~stale
    BY <1>1, <2>1, <2>2
  <2>11. dirty = TRUE => Cause
    BY <1>1, <1>2, <2>2 DEF Cause
  <2>12. Cause' = Cause
    BY <1>3 DEF Cause, Fits
  <2>13. cmd.mode \in Strict => ~stale
    BY <1>6
  <2>14. Context'
    <3>1. \A d \in DOMAIN ent \cap Declared(manifest) : ent[d].decl = manifest[d]
      BY <2>8, <2>9
    <3>2. dirty = FALSE \/ cmd.mode \in Strict => Declared(manifest) \subseteq DOMAIN ent
      BY <2>8, <2>10, <2>13
    <3> QED
      BY <1>3, <2>6, <2>7, <2>10, <2>11, <2>12, <3>1, <3>2 DEF Context
  <2>15. Obtained' /\ Position' /\ Asked'
    BY <2>6, <2>7 DEF Obtained, Position, Asked, Working, Unpacking
  <2> QED
    BY <1>3, <2>5, <2>14, <2>15 DEF PackageInv, Typed
<1> QED
  BY <1>5, <1>6

LEMMA FetchPathInv ==
  ASSUME PackageInv, NEW d \in Deps, FetchPath(d)
  PROVE  PackageInv'
<1>1. /\ WorldOK' /\ DiskOK' /\ Intact' /\ UNCHANGED <<manifest, up, lock, clone, tar, tree>>
  BY WorldKept, DiskKept DEF FetchPath
<1>2. cmd.pc = "fetch" /\ d \in cmd.todo /\ d \in PathDeps /\ up[d] \in Versions
  BY DEF FetchPath, Fetching, At, PackageInv, Typed, WorldOK
<1>3. CASE Fail("version")
  BY <1>1, <1>3, FailInv DEF Reasons
<1>4. CASE cmd' = Recorded(d, up[d])
  <2>1. Version(d)' = up[d]
    BY <1>1, <1>2, Constants DEF Version
  <2>2. cmd.pc \in Active \ {"done", "write", "rename"} /\ UNCHANGED <<world, lock>>
    BY <1>1, <1>2 DEF Active, FetchPath
  <2> QED
    BY <1>1, <1>2, <1>4, <2>1, <2>2, RecordedInv
<1> QED
  BY <1>3, <1>4 DEF FetchPath

-----------------------------------------------------------------------------
\* A step that only rewrites the checkout of d.
LEMMA CloneDisk ==
  ASSUME PackageInv, NEW d \in GitDeps, NEW c \in {Missing} \cup Checkouts,
         c # Missing => (CutShort = {} => c.whole = TRUE),
         clone' = [clone EXCEPT ![d] = c], UNCHANGED <<lock, tar, tree>>
  PROVE  /\ DiskOK' /\ Intact' /\ clone'[d] = c
         /\ \A x \in GitDeps : x # d => clone'[x] = clone[x]
         /\ \A x \in ArchiveDeps : x # d => tree'[x] = tree[x]
<1>1. DiskOK
  BY DEF PackageInv, Typed
<1>2. DiskOK' /\ clone'[d] = c /\ \A x \in GitDeps : x # d => clone'[x] = clone[x]
  BY <1>1 DEF DiskOK
<1> QED
  BY <1>2 DEF PackageInv, Intact

LEMMA CloneOfFact ==
  /\ EmptyClone \in Checkouts /\ EmptyClone.whole = TRUE
  /\ \A v \in Versions : CloneOf(v) \in Checkouts /\ CloneOf(v).whole = TRUE
<1>1. 0 \in 0 .. MaxVersion /\ Versions \subseteq 0 .. MaxVersion
  BY Constants DEF Versions
<1> QED
  BY <1>1 DEF EmptyClone, CloneOf, Checkouts

\* What git leaves when it is stopped while it works on the dependency.
LEMMA UnfinishedFact ==
  ASSUME PackageInv, cmd.pc \in {"clone", "checkout"}, NEW left \in Unfinished(cmd.dep)
  PROVE  /\ left \in {Missing} \cup Checkouts
         /\ left # Missing => (CutShort = {} => left.whole = TRUE)
         /\ cmd.pc = "checkout" => left # Missing /\ left.knows = clone[cmd.dep].knows
<1>1. PICK d : d = cmd.dep
  OBVIOUS
<1>2. d \in GitDeps /\ up[d] \in Versions /\ clone[d] \in {Missing} \cup Checkouts
      /\ (cmd.pc = "checkout" => clone[d] \in Checkouts)
      /\ (clone[d] # Missing => (CutShort = {} => clone[d].whole = TRUE))
  BY <1>1 DEF PackageInv, Typed, WorldOK, DiskOK, Position, Intact, Deps
<1>3. PICK behind : behind = IF cmd.pc = "clone" THEN CloneOf(up[d]) ELSE clone[d]
  OBVIOUS
<1>4. behind \in Checkouts
  BY <1>2, <1>3, CloneOfFact
<1>5. \/ left \in (IF cmd.pc = "clone" THEN {Missing, EmptyClone} ELSE {clone[d]})
      \/ CutShort # {} /\ left = [behind EXCEPT !.whole = FALSE]
  BY <1>1, <1>3 DEF Unfinished, At
<1>6. CASE left \in (IF cmd.pc = "clone" THEN {Missing, EmptyClone} ELSE {clone[d]})
  BY <1>1, <1>2, <1>6, CloneOfFact, Constants
<1>7. CASE CutShort # {} /\ left = [behind EXCEPT !.whole = FALSE]
  <2>1. left \in Checkouts /\ left.knows = behind.knows
    BY <1>4, <1>7 DEF Checkouts
  <2> QED
    BY <1>1, <1>3, <1>7, <2>1, Constants
<1> QED
  BY <1>5, <1>6, <1>7

LEMMA CloneInv ==
  ASSUME PackageInv, NEW d \in Deps, Clone(d)
  PROVE  PackageInv'
<1>1. /\ WorldOK' /\ UNCHANGED <<world, manifest, up, lock, tar, tree>> /\ cmd.pc = "fetch"
      /\ d \in cmd.todo /\ d \in GitDeps /\ cmd.mode # "verify" /\ cmd \in Commands
  BY WorldKept DEF Clone, Fetching, At, PackageInv, Typed
<1>2. CASE cmd.mode = "offline"
  <2>1. Fail("offline") /\ UNCHANGED disk
    BY <1>1, <1>2 DEF Clone, disk
  <2> QED
    BY <1>1, <2>1, FailInv, DiskKept DEF Reasons
<1>3. CASE cmd.mode # "offline"
  <2>1. Work(d, "clone") /\ clone' = [clone EXCEPT ![d] = EmptyClone]
    BY <1>3 DEF Clone
  <2>2. /\ DiskOK' /\ Intact' /\ \A x \in GitDeps : x # d => clone'[x] = clone[x]
        /\ \A x \in ArchiveDeps : x # d => tree'[x] = tree[x]
    BY <1>1, <2>1, CloneOfFact, CloneDisk
  <2>3. cmd' \in Commands /\ cmd'.pc = "clone" /\ cmd'.dep = d /\ Same(cmd')
    BY <1>1, <2>1, WorkFact DEF Active, Working
  <2>4. Context' /\ Obtained'
    BY <1>1, <2>2, <2>3, MoveInv DEF Active, Working
  <2>5. Position' /\ Asked'
    BY <1>1, <1>3, <2>3 DEF Position, Asked, Same, Unpacking
  <2> QED
    BY <1>1, <2>2, <2>3, <2>4, <2>5 DEF PackageInv, Typed
<1> QED
  BY <1>2, <1>3

LEMMA ClonedInv ==
  ASSUME PackageInv, NEW ok \in BOOLEAN, Cloned(ok)
  PROVE  PackageInv'
<1>1. /\ WorldOK' /\ UNCHANGED <<world, manifest, up, lock, tar, tree>> /\ cmd.pc = "clone"
      /\ cmd.dep \in cmd.todo /\ cmd.dep \in GitDeps /\ cmd.mode # "verify" /\ cmd \in Commands
  BY WorldKept DEF Cloned, At, PackageInv, Typed, Position, Working
<1>2. CloneOf(up[cmd.dep]) \in Checkouts /\ CloneOf(up[cmd.dep]).whole = TRUE
  BY <1>1, CloneOfFact DEF PackageInv, Typed, WorldOK, Deps
<1>3. CASE ok = FALSE
  <2>1. Fail("network") /\ \E left \in Unfinished(cmd.dep) : clone' = [clone EXCEPT ![cmd.dep] = left]
    BY <1>3 DEF Cloned
  <2>2. DiskOK' /\ Intact'
    BY <1>1, <2>1, UnfinishedFact, CloneDisk
  <2> QED
    BY <1>1, <2>1, <2>2, FailInv DEF Reasons
<1>4. CASE ok = TRUE
  <2>1. Goto("checkout") /\ clone' = [clone EXCEPT ![cmd.dep] = CloneOf(up[cmd.dep])]
    BY <1>4 DEF Cloned
  <2>2. /\ DiskOK' /\ Intact' /\ clone'[cmd.dep] = CloneOf(up[cmd.dep])
        /\ \A x \in GitDeps : x # cmd.dep => clone'[x] = clone[x]
        /\ \A x \in ArchiveDeps : x # cmd.dep => tree'[x] = tree[x]
    BY <1>1, <1>2, <2>1, CloneDisk
  <2>3. cmd' \in Commands /\ cmd'.pc = "checkout" /\ cmd'.dep = cmd.dep /\ Same(cmd')
    BY <1>1, <2>1, GotoFact DEF Active, Working
  <2>4. Context' /\ Obtained'
    BY <1>1, <2>2, <2>3, MoveInv DEF Active, Working
  <2>5. Position' /\ Asked'
    BY <1>1, <1>2, <2>2, <2>3, Constants DEF Position, Asked, Same, Unpacking
  <2> QED
    BY <1>1, <2>2, <2>3, <2>4, <2>5 DEF PackageInv, Typed
<1> QED
  BY <1>3, <1>4

LEMMA RefetchInv ==
  ASSUME PackageInv, NEW d \in Deps, NEW ok \in BOOLEAN, Refetch(d, ok)
  PROVE  PackageInv'
<1>1. /\ WorldOK' /\ UNCHANGED <<world, manifest, up, lock, tar, tree>> /\ cmd.pc = "fetch"
      /\ d \in cmd.todo /\ d \in GitDeps /\ cmd.mode # "verify" /\ cmd \in Commands
      /\ clone[d] \in Checkouts /\ (CutShort = {} => clone[d].whole = TRUE) /\ up[d] \in Versions
  BY WorldKept DEF Refetch, Fetching, At, PackageInv, Typed, DiskOK, WorldOK, Intact
<1>2. \/ Fail("network") /\ UNCHANGED clone
      \/ Work(d, "checkout") /\ \E c \in {clone[d], [clone[d] EXCEPT !.knows = up[d]]} :
                                  clone' = [clone EXCEPT ![d] = c]
  <2>1. clone = [clone EXCEPT ![d] = clone[d]]
    BY <1>1 DEF PackageInv, Typed, DiskOK
  <2> QED
    BY <2>1 DEF Refetch
<1>3. ASSUME NEW c \in {clone[d], [clone[d] EXCEPT !.knows = up[d]]}
      PROVE  c \in Checkouts /\ (CutShort = {} => c.whole = TRUE)
  <2>1. up[d] \in 0 .. MaxVersion
    BY <1>1, Constants DEF Versions
  <2> QED
    BY <1>1, <2>1 DEF Checkouts
<1>4. CASE Fail("network") /\ UNCHANGED clone
  <2>1. UNCHANGED disk
    BY <1>1, <1>4 DEF disk
  <2> QED
    BY <1>1, <1>4, <2>1, FailInv, DiskKept DEF Reasons
<1>5. ASSUME Work(d, "checkout"),
             NEW c \in {clone[d], [clone[d] EXCEPT !.knows = up[d]]},
             clone' = [clone EXCEPT ![d] = c]
      PROVE  PackageInv'
  <2>2. /\ DiskOK' /\ Intact' /\ clone'[d] = c
        /\ \A x \in GitDeps : x # d => clone'[x] = clone[x]
        /\ \A x \in ArchiveDeps : x # d => tree'[x] = tree[x]
    BY <1>1, <1>3, <1>5, CloneDisk
  <2>3. cmd' \in Commands /\ cmd'.pc = "checkout" /\ cmd'.dep = d /\ Same(cmd')
    BY <1>1, <1>5, WorkFact DEF Active, Working
  <2>4. Context' /\ Obtained'
    BY <1>1, <2>2, <2>3, MoveInv DEF Active, Working
  <2>5. Position' /\ Asked'
    BY <1>1, <1>3, <2>2, <2>3, Constants DEF Position, Asked, Same, Unpacking
  <2> QED
    BY <1>1, <2>2, <2>3, <2>4, <2>5 DEF PackageInv, Typed
<1> QED
  BY <1>2, <1>4, <1>5

LEMMA CheckoutInv ==
  ASSUME PackageInv, NEW ok \in BOOLEAN, Checkout(ok)
  PROVE  PackageInv'
<1>1. /\ WorldOK' /\ UNCHANGED <<world, manifest, up, lock, tar, tree>> /\ cmd.pc = "checkout"
      /\ cmd.dep \in cmd.todo /\ cmd.dep \in GitDeps /\ cmd \in Commands
      /\ clone[cmd.dep] \in Checkouts /\ (CutShort = {} => clone[cmd.dep].whole = TRUE)
  BY WorldKept DEF Checkout, At, PackageInv, Typed, DiskOK, Position, Working, Intact
<1>2. CASE ok = FALSE
  <2>1. /\ Fail("checkout")
        /\ \E left \in Unfinished(cmd.dep) : clone' = [clone EXCEPT ![cmd.dep] = left]
    BY <1>2 DEF Checkout
  <2>2. DiskOK' /\ Intact'
    BY <1>1, <2>1, UnfinishedFact, CloneDisk
  <2> QED
    BY <1>1, <2>1, <2>2, FailInv DEF Reasons
<1>3. CASE ok = TRUE
  <2>1. PICK d, rev : d = cmd.dep /\ rev = Revision(cmd.dep)
    OBVIOUS
  <2>2. clone[d] \in Checkouts /\ d \in cmd.todo /\ d \in GitDeps
    BY <1>1, <2>1
  <2>3. PICK whole \in {clone[d].whole, TRUE} :
          clone' = [clone EXCEPT ![d].head = rev, ![d].whole = whole]
    BY <1>3, <2>1 DEF Checkout
  <2>4. /\ rev \in Versions /\ rev \in 0 .. MaxVersion
        /\ d \in DOMAIN cmd.entries => rev = cmd.entries[d].rev
    <3>1. rev \in 1 .. clone[d].knows /\ clone[d].knows \in 0 .. MaxVersion
      BY <1>3, <2>1, <2>2 DEF Checkout, Checkouts
    <3> QED
      BY <2>1, <3>1, Constants DEF Revision, Locked, Versions
  <2>5. PICK c : c = [clone[d] EXCEPT !.head = rev, !.whole = whole]
    OBVIOUS
  <2>6. c \in Checkouts /\ c.head = rev /\ c.whole = whole
    BY <2>2, <2>3, <2>4, <2>5 DEF Checkouts
  <2>7. clone' = [clone EXCEPT ![d] = c]
    <3>1. clone \in [GitDeps -> {Missing} \cup Checkouts]
      BY DEF PackageInv, Typed, DiskOK
    <3> QED
      BY <2>2, <2>3, <2>5, <3>1 DEF Checkouts
  <2>8. /\ DiskOK' /\ Intact' /\ clone'[d] = c
        /\ \A x \in GitDeps : x # d => clone'[x] = clone[x]
        /\ \A x \in ArchiveDeps : x # d => tree'[x] = tree[x]
    BY <1>1, <2>1, <2>2, <2>3, <2>6, <2>7, CloneDisk
  <2>9. Version(d)' = rev
    BY <2>2, <2>6, <2>8, Constants DEF Version
  <2>10. cmd' = Recorded(d, rev) /\ cmd.pc \in Active \ {"done", "write", "rename"}
    BY <1>1, <1>3, <2>1 DEF Checkout, Active, Working
  <2> QED
    BY <1>1, <2>2, <2>4, <2>8, <2>9, <2>10, RecordedInv
<1> QED
  BY <1>2, <1>3

-----------------------------------------------------------------------------
\* A step that only rewrites the archive of d.
LEMMA TarDisk ==
  ASSUME PackageInv, NEW d \in ArchiveDeps, NEW v \in {Missing, Torn} \cup Versions,
         tar' = [tar EXCEPT ![d] = v], UNCHANGED <<lock, clone, tree>>
  PROVE  DiskOK' /\ Intact' /\ tar'[d] = v
<1>1. DiskOK' /\ tar'[d] = v
  BY DEF PackageInv, Typed, DiskOK
<1> QED
  BY <1>1 DEF PackageInv, Intact

\* A step that only rewrites the extracted tree of d, by one that is whole and
\* whose marker, if it has one, is right.
LEMMA TreeDisk ==
  ASSUME PackageInv, NEW d \in ArchiveDeps, NEW t \in {Missing} \cup Trees,
         tree' = [tree EXCEPT ![d] = t], UNCHANGED <<lock, clone, tar>>,
         t # Missing => /\ t.marker # 0 => t.version = t.marker
                        /\ CutShort = {} => t.whole = TRUE
  PROVE  /\ DiskOK' /\ Intact' /\ tree'[d] = t
         /\ \A x \in ArchiveDeps : x # d => tree'[x] = tree[x]
<1>1. DiskOK
  BY DEF PackageInv, Typed
<1>2. DiskOK' /\ tree'[d] = t /\ \A x \in ArchiveDeps : x # d => tree'[x] = tree[x]
  BY <1>1 DEF DiskOK
<1>3. Intact'
  BY <1>2 DEF PackageInv, Intact
<1> QED
  BY <1>2, <1>3

LEMMA CachedInv ==
  ASSUME PackageInv, NEW d \in Deps, Cached(d)
  PROVE  PackageInv'
<1>1. /\ WorldOK' /\ UNCHANGED <<world, manifest, up, lock, clone, tree>> /\ cmd.pc = "fetch"
      /\ d \in cmd.todo /\ d \in ArchiveDeps /\ cmd.mode # "verify" /\ cmd \in Commands
      /\ tar[d] \in {Missing, Torn} \cup Versions
  BY WorldKept DEF Cached, Fetching, At, PackageInv, Typed, DiskOK
<1>2. CASE CacheMatches(d)
  <2>1. Work(d, "marker") /\ UNCHANGED disk
    BY <1>1, <1>2 DEF Cached, disk
  <2>2. DiskOK' /\ Intact' /\ UNCHANGED <<clone, tar, tree>>
    BY <2>1, DiskKept
  <2>3. cmd' \in Commands /\ cmd'.pc = "marker" /\ cmd'.dep = d /\ Same(cmd')
    BY <1>1, <2>1, WorkFact DEF Active, Working
  <2>4. Context' /\ Obtained'
    BY <1>1, <2>2, <2>3, MoveInv DEF Active, Working
  <2>5. d \in DOMAIN cmd.entries /\ tar[d] = cmd.entries[d].rev
    <3>1. d \in DOMAIN cmd.entries \/ cmd.dirty = FALSE
      BY <1>1, <1>2 DEF CacheMatches, Locked, Commands
    <3>2. d \in DOMAIN cmd.entries
      BY <1>1, <3>1 DEF PackageInv, Context, Active
    <3> QED
      BY <1>2, <3>2 DEF CacheMatches, Locked
  <2>6. tar[d] \in Versions
    <3>1. cmd.entries \in Lockfiles
      BY <1>1 DEF Commands
    <3> QED
      BY <2>5, <3>1, Entries
  <2>7. Position' /\ Asked'
    BY <1>1, <2>2, <2>3, <2>5, <2>6 DEF Position, Asked, Same, Unpacking
  <2> QED
    BY <1>1, <2>2, <2>3, <2>4, <2>7 DEF PackageInv, Typed
<1>3. CASE ~CacheMatches(d) /\ cmd.mode = "offline"
  <2>1. Fail("offline") /\ UNCHANGED disk
    BY <1>1, <1>3 DEF Cached, disk
  <2> QED
    BY <1>1, <2>1, FailInv, DiskKept DEF Reasons
<1>4. CASE ~CacheMatches(d) /\ cmd.mode # "offline"
  <2>1. Work(d, "download") /\ tar' = [tar EXCEPT ![d] = Torn]
    BY <1>4 DEF Cached
  <2>2. DiskOK' /\ Intact'
    BY <1>1, <2>1, TarDisk
  <2>3. cmd' \in Commands /\ cmd'.pc = "download" /\ cmd'.dep = d /\ Same(cmd')
    BY <1>1, <2>1, WorkFact DEF Active, Working
  <2>4. Context' /\ Obtained'
    BY <1>1, <2>3, MoveInv DEF Active, Working
  <2>5. Position' /\ Asked'
    BY <1>1, <1>4, <2>3 DEF Position, Asked, Same, Unpacking
  <2> QED
    BY <1>1, <2>2, <2>3, <2>4, <2>5 DEF PackageInv, Typed
<1> QED
  BY <1>2, <1>3, <1>4

LEMMA DownloadedInv ==
  ASSUME PackageInv, NEW ok \in BOOLEAN, Downloaded(ok)
  PROVE  PackageInv'
<1>1. /\ WorldOK' /\ UNCHANGED <<world, manifest, up, lock, clone, tree>> /\ cmd.pc = "download"
      /\ cmd.dep \in cmd.todo /\ cmd.dep \in ArchiveDeps /\ cmd.mode # "verify"
      /\ cmd \in Commands
  BY WorldKept DEF Downloaded, At, PackageInv, Typed, Position, Working
<1>2. Wanted(cmd.dep) \in Versions
  BY <1>1, Constants DEF Wanted, PackageInv, Typed, WorldOK, Deps
<1>3. DiskOK' /\ Intact' /\ (ok => tar'[cmd.dep] = Wanted(cmd.dep))
  <2>1. CASE ok
    BY <1>1, <1>2, <2>1, TarDisk DEF Downloaded
  <2>2. CASE ~ok
    <3>1. UNCHANGED disk
      BY <1>1, <2>2 DEF Downloaded, disk
    <3> QED
      BY <2>2, <3>1, DiskKept
  <2> QED
    BY <2>1, <2>2
<1>4. CASE \E why \in {"network", "checksum"} : Fail(why)
  BY <1>1, <1>3, <1>4, FailInv DEF Reasons
<1>5. CASE ok /\ ~(Locked(cmd.dep) /\ cmd.entries[cmd.dep].rev # Wanted(cmd.dep)) /\ Goto("marker")
  <2>1. cmd' \in Commands /\ cmd'.pc = "marker" /\ cmd'.dep = cmd.dep /\ Same(cmd')
    BY <1>1, <1>5, GotoFact DEF Active, Working
  <2>2. Context' /\ Obtained'
    BY <1>1, <2>1, MoveInv DEF Active, Working
  <2>3. /\ tar'[cmd.dep] \in Versions
        /\ cmd.dep \in DOMAIN cmd.entries => tar'[cmd.dep] = cmd.entries[cmd.dep].rev
    BY <1>2, <1>3, <1>5 DEF Locked
  <2>4. Position' /\ Asked'
    BY <1>1, <2>1, <2>3 DEF Position, Asked, Same, Unpacking
  <2> QED
    BY <1>1, <1>3, <2>1, <2>2, <2>4 DEF PackageInv, Typed
<1> QED
  BY <1>4, <1>5 DEF Downloaded

\* The state in which an archive is unpacked.
LEMMA UnpackingFact ==
  ASSUME PackageInv, cmd.pc \in Unpacking
  PROVE  /\ cmd.dep \in cmd.todo /\ cmd.dep \in ArchiveDeps /\ cmd.mode # "verify"
         /\ cmd \in Commands /\ tar[cmd.dep] \in Versions /\ tar[cmd.dep] # 0
         /\ cmd.dep \in DOMAIN cmd.entries => tar[cmd.dep] = cmd.entries[cmd.dep].rev
         /\ tree[cmd.dep] \in {Missing} \cup Trees
         /\ cmd.pc \in Active \ {"done", "write", "rename"}
<1>1. cmd.pc \in Working /\ cmd.pc \in Active \ {"done", "write", "rename"}
  BY DEF Unpacking, Working, Active
<1>2. /\ cmd.dep \in cmd.todo /\ cmd.dep \in ArchiveDeps /\ cmd.mode # "verify"
      /\ cmd \in Commands /\ tar[cmd.dep] \in Versions
      /\ cmd.dep \in DOMAIN cmd.entries => tar[cmd.dep] = cmd.entries[cmd.dep].rev
  BY <1>1 DEF PackageInv, Typed, Position
<1>3. tree[cmd.dep] \in {Missing} \cup Trees
  BY <1>2 DEF PackageInv, Typed, DiskOK
<1> QED
  BY <1>1, <1>2, <1>3, Constants

LEMMA MarkerInv ==
  ASSUME PackageInv, Marker
  PROVE  PackageInv'
<1>1. /\ WorldOK' /\ DiskOK' /\ Intact' /\ UNCHANGED <<world, manifest, up, lock, clone, tar, tree>>
      /\ cmd.pc = "marker" /\ cmd.pc \in Unpacking
  BY WorldKept, DiskKept DEF Marker, At, Unpacking
<1>2. /\ cmd.dep \in cmd.todo /\ cmd.dep \in ArchiveDeps /\ cmd.mode # "verify"
      /\ cmd \in Commands /\ tar[cmd.dep] \in Versions /\ tar[cmd.dep] # 0
      /\ cmd.dep \in DOMAIN cmd.entries => tar[cmd.dep] = cmd.entries[cmd.dep].rev
      /\ tree[cmd.dep] \in {Missing} \cup Trees
      /\ cmd.pc \in Active \ {"done", "write", "rename"}
  BY <1>1, UnpackingFact
<1>3. CASE tree[cmd.dep] # Missing /\ tree[cmd.dep].marker = tar[cmd.dep]
  <2>1. cmd' = Recorded(cmd.dep, tar[cmd.dep])
    BY <1>3 DEF Marker
  <2>2. tree[cmd.dep].version = tar[cmd.dep]
    BY <1>2, <1>3 DEF PackageInv, Intact
  <2>3. PICK d : d = cmd.dep
    OBVIOUS
  <2>4. Version(d)' = tar[d]
    <3>1. Version(d)' = IF tree[d] = Missing THEN 0 ELSE tree[d].version
      BY <1>1, <1>2, <2>3, Constants DEF Version
    <3> QED
      BY <1>3, <2>2, <2>3, <3>1
  <2>5. d \in cmd.todo /\ tar[d] \in Versions /\ cmd' = Recorded(d, tar[d])
        /\ (d \in DOMAIN cmd.entries => tar[d] = cmd.entries[d].rev)
    BY <1>2, <2>1, <2>3
  <2> QED
    BY <1>1, <1>2, <2>4, <2>5, RecordedInv
<1>4. CASE ~(tree[cmd.dep] # Missing /\ tree[cmd.dep].marker = tar[cmd.dep])
  <2>1. cmd' \in Commands /\ cmd'.pc = "remove" /\ cmd'.dep = cmd.dep /\ Same(cmd')
    BY <1>2, <1>4, GotoFact DEF Marker, Active, Working
  <2>2. Context' /\ Obtained'
    BY <1>1, <1>2, <2>1, MoveInv DEF Working
  <2>3. Position' /\ Asked'
    BY <1>1, <1>2, <2>1 DEF Position, Asked, Same
  <2> QED
    BY <1>1, <2>1, <2>2, <2>3 DEF PackageInv, Typed
<1> QED
  BY <1>3, <1>4

LEMMA RemoveInv ==
  ASSUME PackageInv, Remove
  PROVE  PackageInv'
<1>1. /\ WorldOK' /\ UNCHANGED <<world, manifest, up, lock, clone, tar>>
      /\ cmd.pc = "remove" /\ cmd.pc \in Unpacking
  BY WorldKept DEF Remove, At, Unpacking
<1>2. /\ cmd.dep \in cmd.todo /\ cmd.dep \in ArchiveDeps /\ cmd.mode # "verify"
      /\ cmd \in Commands /\ tar[cmd.dep] \in Versions
      /\ cmd.dep \in DOMAIN cmd.entries => tar[cmd.dep] = cmd.entries[cmd.dep].rev
      /\ cmd.pc \in Active \ {"done", "write", "rename"}
  BY <1>1, UnpackingFact
<1>3. tree' = [tree EXCEPT ![cmd.dep] = Missing] /\ Goto("extract")
  BY DEF Remove
<1>4. DiskOK' /\ Intact' /\ \A x \in ArchiveDeps : x # cmd.dep => tree'[x] = tree[x]
  BY <1>1, <1>2, <1>3, TreeDisk
<1>5. cmd' \in Commands /\ cmd'.pc = "extract" /\ cmd'.dep = cmd.dep /\ Same(cmd')
  BY <1>2, <1>3, GotoFact DEF Active, Working
<1>6. Context' /\ Obtained'
  BY <1>1, <1>2, <1>4, <1>5, MoveInv DEF Working
<1>7. Position' /\ Asked'
  BY <1>1, <1>2, <1>5 DEF Position, Asked, Same
<1> QED
  BY <1>1, <1>4, <1>5, <1>6, <1>7 DEF PackageInv, Typed

LEMMA ExtractInv ==
  ASSUME PackageInv, NEW ok \in BOOLEAN, Extract(ok)
  PROVE  PackageInv'
<1>1. /\ WorldOK' /\ UNCHANGED <<world, manifest, up, lock, clone, tar>>
      /\ cmd.pc = "extract" /\ cmd.pc \in Unpacking
  BY WorldKept DEF Extract, At, Unpacking
<1>2. /\ cmd.dep \in cmd.todo /\ cmd.dep \in ArchiveDeps /\ cmd.mode # "verify"
      /\ cmd \in Commands /\ tar[cmd.dep] \in Versions
      /\ cmd.dep \in DOMAIN cmd.entries => tar[cmd.dep] = cmd.entries[cmd.dep].rev
      /\ cmd.pc \in Active \ {"done", "write", "rename"}
  BY <1>1, UnpackingFact
<1>3. CASE ok = FALSE
  <2>1. Fail("tar") /\ UNCHANGED disk
    BY <1>1, <1>3 DEF Extract, disk
  <2> QED
    BY <1>1, <2>1, FailInv, DiskKept DEF Reasons
<1>4. CASE ok = TRUE
  <2>1. PICK t : t = [version |-> tar[cmd.dep], whole |-> TRUE, marker |-> 0]
    OBVIOUS
  <2>2. t \in Trees /\ t.version = tar[cmd.dep] /\ t.whole = TRUE /\ t.marker = 0
    <3>1. 0 \in 0 .. MaxVersion
      BY Constants
    <3> QED
      BY <1>2, <2>1, <3>1 DEF Trees
  <2>3. tree' = [tree EXCEPT ![cmd.dep] = t] /\ Goto("mark")
    BY <1>4, <2>1 DEF Extract
  <2>4. /\ DiskOK' /\ Intact' /\ tree'[cmd.dep] = t
        /\ \A x \in ArchiveDeps : x # cmd.dep => tree'[x] = tree[x]
    BY <1>1, <1>2, <2>2, <2>3, TreeDisk
  <2>5. cmd' \in Commands /\ cmd'.pc = "mark" /\ cmd'.dep = cmd.dep /\ Same(cmd')
    BY <1>2, <2>3, GotoFact DEF Active, Working
  <2>6. Context' /\ Obtained'
    BY <1>1, <1>2, <2>4, <2>5, MoveInv DEF Working
  <2>7. Position' /\ Asked'
    BY <1>1, <1>2, <2>2, <2>4, <2>5 DEF Position, Asked, Same
  <2> QED
    BY <1>1, <2>4, <2>5, <2>6, <2>7 DEF PackageInv, Typed
<1> QED
  BY <1>3, <1>4

LEMMA MarkInv ==
  ASSUME PackageInv, Mark
  PROVE  PackageInv'
<1>1. /\ WorldOK' /\ UNCHANGED <<world, manifest, up, lock, clone, tar>>
      /\ cmd.pc = "mark" /\ cmd.pc \in Unpacking
  BY WorldKept DEF Mark, At, Unpacking
<1>2. PICK d : d = cmd.dep
  OBVIOUS
<1>3. /\ d \in cmd.todo /\ d \in ArchiveDeps /\ cmd \in Commands /\ tar[d] \in Versions
      /\ d \in DOMAIN cmd.entries => tar[d] = cmd.entries[d].rev
      /\ cmd.pc \in Active \ {"done", "write", "rename"}
  BY <1>1, <1>2, UnpackingFact
<1>4. /\ tree[d] \in Trees /\ tree[d].version = tar[d] /\ tree[d] # Missing
      /\ CutShort = {} => tree[d].whole = TRUE
  BY <1>1, <1>2, <1>3, Constants DEF PackageInv, Position, Intact
<1>5. PICK t : t = [tree[d] EXCEPT !.marker = tar[d]]
  OBVIOUS
<1>6. /\ t \in Trees /\ t.version = tar[d] /\ t.whole = tree[d].whole /\ t.marker = tar[d]
      /\ t # Missing
  <2>1. tar[d] \in 0 .. MaxVersion
    BY <1>3, Constants DEF Versions
  <2> QED
    BY <1>4, <1>5, <2>1, Constants DEF Trees
<1>7. tree' = [tree EXCEPT ![d] = t] /\ cmd' = Recorded(d, tar[d])
  BY <1>2, <1>5 DEF Mark
<1>8. /\ DiskOK' /\ Intact' /\ tree'[d] = t
      /\ \A x \in ArchiveDeps : x # d => tree'[x] = tree[x]
  BY <1>1, <1>3, <1>4, <1>6, <1>7, TreeDisk
<1>9. Version(d)' = tar[d]
  <2>1. Version(d)' = IF tree'[d] = Missing THEN 0 ELSE tree'[d].version
    BY <1>3, Constants DEF Version
  <2> QED
    BY <1>4, <1>6, <1>8, <2>1
<1> QED
  BY <1>1, <1>3, <1>7, <1>8, <1>9, RecordedInv

-----------------------------------------------------------------------------
LEMMA VerifyInv ==
  ASSUME PackageInv, NEW d \in Deps, Verify(d)
  PROVE  PackageInv'
<1>1. /\ WorldOK' /\ DiskOK' /\ Intact' /\ UNCHANGED <<manifest, up, lock, clone, tar, tree>>
      /\ cmd.pc = "fetch" /\ cmd.pc \in Active /\ cmd.mode = "verify" /\ d \in cmd.todo
      /\ cmd \in Commands /\ Declared(manifest)' = Declared(manifest)
  BY WorldKept, DiskKept DEF Verify, At, PackageInv, Typed, Active
<1>2. CASE Fail("verify")
  BY <1>1, <1>2, FailInv DEF Reasons
<1>3. CASE Verified(d) /\ cmd' = [cmd EXCEPT !.todo = @ \ {d}, !.observed = @ \cup {d}]
  <2>1. /\ cmd' \in Commands /\ cmd'.pc = "fetch" /\ cmd'.todo = cmd.todo \ {d}
        /\ cmd'.observed = cmd.observed \cup {d} /\ cmd'.mode = cmd.mode
        /\ cmd'.partial = cmd.partial /\ cmd'.entries = cmd.entries /\ cmd'.dirty = cmd.dirty
    BY <1>1, <1>3 DEF Commands
  <2>2. d \in Declared(manifest) /\ d \in DOMAIN cmd.entries /\ cmd.entries[d].rev \in Versions
        /\ d \notin cmd.observed
    <3>1. d \in Declared(manifest) /\ d \in DOMAIN cmd.entries
      BY <1>1 DEF PackageInv, Context, Strict
    <3>2. cmd.entries \in Lockfiles
      BY <1>1 DEF Commands
    <3>3. d \notin cmd.observed
      BY <1>1 DEF PackageInv, Context
    <3> QED
      BY <3>1, <3>2, <3>3, Entries
  <2>3. Version(d) = cmd.entries[d].rev
    <3>1. CASE d \in PathDeps
      BY <1>3, <3>1, Constants DEF Verified, Version
    <3>2. CASE d \in GitDeps
      BY <1>3, <3>2, Constants DEF Verified, Version
    <3>3. CASE d \in ArchiveDeps
      <4>1. tree[d] # Missing /\ tree[d].marker = cmd.entries[d].rev
        BY <1>3, <3>3, Constants DEF Verified
      <4>2. tree[d].marker # 0
        BY <2>2, <4>1, Constants
      <4>3. tree[d].version = cmd.entries[d].rev
        BY <3>3, <4>1, <4>2 DEF PackageInv, Intact
      <4> QED
        BY <3>3, <4>1, <4>3, Constants DEF Version
    <3> QED
      BY <3>1, <3>2, <3>3 DEF Deps
  <2>4. Cause' = Cause
    BY <1>1 DEF Cause, Fits
  <2>5. Context'
    <3>1. /\ cmd.todo \subseteq Declared(manifest) /\ cmd.observed \subseteq Declared(manifest)
          /\ cmd.todo \cap cmd.observed = {}
          /\ cmd.partial = FALSE => Declared(manifest) \subseteq cmd.todo \cup cmd.observed
      BY <1>1 DEF PackageInv, Context
    <3>2. /\ cmd'.todo \subseteq Declared(manifest) /\ cmd'.observed \subseteq Declared(manifest)
          /\ cmd'.todo \cap cmd'.observed = {}
          /\ cmd'.partial = FALSE => Declared(manifest) \subseteq cmd'.todo \cup cmd'.observed
      BY <1>1, <2>1, <3>1
    <3> QED
      BY <1>1, <2>1, <2>4, <3>2 DEF PackageInv, Context
  <2>6. Obtained'
    <3>1. \A e \in cmd'.observed : /\ e \in DOMAIN cmd.entries
                                   /\ Version(e) = cmd.entries[e].rev
      BY <1>1, <2>1, <2>2, <2>3 DEF PackageInv, Obtained
    <3>2. \A e : Version(e)' = Version(e)
      BY <1>1 DEF Version
    <3> QED
      BY <2>1, <3>1, <3>2 DEF Obtained
  <2>7. Position' /\ Asked'
    BY <2>1 DEF Position, Asked, Working, Unpacking
  <2> QED
    BY <1>1, <2>1, <2>5, <2>6, <2>7 DEF PackageInv, Typed
<1> QED
  BY <1>2, <1>3 DEF Verify

LEMMA FinishInv ==
  ASSUME PackageInv, Finish
  PROVE  PackageInv'
<1>1. /\ WorldOK' /\ DiskOK' /\ Intact' /\ UNCHANGED <<manifest, up, lock, clone, tar, tree>>
      /\ cmd.pc = "fetch" /\ cmd.pc \in Active /\ cmd.todo = {}
      /\ cmd \in Commands /\ Declared(manifest)' = Declared(manifest)
  BY WorldKept, DiskKept DEF Finish, At, PackageInv, Typed, Active
<1>2. PICK obsolete : obsolete = IF cmd.partial THEN {} ELSE DOMAIN cmd.entries \ cmd.observed
  OBVIOUS
<1>3. /\ cmd.dirty \in BOOLEAN /\ cmd.partial \in BOOLEAN /\ cmd.entries \in Lockfiles
  BY <1>1 DEF Commands
<1>4. /\ cmd.observed \subseteq Declared(manifest)
      /\ cmd.partial = FALSE => Declared(manifest) \subseteq cmd.observed
      /\ \A d \in DOMAIN cmd.entries \cap Declared(manifest) : cmd.entries[d].decl = manifest[d]
      /\ cmd.dirty = FALSE => lock = cmd.entries
      /\ cmd.dirty = TRUE => Cause
  BY <1>1 DEF PackageInv, Context
<1>5. Cause' = Cause /\ \A e : Version(e)' = Version(e)
  BY <1>1 DEF Cause, Fits, Version
<1>6. \A d \in cmd.observed : /\ d \in DOMAIN cmd.entries /\ d \notin obsolete
                              /\ Version(d) = cmd.entries[d].rev
  BY <1>1, <1>2 DEF PackageInv, Obtained
<1>7. CASE ~(cmd.dirty \/ obsolete # {})
  <2>1. cmd' \in Commands /\ cmd'.pc = "done" /\ Same(cmd')
    BY <1>1, <1>2, <1>7, GotoFact DEF Finish, Active
  <2>2. Context'
    BY <1>1, <1>3, <1>5, <1>7, <2>1 DEF PackageInv, Context, Same
  <2>3. Obtained'
    BY <1>5, <1>6, <2>1 DEF Obtained, Same
  <2>4. Position' /\ Asked'
    BY <2>1 DEF Position, Asked, Working, Unpacking
  <2> QED
    BY <1>1, <2>1, <2>2, <2>3, <2>4 DEF PackageInv, Typed
<1>8. CASE (cmd.dirty \/ obsolete # {}) /\ cmd.mode \in Strict
  <2>1. Fail("strict")
    BY <1>2, <1>8 DEF Finish
  <2> QED
    BY <1>1, <2>1, FailInv DEF Reasons
<1>9. CASE (cmd.dirty \/ obsolete # {}) /\ cmd.mode \notin Strict
  <2>1. PICK ent : ent = [d \in DOMAIN cmd.entries \ obsolete |-> cmd.entries[d]]
    OBVIOUS
  <2>2. cmd' = [cmd EXCEPT !.pc = "write", !.dirty = TRUE, !.entries = ent]
    BY <1>2, <1>9, <2>1 DEF Finish
  <2>3. /\ ent \in Lockfiles /\ DOMAIN ent = DOMAIN cmd.entries \ obsolete
        /\ \A d \in DOMAIN ent : ent[d] = cmd.entries[d]
    <3>1. DOMAIN cmd.entries \ obsolete \in SUBSET Deps
          /\ \A d \in DOMAIN cmd.entries : cmd.entries[d] \in Entry
      BY <1>3, Entries
    <3>2. ent \in [DOMAIN cmd.entries \ obsolete -> Entry]
      BY <2>1, <3>1
    <3> QED
      BY <2>1, <3>1, <3>2, MakeEntries
  <2>4. cmd' \in Commands
    <3>1. "write" \in {"idle", "prepare", "failed"} \cup Active /\ TRUE \in BOOLEAN
      BY DEF Active
    <3> QED
      BY <1>1, <2>2, <2>3, <3>1 DEF Commands
  <2>5. /\ cmd'.pc = "write" /\ cmd'.dirty = TRUE /\ cmd'.entries = ent /\ cmd'.mode = cmd.mode
        /\ cmd'.todo = cmd.todo /\ cmd'.partial = cmd.partial /\ cmd'.observed = cmd.observed
    BY <1>1, <2>2 DEF Commands
  <2>6. cmd.mode = "normal"
    BY <1>1, <1>9 DEF Commands, Modes
  <2>7. Cause
    <3> SUFFICES ASSUME cmd.dirty = FALSE PROVE Cause
      BY <1>3, <1>4
    <3>1. obsolete # {} /\ lock = cmd.entries
      BY <1>4, <1>9
    <3>2. obsolete = DOMAIN lock \ cmd.observed /\ Declared(manifest) \subseteq cmd.observed
      BY <1>2, <1>3, <1>4, <3>1
    <3>3. DOMAIN lock \ Declared(manifest) # {}
      BY <1>4, <3>1, <3>2
    <3> QED
      BY <3>3 DEF Cause
  <2>8. Context'
    <3>1. \A d \in DOMAIN ent \cap Declared(manifest) : ent[d].decl = manifest[d]
      BY <1>4, <2>3
    <3>2. cmd'.todo \cap cmd'.observed = {} /\ cmd'.todo \subseteq Declared(manifest)
          /\ (cmd'.partial = FALSE => Declared(manifest) \subseteq cmd'.todo \cup cmd'.observed)
      BY <1>1, <1>4, <2>5
    <3> QED
      BY <1>1, <1>4, <1>5, <1>9, <2>5, <2>6, <2>7, <3>1, <3>2 DEF Context
  <2>9. Obtained'
    BY <1>5, <1>6, <2>3, <2>5 DEF Obtained
  <2>10. Position' /\ Asked'
    BY <2>5 DEF Position, Asked, Working, Unpacking
  <2> QED
    BY <1>1, <2>4, <2>8, <2>9, <2>10 DEF PackageInv, Typed
<1> QED
  BY <1>7, <1>8, <1>9

LEMMA WriteInv ==
  ASSUME PackageInv, NEW ok \in BOOLEAN, Write(ok)
  PROVE  PackageInv'
<1>1. /\ WorldOK' /\ DiskOK' /\ Intact' /\ UNCHANGED <<manifest, up, lock, clone, tar, tree>>
      /\ cmd.pc = "write" /\ cmd.pc \in Active
      /\ cmd \in Commands /\ Declared(manifest)' = Declared(manifest)
  BY WorldKept, DiskKept DEF Write, At, PackageInv, Typed, Active
<1>2. CASE ok = FALSE
  BY <1>1, <1>2, FailInv DEF Write, Reasons
<1>3. CASE ok = TRUE
  <2>1. cmd' \in Commands /\ cmd'.pc = "rename" /\ Same(cmd')
    BY <1>1, <1>3, GotoFact DEF Write, Active
  <2>2. Cause' = Cause /\ \A e : Version(e)' = Version(e)
    BY <1>1 DEF Cause, Fits, Version
  <2>3. Context'
    BY <1>1, <2>1, <2>2 DEF PackageInv, Context, Same
  <2>4. Obtained'
    BY <1>1, <2>1, <2>2 DEF PackageInv, Obtained, Same
  <2>5. Position' /\ Asked'
    BY <2>1 DEF Position, Asked, Working, Unpacking
  <2> QED
    BY <1>1, <2>1, <2>3, <2>4, <2>5 DEF PackageInv, Typed
<1> QED
  BY <1>2, <1>3

LEMMA RenameInv ==
  ASSUME PackageInv, NEW ok \in BOOLEAN, Rename(ok)
  PROVE  PackageInv' /\ (lock' # lock => Cause /\ cmd.mode = "normal" /\ lock' \in Lockfiles)
<1>1. /\ WorldOK' /\ UNCHANGED <<manifest, up, clone, tar, tree>>
      /\ cmd.pc = "rename" /\ cmd.pc \in Active /\ cmd.entries \in Lockfiles
      /\ cmd.dirty \in BOOLEAN
      /\ cmd \in Commands /\ Declared(manifest)' = Declared(manifest)
  BY WorldKept DEF Rename, At, PackageInv, Typed, Active, Commands
<1>2. CASE ok = FALSE
  <2>1. Fail("write") /\ UNCHANGED disk /\ lock' = lock
    BY <1>1, <1>2 DEF Rename, disk
  <2> QED
    BY <1>1, <2>1, FailInv, DiskKept DEF Reasons
<1>3. CASE ok = TRUE
  <2>1. Goto("done") /\ lock' = cmd.entries
    BY <1>3 DEF Rename
  <2>2. cmd' \in Commands /\ cmd'.pc = "done" /\ Same(cmd')
    BY <1>1, <2>1, GotoFact DEF Active
  <2>3. DiskOK' /\ Intact'
    BY <1>1, <2>1 DEF PackageInv, Typed, DiskOK, Intact
  <2>4. \A e : Version(e)' = Version(e)
    BY <1>1 DEF Version
  <2>5. Context'
    BY <1>1, <2>1, <2>2 DEF PackageInv, Context, Same
  <2>6. Obtained'
    BY <1>1, <2>2, <2>4 DEF PackageInv, Obtained, Same
  <2>7. Position' /\ Asked'
    BY <2>2 DEF Position, Asked, Working, Unpacking
  <2>8. lock' # lock => Cause /\ cmd.mode = "normal"
    BY <1>1, <2>1 DEF PackageInv, Context
  <2> QED
    BY <1>1, <2>1, <2>2, <2>3, <2>5, <2>6, <2>7, <2>8 DEF PackageInv, Typed
<1> QED
  BY <1>2, <1>3

-----------------------------------------------------------------------------
LEMMA EndInv ==
  ASSUME PackageInv, Return \/ Killed
  PROVE  PackageInv'
<1>1. cmd' \in Commands /\ cmd'.pc = "idle"
  BY IdleFact DEF Return, Killed
<1>2. CASE UNCHANGED disk /\ UNCHANGED world
  BY <1>1, <1>2, WorldKept, DiskKept, OutsideInv
<1>3. CASE Killed
  <2>1. /\ UNCHANGED world /\ UNCHANGED <<lock, tar>> /\ WorldOK'
        /\ clone' \in {clone} \cup HalfCloned /\ tree' \in {tree} \cup HalfRemoved
    BY <1>3, WorldKept DEF Killed
  <2>2. CASE clone' = clone /\ tree' = tree
    BY <1>2, <2>1, <2>2 DEF disk
  <2>3. CASE tree' \in HalfRemoved
    <3>1. PICK d \in ArchiveDeps : /\ CutShort # {} /\ tree[d] # Missing /\ cmd.pc = "remove"
                                   /\ tree' = [tree EXCEPT ![d].whole = FALSE]
      BY <2>3 DEF HalfRemoved, At
    <3>2. clone' = clone
      BY <2>1, <3>1 DEF HalfCloned
    <3>3. PICK t : t = [tree[d] EXCEPT !.whole = FALSE]
      OBVIOUS
    <3>4. tree[d] \in Trees
      BY <3>1 DEF PackageInv, Typed, DiskOK
    <3>5. t \in Trees /\ t.version = tree[d].version /\ t.marker = tree[d].marker
      BY <3>3, <3>4 DEF Trees
    <3>6. tree' = [tree EXCEPT ![d] = t]
      BY <3>1, <3>3
    <3>7. /\ t # Missing => /\ t.marker # 0 => t.version = t.marker
                            /\ CutShort = {} => t.whole = TRUE
      BY <3>1, <3>5 DEF PackageInv, Intact
    <3>8. DiskOK' /\ Intact'
      BY <2>1, <3>2, <3>5, <3>6, <3>7, TreeDisk
    <3> QED
      BY <1>1, <2>1, <3>8, OutsideInv
  <2>4. CASE clone' \in HalfCloned /\ tree' = tree
    <3>1. cmd.pc \in {"clone", "checkout"} /\ cmd.dep \in GitDeps
      BY <2>4 DEF HalfCloned, PackageInv, Position
    <3>2. PICK left \in Unfinished(cmd.dep) : clone' = [clone EXCEPT ![cmd.dep] = left]
      BY <2>4, <3>1 DEF HalfCloned
    <3>3. DiskOK' /\ Intact'
      BY <2>1, <2>4, <3>1, <3>2, UnfinishedFact, CloneDisk
    <3> QED
      BY <1>1, <2>1, <3>3, OutsideInv
  <2> QED
    BY <2>1, <2>2, <2>3, <2>4
<1> QED
  BY <1>2, <1>3 DEF Return

\* What happens between commands.
LEMMA BetweenInv ==
  ASSUME PackageInv,
         \/ \E d \in Deps : Publish(d)
         \/ \E m \in Manifests : \E revs \in [Declared(m) -> Versions] : Pull(m, revs)
         \/ Edit \/ DeleteLock \/ CleanDeps
  PROVE  PackageInv'
<1>1. cmd' \in Commands /\ cmd'.pc = "idle"
  BY DEF PackageInv, Typed, At, Publish, Pull, Edit, DeleteLock, CleanDeps
<1>2. ASSUME NEW d \in Deps, Publish(d) PROVE WorldOK' /\ DiskOK' /\ Intact'
  <2>1. up[d] \in Versions /\ up[d] + 1 \in Versions
    BY <1>2, Constants DEF Publish, Versions, PackageInv, Typed, WorldOK
  <2>2. WorldOK'
    BY <1>2, <2>1 DEF Publish, PackageInv, Typed, WorldOK
  <2> QED
    BY <1>2, <2>2, DiskKept DEF Publish
<1>3. ASSUME NEW m \in Manifests, NEW revs \in [Declared(m) -> Versions], Pull(m, revs)
      PROVE  WorldOK' /\ DiskOK' /\ Intact'
  <2>1. lock' \in [Declared(m) -> Entry] /\ Declared(m) \in SUBSET Deps
    BY <1>3, Constants DEF Pull, Entry, Declared
  <2>2. lock' \in Lockfiles
    BY <2>1, MakeEntries
  <2> QED
    BY <1>3, <2>2 DEF Pull, PackageInv, Typed, WorldOK, DiskOK, Intact
<1>4. ASSUME Edit PROVE WorldOK' /\ DiskOK' /\ Intact'
  <2>1. UNCHANGED disk /\ manifest' \in Manifests /\ up' = up
    BY <1>4 DEF Edit
  <2> QED
    BY <2>1, DiskKept DEF PackageInv, Typed, WorldOK
<1>5. ASSUME DeleteLock PROVE WorldOK' /\ DiskOK' /\ Intact'
  <2>1. UNCHANGED world /\ lock' = Missing /\ UNCHANGED <<clone, tar, tree>>
    BY <1>5 DEF DeleteLock
  <2>2. DiskOK' /\ Intact'
    BY <2>1 DEF PackageInv, Typed, DiskOK, Intact
  <2> QED
    BY <2>1, <2>2, WorldKept
<1>6. ASSUME CleanDeps PROVE WorldOK' /\ DiskOK' /\ Intact'
  <2>1. (\A d \in ArchiveDeps : tree'[d] = Missing) /\ \A d \in GitDeps : clone'[d] = Missing
    BY <1>6 DEF CleanDeps
  <2>2. DiskOK'
    BY <1>6 DEF CleanDeps, PackageInv, Typed, DiskOK
  <2>3. UNCHANGED world
    BY <1>6 DEF CleanDeps
  <2> QED
    BY <2>1, <2>2, <2>3, WorldKept DEF Intact
<1>7. WorldOK' /\ DiskOK' /\ Intact'
  BY <1>2, <1>3, <1>4, <1>5, <1>6
<1> QED
  BY <1>1, <1>7, OutsideInv

LEMMA PackageInit ==
  ASSUME Init
  PROVE  PackageInv
<1>1. WorldOK
  BY Constants DEF Init, WorldOK
<1>2. DiskOK /\ Intact
  BY DEF Init, DiskOK, Intact
<1>3. cmd \in Commands /\ cmd.pc = "idle"
  BY IdleFact DEF Init
<1> QED
  BY <1>1, <1>2, <1>3
  DEF PackageInv, Typed, Asked, Context, Obtained, Position, Active, Working, Unpacking

LEMMA PackageStay ==
  ASSUME PackageInv, UNCHANGED vars
  PROVE  PackageInv'
<1>1. /\ UNCHANGED <<manifest, up, lock, clone, tar, tree, cmd>>
      /\ WorldOK' /\ DiskOK' /\ Intact' /\ Declared(manifest)' = Declared(manifest)
  BY WorldKept, DiskKept DEF vars
<1>2. Cause' = Cause /\ \A e : Version(e)' = Version(e)
  BY <1>1 DEF Cause, Fits, Version
<1> QED
  BY <1>1, <1>2 DEF PackageInv, Typed, Asked, Context, Obtained, Position

LEMMA PackageStep ==
  ASSUME PackageInv, [Next]_vars
  PROVE  PackageInv'
<1>1. CASE UNCHANGED vars
  BY <1>1, PackageStay
<1>2. CASE \E mode \in Modes, s \in SUBSET Declared(manifest) : Begin(mode, s)
  BY <1>2, BeginInv
<1>3. CASE \E d \in Deps : FetchPath(d) \/ Clone(d) \/ Cached(d) \/ Verify(d)
  BY <1>3, FetchPathInv, CloneInv, CachedInv, VerifyInv
<1>4. CASE \E d \in Deps, ok \in BOOLEAN : Refetch(d, ok)
  BY <1>4, RefetchInv
<1>5. CASE \E ok \in BOOLEAN : \/ Cloned(ok) \/ Checkout(ok) \/ Downloaded(ok) \/ Extract(ok)
                               \/ Write(ok) \/ Rename(ok)
  BY <1>5, ClonedInv, CheckoutInv, DownloadedInv, ExtractInv, WriteInv, RenameInv
<1>6. CASE Prepare \/ Marker \/ Remove \/ Mark \/ Finish
  BY <1>6, PrepareInv, MarkerInv, RemoveInv, MarkInv, FinishInv
<1>7. CASE Return \/ Killed
  BY <1>7, EndInv
<1>8. CASE \/ \E d \in Deps : Publish(d)
           \/ \E m \in Manifests : \E revs \in [Declared(m) -> Versions] : Pull(m, revs)
           \/ Edit \/ DeleteLock \/ CleanDeps
  BY <1>8, BetweenInv
<1> QED
  BY <1>1, <1>2, <1>3, <1>4, <1>5, <1>6, <1>7, <1>8 DEF Next

\* Every reachable state satisfies the invariant, whatever is killed when.
THEOREM PackageInvariant == Spec => []PackageInv
<1>1. Init => PackageInv
  BY PackageInit
<1>2. PackageInv /\ [Next]_vars => PackageInv'
  BY PackageStep
<1> QED
  BY <1>1, <1>2, PTL DEF Spec

-----------------------------------------------------------------------------
\* Whatever was killed, and whatever git or remove_all left half way, success
\* means that the lockfile exists, fits the declarations the command covered,
\* and that the HEAD or the marker and the contents under it are of the versions
\* it pins.
THEOREM PackageVersionsMatchLock == Spec => []VersionsMatchLock
<1>1. ASSUME PackageInv, cmd.pc = "done" PROVE lock = cmd.entries /\ lock \in Lockfiles
  BY <1>1 DEF PackageInv, Typed, Commands, Context, Active
<1>2. ASSUME PackageInv, cmd.pc = "done", NEW d \in cmd.observed
      PROVE  Fits(lock, d) /\ Version(d) = lock[d].rev
  <2>1. /\ lock = cmd.entries /\ d \in DOMAIN cmd.entries /\ Version(d) = cmd.entries[d].rev
        /\ d \in Declared(manifest)
    BY <1>1, <1>2 DEF PackageInv, Context, Obtained, Active
  <2>2. cmd.entries[d].decl = manifest[d]
    BY <1>2, <2>1 DEF PackageInv, Context, Active
  <2> QED
    BY <2>1, <2>2 DEF Fits
<1>3. PackageInv => VersionsMatchLock
  BY <1>1, <1>2, Constants DEF VersionsMatchLock, At
<1> QED
  BY <1>3, PackageInvariant, PTL

\* As long as no removal of an archive's files and no writing of a work tree by
\* git ends half way, success also means that the sources are whole.
THEOREM PackageSourcesMatchLock ==
  ASSUME CutShort = {}
  PROVE  Spec => []SourcesMatchLock
<1>1. ASSUME PackageInv, cmd.pc = "done", NEW d \in cmd.observed
      PROVE  Whole(d)
  <2>1. d \in Deps /\ d \in DOMAIN cmd.entries /\ Version(d) = cmd.entries[d].rev
        /\ cmd.entries \in Lockfiles
    BY <1>1 DEF PackageInv, Typed, Commands, Obtained, Active
  <2>2. Version(d) # 0
    BY <2>1, Entries, Constants
  <2>3. CASE d \in PathDeps
    BY <2>3, Constants DEF Whole
  <2>4. CASE d \in GitDeps
    <3>1. clone[d] # Missing
      BY <2>2, <2>4, Constants DEF Version
    <3> QED
      BY <1>1, <2>4, <3>1, Constants DEF Whole, PackageInv, Intact
  <2>5. CASE d \in ArchiveDeps
    <3>1. tree[d] # Missing
      BY <2>2, <2>5, Constants DEF Version
    <3> QED
      BY <1>1, <2>5, <3>1, Constants DEF Whole, PackageInv, Intact
  <2> QED
    BY <2>1, <2>3, <2>4, <2>5 DEF Deps
<1>2. PackageInv /\ VersionsMatchLock => SourcesMatchLock
  BY <1>1 DEF SourcesMatchLock, At
<1> QED
  BY <1>2, PackageInvariant, PackageVersionsMatchLock, PTL

\* Only Rename, outside the user's own actions, replaces the lockfile, and
\* finish_dependency_lock_context lets it get there only for cause.
THEOREM PackageLockReplacedForCause == Spec => LockReplacedForCause
<1>1. ASSUME PackageInv, [Next]_vars, lock' # lock
      PROVE  /\ lock' # Torn
             /\ At("idle") \/ lock = Missing
                  \/ (\E d \in Declared(manifest) : ~Fits(lock, d))
                  \/ DOMAIN lock \ Declared(manifest) # {}
                  \/ \E d \in PathDeps \cap DOMAIN lock : lock[d].rev # up[d]
  <2>1. lock' # Torn
    BY <1>1, PackageStep, Constants DEF PackageInv, Typed, DiskOK
  <2>2. \/ \E ok \in BOOLEAN : Rename(ok)
        \/ At("idle")
    BY <1>1 DEF Next, vars, disk, Begin, Prepare, FetchPath, Clone, Cached, Verify, Refetch, Cloned,
                Downloaded, Extract, Write, Checkout, Marker, Remove, Mark, Finish, Return, Killed,
                Publish, Pull, Edit, DeleteLock, CleanDeps
  <2>3. CASE \E ok \in BOOLEAN : Rename(ok)
    BY <1>1, <2>1, <2>3, RenameInv DEF Cause
  <2> QED
    BY <2>1, <2>2, <2>3
<1> QED
  BY <1>1, PackageInvariant, PTL DEF Spec, LockReplacedForCause

\* --locked, --offline and verify leave the lockfile alone, --offline fetches
\* nothing and verify changes no file, killed or not.
THEOREM PackageStrictIsReadOnly == Spec => StrictIsReadOnly
<1>1. ASSUME PackageInv, [Next]_vars, cmd.mode \in Strict, ~At("idle")
      PROVE  /\ lock' = lock
             /\ cmd.mode = "offline" => tar' = tar /\ \A d \in GitDeps :
                   clone'[d] # clone[d] => clone[d] # Missing /\ clone'[d].knows = clone[d].knows
             /\ cmd.mode = "verify" => UNCHANGED disk
  <2>1. lock' = lock
    <3>1. CASE \E ok \in BOOLEAN : Rename(ok)
      BY <1>1, <3>1, RenameInv DEF Strict
    <3>2. CASE ~\E ok \in BOOLEAN : Rename(ok)
      BY <1>1, <3>2 DEF Next, vars, disk, Begin, Prepare, FetchPath, Clone, Cached, Verify, Refetch,
            Cloned, Downloaded, Extract, Write, Checkout, Marker, Remove, Mark, Finish, Return,
            Killed, Publish, Pull, Edit, DeleteLock, CleanDeps
    <3> QED
      BY <3>1, <3>2
  <2>2. \/ UNCHANGED <<clone, tar>>
        \/ \E d \in Deps : Clone(d) \/ Cached(d) \/ \E ok \in BOOLEAN : Refetch(d, ok)
        \/ \E ok \in BOOLEAN : Cloned(ok) \/ Downloaded(ok) \/ Checkout(ok)
        \/ Killed
    BY <1>1 DEF Next, vars, disk, Begin, Prepare, FetchPath, Verify, Extract, Write, Rename,
                Marker, Remove, Mark, Finish, Return, Publish, Pull, Edit, DeleteLock, CleanDeps
  <2>3. tree' = tree \/ Remove \/ Mark \/ Killed \/ \E ok \in BOOLEAN : Extract(ok)
    BY <1>1 DEF Next, vars, disk, Begin, Prepare, FetchPath, Clone, Cached, Verify, Refetch, Cloned,
                Downloaded, Write, Rename, Checkout, Marker, Finish, Return, Publish, Pull, Edit,
                DeleteLock, CleanDeps
  <2>4. DiskOK /\ cmd \in Commands
    BY <1>1 DEF PackageInv, Typed
  <2>5. ~\E ok \in BOOLEAN : cmd.mode \in {"offline", "verify"} /\ (Cloned(ok) \/ Downloaded(ok))
    BY <1>1 DEF PackageInv, Position, Working, Cloned, Downloaded, At
  <2>6. ASSUME NEW d \in Deps, cmd.mode \in {"offline", "verify"},
               Clone(d) \/ Cached(d) \/ \E ok \in BOOLEAN : Refetch(d, ok)
        PROVE  clone' = clone /\ tar' = tar
    <3>1. cmd.mode = "offline"
      BY <2>6 DEF Clone, Cached, Refetch, Fetching
    <3>2. CASE Clone(d) \/ Cached(d)
      BY <3>1, <3>2 DEF Clone, Cached
    <3>3. CASE \E ok \in BOOLEAN : Refetch(d, ok)
      <4>1. \/ clone' = clone
            \/ clone' = [clone EXCEPT ![d] = clone[d]]
        BY <3>1, <3>3 DEF Refetch
      <4> QED
        BY <2>4, <3>3, <4>1 DEF Refetch, DiskOK
    <3> QED
      BY <2>6, <3>2, <3>3
  <2>7. ASSUME cmd.mode \in {"offline", "verify"}, cmd.pc \in {"clone", "checkout"},
               NEW c, clone' = [clone EXCEPT ![cmd.dep] = c],
               cmd.pc = "checkout" => c.knows = clone[cmd.dep].knows
        PROVE  /\ cmd.mode # "verify"
               /\ \A d \in GitDeps : clone'[d] # clone[d] =>
                    clone[d] # Missing /\ clone'[d].knows = clone[d].knows
    <3>1. /\ cmd.mode # "verify" /\ cmd.pc = "checkout"
          /\ cmd.dep \in GitDeps /\ clone[cmd.dep] # Missing
      BY <1>1, <2>7 DEF PackageInv, Position, Working
    <3>2. clone'[cmd.dep] = c /\ \A d \in GitDeps : d # cmd.dep => clone'[d] = clone[d]
      BY <2>4, <2>7, <3>1 DEF DiskOK
    <3> QED
      BY <2>7, <3>1, <3>2
  <2>8. ASSUME NEW ok \in BOOLEAN, Checkout(ok), cmd.mode \in {"offline", "verify"}
        PROVE  /\ cmd.mode # "verify" /\ tar' = tar
               /\ \A d \in GitDeps : clone'[d] # clone[d] =>
                    clone[d] # Missing /\ clone'[d].knows = clone[d].knows
    <3>1. cmd.pc = "checkout" /\ tar' = tar
      BY <2>8 DEF Checkout, At
    <3>2. CASE ok = FALSE
      <4>1. PICK left \in Unfinished(cmd.dep) : clone' = [clone EXCEPT ![cmd.dep] = left]
        BY <2>8, <3>2 DEF Checkout
      <4>2. left.knows = clone[cmd.dep].knows
        BY <1>1, <3>1, UnfinishedFact
      <4> QED
        BY <2>7, <2>8, <3>1, <4>1, <4>2
    <3>3. CASE ok = TRUE
      <4>1. PICK d, rev : d = cmd.dep /\ rev = Revision(cmd.dep)
        OBVIOUS
      <4>2. PICK whole \in {clone[d].whole, TRUE} :
              clone' = [clone EXCEPT ![d].head = rev, ![d].whole = whole]
        BY <2>8, <3>3, <4>1 DEF Checkout
      <4>3. d \in GitDeps /\ clone[d] \in Checkouts
        BY <1>1, <2>4, <3>1, <4>1 DEF PackageInv, Position, DiskOK
      <4>4. PICK c : c = [clone[d] EXCEPT !.head = rev, !.whole = whole]
        OBVIOUS
      <4>5. clone' = [clone EXCEPT ![cmd.dep] = c] /\ c.knows = clone[cmd.dep].knows
        BY <2>4, <4>1, <4>2, <4>3, <4>4 DEF DiskOK, Checkouts
      <4> QED
        BY <2>7, <2>8, <3>1, <4>5
    <3> QED
      BY <3>2, <3>3
  <2>9. ASSUME Killed, cmd.mode \in {"offline", "verify"}
        PROVE  /\ tar' = tar
               /\ cmd.mode = "verify" => clone' = clone
               /\ \A d \in GitDeps : clone'[d] # clone[d] =>
                    clone[d] # Missing /\ clone'[d].knows = clone[d].knows
    <3>1. tar' = tar /\ clone' \in {clone} \cup HalfCloned
      BY <2>9 DEF Killed
    <3>2. CASE clone' = clone
      BY <3>1, <3>2
    <3>3. CASE clone' \in HalfCloned
      <4>1. PICK left \in Unfinished(cmd.dep) :
              cmd.pc \in {"clone", "checkout"} /\ clone' = [clone EXCEPT ![cmd.dep] = left]
        BY <3>3 DEF HalfCloned
      <4>2. cmd.pc = "checkout" => left.knows = clone[cmd.dep].knows
        BY <1>1, <4>1, UnfinishedFact
      <4> QED
        BY <2>7, <2>9, <3>1, <4>1, <4>2
    <3> QED
      BY <3>1, <3>2, <3>3
  <2>10. cmd.mode = "verify" => tree' = tree
    <3>1. cmd.mode = "verify" => cmd.pc \notin Working
      BY <1>1 DEF PackageInv, Position
    <3>2. cmd.mode = "verify" => HalfRemoved = {}
      BY <3>1 DEF HalfRemoved, At, Working
    <3> QED
      BY <2>3, <3>1, <3>2 DEF Remove, Mark, Killed, Extract, At, Working
  <2> QED
    BY <2>1, <2>2, <2>5, <2>6, <2>8, <2>9, <2>10 DEF disk
<1> QED
  BY <1>1, PackageInvariant, PTL DEF Spec, StrictIsReadOnly
=============================================================================
