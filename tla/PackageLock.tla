------------------------------ MODULE PackageLock ------------------------------
(***************************************************************************)
(* mlang pkg fetch/lock/verify (src/src/package_manager.cpp): the lockfile *)
(* and the sources it pins.  One command at a time works on the package    *)
(* directory; it may be killed between any two effects on the disk.        *)
(* Between commands upstreams publish, the user edits the manifests, pulls *)
(* a colleague's commit or deletes files.                                  *)
(*                                                                         *)
(* A version stands for the contents of a source: a Git commit, an archive *)
(* with its SHA-256, the semantic version of a path package.  git, curl    *)
(* and tar are external; they succeed, or fail with the traces they leave. *)
(* git names the commit of a new clone before it writes the files, and     *)
(* that of a checkout after them; the code looks at the name only.         *)
(* Left out: optional dependencies, packages of dependencies, submodules,  *)
(* the global cache and the vendor directory.                              *)
(***************************************************************************)
EXTENDS Integers, FiniteSets

CONSTANTS Missing,           \* in place of a file: there is none
          Torn,              \* in place of a file: it is not whole
          GitDeps, ArchiveDeps, PathDeps,   \* dependencies, by their source
          MaxVersion,        \* bound on what an upstream publishes
          Manifests,         \* declarations the manifests may make
          CutShort           \* work on the files of a source that may end half
                             \* way: "removal" (remove_all of an extracted
                             \* archive), "checkout" (git writes a work tree)

Deps == GitDeps \cup ArchiveDeps \cup PathDeps
Versions == 1 .. MaxVersion
\* A source is not declared, follows its upstream, or names version 1.
Declarations == {"none", "head", "pinned"}

\* What is on the disk: the entries of a lockfile; a Git clone with the newest
\* version it knows, its HEAD (0 for none) and whether the files are those of
\* HEAD; an extracted archive with its checksum marker.
Entry     == [decl : Declarations \ {"none"}, rev : Versions]
Lockfiles == UNION {[S -> Entry] : S \in SUBSET Deps}
Checkouts == [knows : 0 .. MaxVersion, head : 0 .. MaxVersion, whole : BOOLEAN]
Trees     == [version : Versions, whole : BOOLEAN, marker : 0 .. MaxVersion]

\* A dependency has one kind of source, and a file that is missing or not
\* whole is told from one that is.
ASSUME PackageAssumption ==
  /\ MaxVersion \in Nat \ {0}
  /\ Manifests \subseteq [Deps -> Declarations]
  /\ CutShort \subseteq {"removal", "checkout"}
  /\ GitDeps \cap ArchiveDeps = {} /\ PathDeps \cap (GitDeps \cup ArchiveDeps) = {}
  /\ Missing # Torn
  /\ {Missing, Torn} \cap (Versions \cup Lockfiles \cup Checkouts \cup Trees) = {}

Strict == {"locked", "offline", "verify"}
Modes == {"normal"} \cup Strict

VARIABLES
  manifest,   \* what is declared
  up,         \* the newest version of each source
  lock,       \* mlang.lock: Missing, Torn or its entries
  clone,      \* Git clones: Missing or [knows, head, whole]
  tar,        \* .archives/<name>.tar.gz: Missing, Torn or a version
  tree,       \* extracted archives: Missing or [version, whole, marker]
  cmd         \* the running command and its DependencyLockContext

disk == <<lock, clone, tar, tree>>
world == <<manifest, up>>
vars == <<world, disk, cmd>>

Declared(m) == {d \in Deps : m[d] # "none"}
NoEntries == [d \in {} |-> 0]
Idle == [pc |-> "idle", mode |-> "normal", todo |-> {}, partial |-> FALSE, dep |-> "",
         entries |-> NoEntries, observed |-> {}, dirty |-> FALSE, why |-> ""]

\* What an undeclared revision of d resolves to.
Wanted(d) == IF manifest[d] = "pinned" THEN 1 ELSE up[d]

Init ==
  /\ manifest \in Manifests
  /\ up = [d \in Deps |-> 1]
  /\ lock = Missing
  /\ clone = [d \in GitDeps |-> Missing]
  /\ tar = [d \in ArchiveDeps |-> Missing]
  /\ tree = [d \in ArchiveDeps |-> Missing]
  /\ cmd = Idle

At(pc) == cmd.pc = pc
Fail(why) == cmd' = [cmd EXCEPT !.pc = "failed", !.why = why]
Goto(pc) == cmd' = [cmd EXCEPT !.pc = pc]
Work(d, pc) == cmd' = [cmd EXCEPT !.pc = pc, !.dep = d]

-----------------------------------------------------------------------------
\* A command on the selected dependencies starts.
Begin(mode, selected) ==
  /\ At("idle")
  /\ cmd' = [Idle EXCEPT !.pc = "prepare", !.mode = mode, !.todo = selected,
                         !.partial = selected # Declared(manifest)]
  /\ UNCHANGED <<world, disk>>

Fits(entries, d) == d \in DOMAIN entries /\ entries[d].decl = manifest[d]

\* prepare_dependency_lock_context
Prepare ==
  LET strict == cmd.mode \in Strict
      read == IF lock = Missing THEN NoEntries ELSE lock
      stale == \E d \in Declared(manifest) : ~Fits(read, d)
  IN  /\ At("prepare")
      /\ IF lock = Torn THEN Fail("malformed")
         ELSE IF strict /\ (lock = Missing \/ stale) THEN Fail("stale")
         ELSE cmd' = [cmd EXCEPT !.pc = "fetch",
                        !.entries = IF stale THEN NoEntries ELSE read,
                        !.dirty = stale \/ lock = Missing]
      /\ UNCHANGED <<world, disk>>

Locked(d) == d \in DOMAIN cmd.entries

\* record_dependency_lock_entry, and the loop goes on.
Recorded(d, rev) ==
  LET new == [decl |-> manifest[d], rev |-> rev]
      same == Locked(d) /\ cmd.entries[d] = new
  IN  [cmd EXCEPT !.pc = "fetch", !.todo = @ \ {d}, !.observed = @ \cup {d},
                  !.dirty = @ \/ ~same,
                  !.entries = [e \in DOMAIN @ \cup {d} |-> IF e = d THEN new ELSE @[e]]]

Fetching(d) == At("fetch") /\ cmd.mode # "verify" /\ d \in cmd.todo

\* fetch_dep of a path package.
FetchPath(d) ==
  /\ Fetching(d) /\ d \in PathDeps
  /\ IF Locked(d) /\ cmd.entries[d].rev # up[d] /\ cmd.mode \in Strict
     THEN Fail("version")
     ELSE cmd' = Recorded(d, up[d])
  /\ UNCHANGED <<world, disk>>

\* A repository without commits, as git clone makes it first, and a clone.
EmptyClone == [knows |-> 0, head |-> 0, whole |-> TRUE]
CloneOf(v) == [knows |-> v, head |-> v, whole |-> TRUE]

\* What there may be of d when git is stopped by an error or a signal: a clone
\* takes away what it has made, or leaves it if killed, until HEAD is set; from
\* then on the clone stays, as does the HEAD of a checkout, over files partly
\* written.
Unfinished(d) ==
  LET before == IF At("clone") THEN {Missing, EmptyClone} ELSE {clone[d]}
      behind == IF At("clone") THEN CloneOf(up[d]) ELSE clone[d]
  IN  before \cup (IF "checkout" \in CutShort THEN {[behind EXCEPT !.whole = FALSE]} ELSE {})

\* fetch_git_dep: the directory is made, and filled by git clone.
Clone(d) ==
  /\ Fetching(d) /\ d \in GitDeps /\ clone[d] = Missing
  /\ IF cmd.mode = "offline"
     THEN Fail("offline") /\ UNCHANGED clone
     ELSE Work(d, "clone") /\ clone' = [clone EXCEPT ![d] = EmptyClone]
  /\ UNCHANGED <<world, lock, tar, tree>>
Cloned(ok) ==
  LET d == cmd.dep
  IN  /\ At("clone")
      /\ IF ok THEN Goto("checkout") ELSE Fail("network")
      /\ \E left \in IF ok THEN {CloneOf(up[d])} ELSE Unfinished(d) \ {EmptyClone} :
           clone' = [clone EXCEPT ![d] = left]
      /\ UNCHANGED <<world, lock, tar, tree>>

\* An existing checkout is updated only when the lock has no entry for it.
Refetch(d, ok) ==
  LET update == ~Locked(d) /\ cmd.mode # "offline" /\ cmd.dirty
  IN  /\ Fetching(d) /\ d \in GitDeps /\ clone[d] # Missing
      /\ IF update /\ ~ok THEN Fail("network") /\ UNCHANGED clone
         ELSE /\ ok /\ Work(d, "checkout")
              /\ clone' = IF update THEN [clone EXCEPT ![d].knows = up[d]] ELSE clone
      /\ UNCHANGED <<world, lock, tar, tree>>

\* The locked revision, the declared one, or that of the remote's branch.
Revision(d) ==
  IF Locked(d) THEN cmd.entries[d].rev
  ELSE IF manifest[d] = "pinned" THEN 1 ELSE clone[d].knows

\* git checkout --detach, then git rev-parse HEAD.  Files that differ from those
\* of HEAD stay where both commits agree, and git refuses where they do not, so
\* only some clones that are not whole become whole.
Checkout(ok) ==
  LET d == cmd.dep
      rev == Revision(d)
  IN  /\ At("checkout")
      /\ IF ok THEN /\ rev \in 1 .. clone[d].knows
                    /\ \E whole \in {clone[d].whole, TRUE} :
                         clone' = [clone EXCEPT ![d].head = rev, ![d].whole = whole]
                    /\ cmd' = Recorded(d, rev)
               ELSE /\ \E left \in Unfinished(d) : clone' = [clone EXCEPT ![d] = left]
                    /\ Fail("checkout")
      /\ UNCHANGED <<world, lock, tar, tree>>

-----------------------------------------------------------------------------
\* fetch_archive_dep: the cached archive is used if it is what is expected.
CacheMatches(d) ==
  /\ tar[d] # Missing
  /\ Locked(d) \/ ~cmd.dirty
  /\ Locked(d) => tar[d] = cmd.entries[d].rev

Cached(d) ==
  /\ Fetching(d) /\ d \in ArchiveDeps
  /\ IF CacheMatches(d) THEN Work(d, "marker") /\ UNCHANGED tar
     ELSE IF cmd.mode = "offline" THEN Fail("offline") /\ UNCHANGED tar
     ELSE Work(d, "download") /\ tar' = [tar EXCEPT ![d] = Torn]
  /\ UNCHANGED <<world, lock, clone, tree>>
Downloaded(ok) ==
  LET d == cmd.dep
  IN  /\ At("download")
      /\ tar' = IF ok THEN [tar EXCEPT ![d] = Wanted(d)] ELSE tar
      /\ IF ~ok THEN Fail("network")
         ELSE IF Locked(d) /\ cmd.entries[d].rev # Wanted(d) THEN Fail("checksum")
         ELSE Goto("marker")
      /\ UNCHANGED <<world, lock, clone, tree>>

\* A checkout marked with the archive's checksum is kept.
Marker ==
  LET d == cmd.dep
  IN  /\ At("marker")
      /\ IF tree[d] # Missing /\ tree[d].marker = tar[d]
         THEN cmd' = Recorded(d, tar[d])
         ELSE Goto("remove")
      /\ UNCHANGED <<world, disk>>

\* remove_all(checkoutDir)
Remove ==
  /\ At("remove")
  /\ tree' = [tree EXCEPT ![cmd.dep] = Missing]
  /\ Goto("extract")
  /\ UNCHANGED <<world, lock, clone, tar>>

\* Mutant: the marker comes with the files, which are unpacked in place.
ExtractInPlace(ok) ==
  LET d == cmd.dep
  IN  /\ At("extract")
      /\ IF ok THEN Goto("mark") ELSE Fail("tar")
      /\ tree' = [tree EXCEPT ![d] = [version |-> tar[d], whole |-> ok, marker |-> tar[d]]]
      /\ UNCHANGED <<world, lock, clone, tar>>

\* tar into a directory of its own, renamed when it is complete.
Extract(ok) ==
  LET d == cmd.dep
  IN  /\ At("extract")
      /\ IF ok THEN Goto("mark") ELSE Fail("tar")
      /\ tree' = IF ok THEN [tree EXCEPT ![d] = [version |-> tar[d], whole |-> TRUE, marker |-> 0]]
                 ELSE tree
      /\ UNCHANGED <<world, lock, clone, tar>>
Mark ==
  LET d == cmd.dep
  IN  /\ At("mark")
      /\ tree' = [tree EXCEPT ![d].marker = tar[d]]
      /\ cmd' = Recorded(d, tar[d])
      /\ UNCHANGED <<world, lock, clone, tar>>

-----------------------------------------------------------------------------
\* verify_dependency
Verified(d) ==
  LET rev == cmd.entries[d].rev
  IN  CASE d \in PathDeps -> up[d] = rev
        [] d \in GitDeps -> clone[d] # Missing /\ clone[d].head = rev
        [] OTHER -> tree[d] # Missing /\ tar[d] = rev /\ tree[d].marker = rev
Verify(d) ==
  /\ At("fetch") /\ cmd.mode = "verify" /\ d \in cmd.todo
  /\ IF Verified(d) THEN cmd' = [cmd EXCEPT !.todo = @ \ {d}, !.observed = @ \cup {d}]
     ELSE Fail("verify")
  /\ UNCHANGED <<world, disk>>

\* Mutant: a stale lock is brought up to date whatever the mode.
FinishLenient ==
  LET obsolete == IF cmd.partial THEN {} ELSE DOMAIN cmd.entries \ cmd.observed
  IN  /\ At("fetch") /\ cmd.todo = {}
      /\ IF ~cmd.dirty /\ obsolete = {} THEN Goto("done")
         ELSE cmd' = [cmd EXCEPT !.pc = "write", !.dirty = TRUE,
                        !.entries = [d \in DOMAIN @ \ obsolete |-> @[d]]]
      /\ UNCHANGED <<world, disk>>

\* finish_dependency_lock_context
Finish ==
  LET obsolete == IF cmd.partial THEN {} ELSE DOMAIN cmd.entries \ cmd.observed
      dirty == cmd.dirty \/ obsolete # {}
  IN  /\ At("fetch") /\ cmd.todo = {}
      /\ IF ~dirty THEN Goto("done")
         ELSE IF cmd.mode \in Strict THEN Fail("strict")
         ELSE cmd' = [cmd EXCEPT !.pc = "write", !.dirty = TRUE,
                        !.entries = [d \in DOMAIN @ \ obsolete |-> @[d]]]
      /\ UNCHANGED <<world, disk>>

\* Mutant: the lockfile is written where it stands.
WriteInPlace(ok) ==
  /\ At("write")
  /\ IF ok THEN Goto("rename") ELSE Fail("write")
  /\ lock' = Torn
  /\ UNCHANGED <<world, clone, tar, tree>>

\* write_dependency_lock: a temporary file, then rename.
Write(ok) ==
  /\ At("write")
  /\ IF ok THEN Goto("rename") ELSE Fail("write")
  /\ UNCHANGED <<world, disk>>
Rename(ok) ==
  /\ At("rename")
  /\ IF ok THEN Goto("done") ELSE Fail("write")
  /\ lock' = IF ok THEN cmd.entries ELSE lock
  /\ UNCHANGED <<world, clone, tar, tree>>

Return == cmd.pc \in {"done", "failed"} /\ cmd' = Idle /\ UNCHANGED <<world, disk>>

\* remove_all removes the files one by one; the marker may be among those left.
HalfRemoved ==
  {[tree EXCEPT ![d].whole = FALSE] :
     d \in {e \in ArchiveDeps : "removal" \in CutShort /\ At("remove") /\ e = cmd.dep /\ tree[e] # Missing}}
HalfCloned ==
  {[clone EXCEPT ![cmd.dep] = left] :
     left \in IF cmd.pc \in {"clone", "checkout"} THEN Unfinished(cmd.dep) ELSE {}}
Killed ==
  /\ cmd.pc \notin {"idle", "done", "failed"}
  /\ cmd' = Idle
  /\ clone' \in {clone} \cup HalfCloned
  /\ tree' \in {tree} \cup HalfRemoved
  /\ UNCHANGED <<world, lock, tar>>

-----------------------------------------------------------------------------
\* Between commands.
Publish(d) ==
  /\ At("idle") /\ up[d] < MaxVersion
  /\ up' = [up EXCEPT ![d] = @ + 1]
  /\ UNCHANGED <<manifest, disk, cmd>>
Edit ==
  /\ At("idle")
  /\ manifest' \in Manifests
  /\ UNCHANGED <<up, disk, cmd>>
\* Manifests and the lock a colleague committed with them.
Pull(m, revs) ==
  /\ At("idle")
  /\ \A d \in DOMAIN revs : revs[d] <= IF m[d] = "pinned" THEN 1 ELSE up[d]
  /\ manifest' = m
  /\ lock' = [d \in DOMAIN revs |-> [decl |-> m[d], rev |-> revs[d]]]
  /\ UNCHANGED <<up, clone, tar, tree, cmd>>
DeleteLock ==
  /\ At("idle") /\ lock' = Missing
  /\ UNCHANGED <<world, clone, tar, tree, cmd>>
CleanDeps ==
  /\ At("idle")
  /\ clone' = [d \in GitDeps |-> Missing]
  /\ tar' = [d \in ArchiveDeps |-> Missing]
  /\ tree' = [d \in ArchiveDeps |-> Missing]
  /\ UNCHANGED <<world, lock, cmd>>

Next ==
  \/ \E mode \in Modes, s \in SUBSET Declared(manifest) : Begin(mode, s)
  \/ Prepare
  \/ \E d \in Deps : FetchPath(d) \/ Clone(d) \/ Cached(d) \/ Verify(d)
  \/ \E d \in Deps, ok \in BOOLEAN : Refetch(d, ok)
  \/ \E ok \in BOOLEAN : Cloned(ok) \/ Checkout(ok) \/ Downloaded(ok) \/ Extract(ok) \/ Write(ok) \/ Rename(ok)
  \/ Marker \/ Remove \/ Mark \/ Finish \/ Return \/ Killed
  \/ \E d \in Deps : Publish(d)
  \/ \E m \in Manifests : \E revs \in [Declared(m) -> Versions] : Pull(m, revs)
  \/ Edit \/ DeleteLock \/ CleanDeps

Spec == Init /\ [][Next]_vars

-----------------------------------------------------------------------------
\* The version that is in the package directory for d, and whether all of its
\* files are.
Version(d) ==
  CASE d \in PathDeps -> up[d]
    [] d \in GitDeps -> IF clone[d] = Missing THEN 0 ELSE clone[d].head
    [] OTHER -> IF tree[d] = Missing THEN 0 ELSE tree[d].version
Whole(d) ==
  CASE d \in PathDeps -> TRUE
    [] d \in GitDeps -> clone[d] # Missing /\ clone[d].whole
    [] OTHER -> tree[d] # Missing /\ tree[d].whole

\* When fetch, lock or verify reports success, mlang.lock exists and fits every
\* declaration the command covered, and the sources on disk are of the versions
\* it records: whatever was killed, published, edited or pulled before, also
\* while files were removed or written.
VersionsMatchLock ==
  At("done") =>
    /\ lock \notin {Missing, Torn}
    /\ \A d \in cmd.observed : Fits(lock, d) /\ Version(d) = lock[d].rev

\* And those sources are whole, if no work on their files ended half way.
SourcesMatchLock ==
  VersionsMatchLock /\ (At("done") => \A d \in cmd.observed : Whole(d))

\* mlang.lock is never half written, and a command replaces it only for cause:
\* it was missing, did not fit a declaration, had an entry nothing declares any
\* more, or a path package changed its version.  In particular a Git branch or
\* an archive that moved upstream is no cause.
LockReplacedForCause ==
  [][ lock' # lock =>
        /\ lock' # Torn
        /\ At("idle") \/ lock = Missing
             \/ (\E d \in Declared(manifest) : ~Fits(lock, d))
             \/ DOMAIN lock \ Declared(manifest) # {}
             \/ \E d \in PathDeps \cap DOMAIN lock : lock[d].rev # up[d] ]_vars

\* A strict command never touches mlang.lock; --offline and verify fetch
\* nothing, and verify changes nothing at all.
StrictIsReadOnly ==
  [][ (cmd.mode \in Strict /\ ~At("idle")) =>
        /\ lock' = lock
        /\ cmd.mode = "offline" => tar' = tar /\ \A d \in GitDeps :
              clone'[d] # clone[d] => clone[d] # Missing /\ clone'[d].knows = clone[d].knows
        /\ cmd.mode = "verify" => UNCHANGED disk ]_vars
=============================================================================
