---------------------------- MODULE MCPackageLock ----------------------------
(* mlang pkg with a Git, an archive and a path dependency. *)
EXTENDS PackageLock

\* Manifests with one source, two, or the archive pinned.
MCManifests ==
  {m \in [Deps -> Declarations] :
     /\ \A d \in GitDeps \cup PathDeps : m[d] # "pinned"
     /\ Cardinality(Declared(m)) \in 1 .. 2}
=============================================================================
