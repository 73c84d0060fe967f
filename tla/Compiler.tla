------------------------------ MODULE Compiler ------------------------------
(***************************************************************************)
(* The compiler in its two roles: the code generator with its moves and    *)
(* cleanups, and the language server.  A behaviour has one of them.        *)
(***************************************************************************)
EXTENDS Ownership

CONSTANTS NFiles, Library, Contents, Initial, None, MaxSends, MaxWrites, MaxInbox

VARIABLES
  part,      \* the role
  lDisk, lEditor, lSends, lInbox, lDocuments, lFiles, lGraph, lSession, lVersions,
  lCache, lModules, lQuery, lSince

lvars == <<lDisk, lEditor, lSends, lInbox, lDocuments, lFiles, lGraph, lSession,
           lVersions, lCache, lModules, lQuery, lSince>>

L == INSTANCE LanguageServer WITH
       disk <- lDisk, editor <- lEditor, sends <- lSends, inbox <- lInbox,
       documents <- lDocuments, files <- lFiles, graph <- lGraph, session <- lSession,
       versions <- lVersions, cache <- lCache, modules <- lModules, query <- lQuery,
       since <- lSince

CInit == part \in {"generator", "server"} /\ Init /\ L!Init

GeneratorStep == part = "generator" /\ Next /\ UNCHANGED <<part, lvars>>
ServerStep    == part = "server" /\ L!Next /\ UNCHANGED <<part, vars>>
CNext == GeneratorStep \/ ServerStep
CSpec == CInit /\ [][CNext]_<<part, vars, lvars>>

-----------------------------------------------------------------------------
\* The language server's properties, each explained there.
\* After the last message the server has the text of the editor's buffers.
EditorIsFollowed == L!EditorIsFollowed
\* Documents, session, index and module graph agree.
TablesAgree == L!TablesAgree
\* Cached snapshots and module files are what they would be if made anew.
CachesExact == L!SnapshotsExact /\ L!ModuleCacheCoherent
\* A snapshot has the present text of files edited outside.
OutsideEditsAreSeen == L!OutsideEditsAreSeen
=============================================================================
