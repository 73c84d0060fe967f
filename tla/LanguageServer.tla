--------------------------- MODULE LanguageServer ---------------------------
(***************************************************************************)
(* mlangd (tools/mlang_lsp_cpp/main.cpp) and what it keeps of a workspace: *)
(* the documents of the IncrementalCompiler, the index with its            *)
(* WorkspaceGraph, the documents and caches of a compiler session          *)
(* (src/compiler_api.cpp) and the process-wide cache of module files.      *)
(*                                                                         *)
(* The server handles the messages of one editor in order.  The editor     *)
(* goes on meanwhile, and other programs write files no editor has open.   *)
(* The server announces full synchronisation, so a change carries a whole  *)
(* text.  Clearing the semantic cache after every n-th mutation finds it   *)
(* empty and is left out, and so is the generation number: what is cached  *)
(* was cached since the last mutation.                                     *)
(*                                                                         *)
(* A text is a record: the parsers that get an AST of it, with their       *)
(* recoveries (ast), the modules it uses and those it declares (uses,      *)
(* mods).  An AST is the text it was made from.  A module is named by the  *)
(* number of its file; URIs are ordered as these numbers.                  *)
(***************************************************************************)
EXTENDS Integers, Sequences, SequencesExt

CONSTANTS NFiles,
          Library,      \* the files outside the root of the workspace
          Contents,     \* the texts each file may hold
          Initial,      \* what they hold when the server starts
          None,
          MaxSends,     \* bound on the editor's notifications
          MaxWrites,    \* bound on the writes of each file
          MaxInbox      \* bound on messages underway

Files == 1 .. NFiles
Text == UNION {Contents[f] : f \in Files}

Document == [text : Text, ast : Text \cup {None}]

\* Modules have the names of files; None is no text and no entry of a table.
LanguageServerAssumption ==
  /\ NFiles \in Nat \ {0} /\ Library \subseteq Files
  /\ DOMAIN Contents = Files /\ Initial \in [Files -> Text \cup {None}]
  /\ \A t \in Text : t.uses \in Seq(Files) /\ t.mods \in Seq(Files)
  /\ None \notin Text /\ None \notin Document /\ None \notin [text : Text, version : Nat]
  /\ None \notin [stamp : Nat, text : Text]
  /\ None \notin [provides : SUBSET Files, imports : SUBSET Files]
  /\ MaxSends \in Nat /\ MaxWrites \in Nat /\ MaxInbox \in Nat \ {0}

VARIABLES
  disk,        \* the files: text or None, and the time of the last write
  editor,      \* the editor's buffers: None or [text, version]
  sends,       \* how many notifications the editor has sent
  inbox,       \* messages underway to the server
  documents,   \* IncrementalCompiler::documents_
  files,       \* the index: text and AST of each file
  graph,       \* the WorkspaceGraph: nodes, providers, importers
  session,     \* SessionStore::documents_
  versions,    \* compilerDocVersions, 0 for none
  cache,       \* base_semantic_docs_ and hydrated_semantic_cache_
  modules,     \* the cache of module files
  query,       \* the scan, the diagnostics or the semantic query under way
  since        \* ghost: the texts each file has had since the last mutation

client == <<editor, sends>>
tables == <<documents, files, graph, session, versions, cache>>
vars == <<disk, client, inbox, tables, modules, query, since>>

NoCache == [base |-> None, snapshots |-> [f \in Files |-> None]]
NoQuery == [pc |-> "idle", uri |-> 0, docs |-> None, queue |-> << >>, stamp |-> 0,
            text |-> None]
On(f) == disk[f].text

-----------------------------------------------------------------------------
(* WorkspaceGraph                                                          *)

Provides(f, ast) == {f} \cup (IF ast = None THEN {} ELSE Range(ast.mods))
Imports(ast) == IF ast = None THEN {} ELSE Range(ast.uses)

\* removeDocumentIndexes
Unindexed(g, f) ==
  [g EXCEPT !.providers = [m \in Files |-> IF g.nodes[f] # None /\ m \in g.nodes[f].provides
                                           THEN @[m] \ {f} ELSE @[m]],
            !.importers = [m \in Files |-> IF g.nodes[f] # None /\ m \in g.nodes[f].imports
                                           THEN @[m] \ {f} ELSE @[m]]]

\* Mutant: the entries of the old node stay.
UpsertKeepsOld(g, f, ast) ==
  [g EXCEPT !.nodes[f] = [provides |-> Provides(f, ast), imports |-> Imports(ast)],
            !.providers = [m \in Files |-> @[m] \cup (IF m \in Provides(f, ast) THEN {f} ELSE {})],
            !.importers = [m \in Files |-> @[m] \cup (IF m \in Imports(ast) THEN {f} ELSE {})]]

\* upsertDocument, with the node update_workspace_graph_for_file makes.
Upsert(g, f, ast) ==
  [Unindexed(g, f) EXCEPT
     !.nodes[f] = [provides |-> Provides(f, ast), imports |-> Imports(ast)],
     !.providers = [m \in Files |-> @[m] \cup (IF m \in Provides(f, ast) THEN {f} ELSE {})],
     !.importers = [m \in Files |-> @[m] \cup (IF m \in Imports(ast) THEN {f} ELSE {})]]

\* removeDocument
Removed(g, f) == [Unindexed(g, f) EXCEPT !.nodes[f] = None]

-----------------------------------------------------------------------------
(* What a handler does to the tables, as a function on s, their record.    *)

Tables == [documents |-> documents, files |-> files, graph |-> graph,
           session |-> session, versions |-> versions, cache |-> cache, since |-> since]

Become(s) ==
  /\ documents' = s.documents /\ files' = s.files /\ graph' = s.graph
  /\ session' = s.session /\ versions' = s.versions /\ cache' = s.cache
  /\ since' = s.since

\* invalidateSemanticCacheLocked
Invalidated(s) == [s EXCEPT !.cache = NoCache, !.since = [f \in Files |-> {On(f)}]]

\* parseDocument: the AST of the text, after recovery, or the last good one.
ParseDocument(t, lastGood) == IF "editor" \in t.ast THEN t ELSE lastGood

\* IncrementalCompiler::openDocument and setDocumentText.
Opened(s, f, t) ==
  [s EXCEPT !.documents[f] = [text |-> t, ast |-> ParseDocument(t, None)]]
TextSet(s, f, t) ==
  [s EXCEPT !.documents[f] =
     [text |-> t, ast |-> ParseDocument(t, IF @ = None THEN None ELSE @.ast)]]

\* SessionStore::changeDocument; a version that is not newer is refused.
Changed(s, f, t, v) ==
  IF v <= s.session[f].version THEN s
  ELSE Invalidated([s EXCEPT !.session[f] = [text |-> t, version |-> v], !.versions[f] = v])

\* Mutant: the editor's version is passed on when it equals the last one.
NextVersionLate(s, f, v) == IF v < s.versions[f] THEN s.versions[f] + 1 ELSE v

\* The version compiler_open_or_update passes on.
NextVersion(s, f, v) == IF v <= s.versions[f] THEN s.versions[f] + 1 ELSE v

\* compiler_open_or_update; v is 1 when the message has no version.
Updated(s, f, t, v) ==
  IF s.versions[f] = 0
  THEN Invalidated([s EXCEPT !.session[f] = [text |-> t, version |-> v], !.versions[f] = v])
  ELSE Changed(s, f, t, NextVersion(s, f, v))

\* reindex_incremental_document
Reindexed(s, f) ==
  [s EXCEPT !.files[f] = s.documents[f], !.graph = Upsert(@, f, s.documents[f].ast)]

\* index_document
Indexed(s, f, t) == Reindexed(Updated(Opened(s, f, t), f, t, 1), f)

\* get_or_index_file
GotOrIndexed(s, f) ==
  IF s.files[f] # None \/ On(f) = None THEN s ELSE Indexed(s, f, On(f))

\* resolve_module_path_for_file: the first provider, else the module's file.
Resolved(s, m) == LET providers == s.graph.providers[m]
                  IN  IF providers = {} THEN m ELSE Min(providers)

-----------------------------------------------------------------------------
(* The server handles the message at the head of the inbox.                *)

Handle(kind, f) ==
  /\ query.pc = "idle" /\ inbox # << >>
  /\ Head(inbox).kind = kind /\ Head(inbox).uri = f
  /\ inbox' = Tail(inbox)
  /\ UNCHANGED <<disk, client, modules>>

DidOpen(f) ==
  /\ Handle("didOpen", f)
  /\ LET m == Head(inbox)
     IN  Become(Reindexed(Updated(Opened(Tables, f, m.text), f, m.text, m.version + 1), f))
  /\ UNCHANGED query

\* A document that never parsed is indexed anew, which sends it twice to the
\* compiler session.
DidChange(f) ==
  /\ Handle("didChange", f)
  /\ LET m == Head(inbox)
         old == IF documents[f] = None /\ On(f) # None THEN Opened(Tables, f, On(f)) ELSE Tables
         s == TextSet(old, f, m.text)
         u == Updated(s, f, m.text, m.version + 1)
     IN  Become(IF s.documents[f].ast # None THEN Reindexed(u, f) ELSE Indexed(u, f, m.text))
  /\ UNCHANGED query

\* The server reads the file, as it is when the message is handled.
DidSave(f) ==
  /\ Handle("didSave", f)
  /\ Become(IF On(f) = None THEN Tables
            ELSE Reindexed(Updated(TextSet(Tables, f, On(f)), f, On(f), 1), f))
  /\ UNCHANGED query

\* compiler_close; the session refuses to close what it does not have.
CompilerClosed(s, f) ==
  LET closed == [s EXCEPT !.session[f] = None, !.versions[f] = 0]
  IN  IF s.session[f] = None THEN closed ELSE Invalidated(closed)

\* prune_closed_document_indexes: a file of the workspace stays indexed.
Pruned(s, f) ==
  IF s.files[f] = None \/ (On(f) # None /\ f \notin Library) THEN s
  ELSE [s EXCEPT !.graph = Removed(@, f), !.files[f] = None]

DidClose(f) ==
  /\ Handle("didClose", f)
  /\ Become(Pruned(CompilerClosed([Tables EXCEPT !.documents[f] = None], f), f))
  /\ UNCHANGED query

\* textDocument/diagnostic: the file is indexed, then, one after the other,
\* the modules it imports an item of.
Diagnostic(f) ==
  /\ Handle("diagnostic", f)
  /\ LET s == GotOrIndexed(Tables, f)
     IN  /\ Become(s)
         /\ query' = IF s.files[f] = None \/ s.files[f].ast = None THEN query
                     ELSE [NoQuery EXCEPT !.pc = "import", !.queue = s.files[f].ast.uses]
ImportModule ==
  /\ query.pc = "import" /\ query.queue # << >>
  /\ Become(GotOrIndexed(Tables, Resolved(Tables, Head(query.queue))))
  /\ query' = [query EXCEPT !.queue = Tail(@)]
  /\ UNCHANGED <<disk, client, inbox, modules>>
ImportsDone ==
  /\ query.pc = "import" /\ query.queue = << >>
  /\ query' = NoQuery
  /\ UNCHANGED <<disk, client, inbox, tables, modules, since>>

-----------------------------------------------------------------------------
(* A semantic query: semanticSnapshotForUri and hydrateFilesystemModulesFor *)

Enqueued(t) == IF "session" \in t.ast THEN t.uses \o t.mods ELSE << >>
SessionTexts == [f \in Files |-> IF session[f] = None THEN None ELSE session[f].text]

\* An unknown document is refused, a cached snapshot returned; else the base
\* is made if there is none and the modules of the document are looked for.
Query(f) ==
  /\ Handle("query", f)
  /\ LET base == IF cache.base = None THEN SessionTexts ELSE cache.base
     IN  IF session[f] = None \/ cache.snapshots[f] # None
         THEN UNCHANGED <<cache, query>>
         ELSE /\ cache' = [cache EXCEPT !.base = base]
              /\ query' = [NoQuery EXCEPT !.pc = "next", !.uri = f, !.docs = base,
                                          !.queue = Enqueued(base[f])]
  /\ UNCHANGED <<documents, files, graph, session, versions, since>>

\* The next module: one that is among the documents or not on disk is passed
\* over, else its time of change is taken.
NextModule ==
  /\ query.pc = "next" /\ query.queue # << >>
  /\ LET m == Head(query.queue)
     IN  query' = IF query.docs[m] # None \/ On(m) = None
                  THEN [query EXCEPT !.queue = Tail(@)]
                  ELSE [query EXCEPT !.pc = "load", !.stamp = disk[m].stamp]
  /\ UNCHANGED <<disk, client, inbox, tables, modules, since>>

Loaded(t) ==
  query' = [query EXCEPT !.pc = "next", !.stamp = 0, !.text = None,
              !.docs[Head(query.queue)] = t, !.queue = Tail(@) \o Enqueued(t)]

\* The cached form has the same time of change.
LoadCached ==
  LET m == Head(query.queue)
  IN  /\ query.pc = "load"
      /\ modules[m] # None /\ modules[m].stamp = query.stamp
      /\ Loaded(modules[m].text)
      /\ UNCHANGED <<disk, client, inbox, tables, modules, since>>

\* The file is read, some time after its time of change was taken; one that
\* is gone or has no AST is passed over and not cached.
LoadFile ==
  LET m == Head(query.queue)
  IN  /\ query.pc = "load"
      /\ ~(modules[m] # None /\ modules[m].stamp = query.stamp)
      /\ query' = IF On(m) # None /\ "session" \in On(m).ast
                  THEN [query EXCEPT !.pc = "keep", !.text = On(m)]
                  ELSE [query EXCEPT !.pc = "next", !.stamp = 0, !.queue = Tail(@)]
      /\ UNCHANGED <<disk, client, inbox, tables, modules, since>>

\* Mutant: the cache keeps the time of change found after reading.
KeepFileStampLate ==
  LET m == Head(query.queue)
  IN  /\ query.pc = "keep"
      /\ modules' = [modules EXCEPT ![m] = [stamp |-> disk[m].stamp, text |-> query.text]]
      /\ Loaded(query.text)
      /\ UNCHANGED <<disk, client, inbox, tables, since>>

\* What was read is cached under the time taken before.
KeepFile ==
  LET m == Head(query.queue)
  IN  /\ query.pc = "keep"
      /\ modules' = [modules EXCEPT ![m] = [stamp |-> query.stamp, text |-> query.text]]
      /\ Loaded(query.text)
      /\ UNCHANGED <<disk, client, inbox, tables, since>>

\* The snapshot is cached and the query answered from it.
Answer ==
  /\ query.pc = "next" /\ query.queue = << >>
  /\ cache' = [cache EXCEPT !.snapshots[query.uri] = query.docs]
  /\ query' = NoQuery
  /\ UNCHANGED <<disk, client, inbox, documents, files, graph, session, versions, modules, since>>

-----------------------------------------------------------------------------
(* The editor and other programs (external).                               *)

Send(m) == Len(inbox) < MaxInbox /\ inbox' = Append(inbox, m)
Notify(m) == sends < MaxSends /\ sends' = sends + 1 /\ Send(m)

Write(f, t) ==
  /\ disk[f].stamp < MaxWrites
  /\ disk' = [disk EXCEPT ![f] = [text |-> t, stamp |-> @.stamp + 1]]
  /\ since' = [since EXCEPT ![f] = @ \cup {t}]

\* The editor waits for the answer to its initialize request.
EditorOpens(f) ==
  /\ query.pc # "scan" /\ editor[f] = None /\ On(f) # None
  /\ editor' = [editor EXCEPT ![f] = [text |-> On(f), version |-> 1]]
  /\ Notify([kind |-> "didOpen", uri |-> f, text |-> On(f), version |-> 1])
  /\ UNCHANGED <<disk, tables, modules, query, since>>

EditorChanges(f, t) ==
  /\ editor[f] # None /\ editor[f].text # t
  /\ editor' = [editor EXCEPT ![f] = [text |-> t, version |-> @.version + 1]]
  /\ Notify([kind |-> "didChange", uri |-> f, text |-> t, version |-> editor[f].version + 1])
  /\ UNCHANGED <<disk, tables, modules, query, since>>

EditorSaves(f) ==
  /\ editor[f] # None
  /\ Write(f, editor[f].text)
  /\ Notify([kind |-> "didSave", uri |-> f])
  /\ UNCHANGED <<editor, tables, modules, query>>

EditorCloses(f) ==
  /\ editor[f] # None
  /\ editor' = [editor EXCEPT ![f] = None]
  /\ Notify([kind |-> "didClose", uri |-> f])
  /\ UNCHANGED <<disk, tables, modules, query, since>>

\* A request behind other messages is answered like one sent when they have
\* been handled.
EditorAsks(f) ==
  /\ editor[f] # None /\ inbox = << >> /\ query.pc = "idle"
  /\ \E kind \in {"diagnostic", "query"} : Send([kind |-> kind, uri |-> f])
  /\ UNCHANGED <<disk, client, tables, modules, query, since>>

OutsideWrite(f, t) ==
  /\ editor[f] = None /\ On(f) # t
  /\ Write(f, t)
  /\ UNCHANGED <<client, inbox, tables, modules, query>>

-----------------------------------------------------------------------------
\* handle_initialize: the files of the workspace are read, then indexed in
\* the order their directories list them.
Scan(f) ==
  /\ query.pc = "scan" /\ query.docs[f] # None
  /\ Become(Indexed(Tables, f, query.docs[f]))
  /\ query' = [query EXCEPT !.docs[f] = None]
  /\ UNCHANGED <<disk, client, inbox, modules>>
Scanned ==
  /\ query.pc = "scan" /\ \A f \in Files : query.docs[f] = None
  /\ query' = NoQuery
  /\ UNCHANGED <<disk, client, inbox, tables, modules, since>>

Init ==
  /\ disk = [f \in Files |-> [text |-> Initial[f], stamp |-> 0]]
  /\ editor = [f \in Files |-> None] /\ sends = 0 /\ inbox = << >>
  /\ documents = [f \in Files |-> None] /\ files = [f \in Files |-> None]
  /\ graph = [nodes |-> [f \in Files |-> None], providers |-> [m \in Files |-> {}],
              importers |-> [m \in Files |-> {}]]
  /\ session = [f \in Files |-> None] /\ versions = [f \in Files |-> 0]
  /\ cache = NoCache /\ modules = [f \in Files |-> None]
  /\ query = [NoQuery EXCEPT !.pc = "scan",
                !.docs = [f \in Files |-> IF f \in Library THEN None ELSE Initial[f]]]
  /\ since = [f \in Files |-> {On(f)}]

QueryStep == NextModule \/ LoadCached \/ LoadFile \/ KeepFile \/ Answer
Server(f) ==
  \/ Scan(f) \/ DidOpen(f) \/ DidChange(f) \/ DidSave(f) \/ DidClose(f) \/ Diagnostic(f) \/ Query(f)
Editor(f) ==
  \/ EditorOpens(f) \/ EditorSaves(f) \/ EditorCloses(f) \/ EditorAsks(f)
  \/ \E t \in Contents[f] : EditorChanges(f, t)

Next ==
  \/ Scanned \/ ImportModule \/ ImportsDone \/ QueryStep
  \/ \E f \in Files : Server(f) \/ Editor(f) \/ \E t \in Contents[f] \cup {None} : OutsideWrite(f, t)

Spec == Init /\ [][Next]_vars

-----------------------------------------------------------------------------
\* When the server has handled all messages, the incremental document, the
\* compiler session and the index all have the text of the editor's buffer,
\* whatever versions saves, fallbacks and reopening have used up.
EditorIsFollowed ==
  inbox = << >> =>
    \A f \in Files : editor[f] # None =>
      /\ documents[f] # None /\ documents[f].text = editor[f].text
      /\ session[f] # None /\ session[f].text = editor[f].text
      /\ files[f] = documents[f]

\* The tables tell one story: the session has the documents of the
\* incremental compiler in the version recorded for it, the index has their
\* text and AST, and the graph's two indexes are the inverse of what the
\* indexed files provide and import.
TablesAgree ==
  /\ \A f \in Files :
       /\ documents[f] = None <=> session[f] = None
       /\ documents[f] # None =>
            /\ session[f].text = documents[f].text /\ session[f].version = versions[f]
            /\ files[f] = documents[f]
  /\ \A m \in Files :
       /\ graph.providers[m] = {f \in Files : files[f] # None /\ m \in Provides(f, files[f].ast)}
       /\ graph.importers[m] = {f \in Files : files[f] # None /\ m \in Imports(files[f].ast)}

\* What loading modules from disk should find for a query on f: the modules
\* reached from f through modules that are not documents.
Reached(f) ==
  LET loadable == {m \in Files : session[m] = None /\ On(m) # None /\ "session" \in On(m).ast}
      wanted(t) == loadable \cap Range(Enqueued(t))
      closed == {S \in SUBSET loadable : /\ wanted(session[f].text) \subseteq S
                                         /\ \A n \in S : wanted(On(n)) \subseteq S}
  IN  {m \in loadable : \A S \in closed : m \in S}

\* A cached snapshot has the present text of every document, and of every
\* other module one it has had since the last mutation; as long as no file
\* has changed since, it has exactly the modules the document reaches.
SnapshotsExact ==
  \A f \in Files : cache.snapshots[f] # None =>
    LET docs == cache.snapshots[f]
    IN  /\ session[f] # None
        /\ \A m \in Files : IF session[m] # None THEN docs[m] = session[m].text
                            ELSE docs[m] \in since[m] \cup {None}
        /\ (\A m \in Files : since[m] = {On(m)}) =>
             {m \in Files : session[m] = None /\ docs[m] # None} = Reached(f)

\* A module file is cached with its time of change: as long as the file has
\* that time, the cache has its text, although the file may be written
\* between the steps of loading it.
ModuleCacheCoherent ==
  \A m \in Files : modules[m] # None /\ modules[m].stamp = disk[m].stamp =>
    modules[m].text = On(m)

\* compiler_api.cpp:2698: "The file metadata check still refreshes modules
\* that are edited outside the active LSP session."  A snapshot has, of every
\* file the editor does not have open, a text from after the last mutation.
OutsideEditsAreSeen ==
  inbox = << >> =>
    \A f, m \in Files : cache.snapshots[f] # None /\ editor[m] = None =>
      cache.snapshots[f][m] \in since[m] \cup {None}
=============================================================================
