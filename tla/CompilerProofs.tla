--------------------------- MODULE CompilerProofs ---------------------------
(***************************************************************************)
(* Proofs about the compiler in its two roles: the language server, for    *)
(* every number of files, whatever they may hold and name, and every       *)
(* bound on messages and writes; the code generator, for every set of      *)
(* names and every bound on the statements of a function and the           *)
(* iterations of a loop.                                                   *)
(*                                                                         *)
(* None of the properties is inductive. The server: that the editor is     *)
(* followed needs what the messages underway will bring (Followed); that   *)
(* the tables agree needs that the versions passed on are never refused    *)
(* (Numbered) and that the nodes of the graph are those of the indexed     *)
(* files (Fits); that the caches are exact needs what a search in          *)
(* progress has found and has yet to look at (Search), and what is known   *)
(* of a file between the time its time of change was taken and the time    *)
(* its text is cached (Stamped, ReadOK).                                   *)
(*                                                                         *)
(* The generator: the drop flags stand for the live values, one each       *)
(* (Exact), and what the analysis takes for certain is flagged (Certain),  *)
(* also in the scopes outside and while a branch is generated that the     *)
(* run does not take. The body of a loop holds what its instructions take  *)
(* at every iteration, because it holds it by itself (Held, Legal,         *)
(* Replays).                                                               *)
(***************************************************************************)
EXTENDS Compiler, WellFoundedInduction, SequenceTheorems, TLAPS

-----------------------------------------------------------------------------
\* The relation of WellFoundedInduction on the naturals is <.
LEMMA Less == \A x, y \in Nat : <<x, y>> \in OpToRel(<, Nat) <=> x < y
  BY DEF OpToRel

\* Every set of naturals has a least element.
LEMMA Least ==
  ASSUME NEW S, S \subseteq Nat, S # {}
  PROVE  \E x \in S : \A y \in S : x <= y
<1>1. PICK x \in S : \A y \in S : ~(<<y, x>> \in OpToRel(<, Nat))
  BY NatLessThanWellFounded, WFMin
<1>2. \A y \in S : ~(y < x)
  BY <1>1, Less, Zenon
<1>3. \A y \in S : x <= y
  BY <1>2
<1> QED
  BY <1>3

-----------------------------------------------------------------------------
(* The module graph.  The tables a handler works on are values of TableSet. *)

F == L!Files
AnyText == L!Text \cup {None}
Entry == L!Document \cup {None}
Version == [text : L!Text, version : Nat]
Node == [provides : SUBSET F, imports : SUBSET F]
Graph == [nodes : [F -> Node \cup {None}], providers : [F -> SUBSET F],
          importers : [F -> SUBSET F]]
Texts == [F -> AnyText]
Cache == [base : Texts \cup {None}, snapshots : [F -> Texts \cup {None}]]

TableSet ==
  [documents : [F -> Entry], files : [F -> Entry], graph : Graph,
   session : [F -> Version \cup {None}], versions : [F -> Nat], cache : Cache,
   since : [F -> SUBSET AnyText]]

NodeOf(f, d) == [provides |-> L!Provides(f, d.ast), imports |-> L!Imports(d.ast)]

\* The graph of the indexed files fs.
Fits(g, fs) ==
  /\ \A f \in F : g.nodes[f] = IF fs[f] = None THEN None ELSE NodeOf(f, fs[f])
  /\ \A m \in F : /\ g.providers[m] = {f \in F : fs[f] # None /\ m \in L!Provides(f, fs[f].ast)}
                  /\ g.importers[m] = {f \in F : fs[f] # None /\ m \in L!Imports(fs[f].ast)}

\* The node made of a document.
LEMMA NodeIsTyped ==
  ASSUME L!LanguageServerAssumption, NEW f \in F, NEW d \in L!Document
  PROVE  NodeOf(f, d) \in Node /\ NodeOf(f, d) # None
<1>1. d.ast \in L!Text \cup {None}
  BY DEF L!Document
<1>2. L!Provides(f, d.ast) \subseteq F /\ L!Imports(d.ast) \subseteq F
  <2>1. CASE d.ast = None
    BY <2>1 DEF L!Provides, L!Imports
  <2>2. CASE d.ast # None
    <3>1. d.ast.uses \in Seq(F) /\ d.ast.mods \in Seq(F)
      BY <1>1, <2>2 DEF L!LanguageServerAssumption, F
    <3>2. L!Range(d.ast.uses) \subseteq F /\ L!Range(d.ast.mods) \subseteq F
      BY <3>1 DEF L!Range
    <3> QED
      BY <2>2, <3>2 DEF L!Provides, L!Imports
  <2> QED
    BY <2>1, <2>2
<1>3. NodeOf(f, d) \in Node
  BY <1>2 DEF NodeOf, Node
<1>4. None \notin Node
  BY DEF L!LanguageServerAssumption, Node, F
<1> QED
  BY <1>3, <1>4

\* removeDocumentIndexes, field by field.
LEMMA UnindexedIs ==
  ASSUME NEW g \in Graph, NEW f \in F
  PROVE  \E u \in Graph :
           /\ u = L!Unindexed(g, f) /\ u.nodes = g.nodes
           /\ \A m \in F :
                /\ u.providers[m] = IF g.nodes[f] # None /\ m \in g.nodes[f].provides
                                    THEN g.providers[m] \ {f} ELSE g.providers[m]
                /\ u.importers[m] = IF g.nodes[f] # None /\ m \in g.nodes[f].imports
                                    THEN g.importers[m] \ {f} ELSE g.importers[m]
<1>1. PICK p, i : /\ p = [m \in F |-> IF g.nodes[f] # None /\ m \in g.nodes[f].provides
                                      THEN g.providers[m] \ {f} ELSE g.providers[m]]
                  /\ i = [m \in F |-> IF g.nodes[f] # None /\ m \in g.nodes[f].imports
                                      THEN g.importers[m] \ {f} ELSE g.importers[m]]
  OBVIOUS
<1>2. PICK u : u = [nodes |-> g.nodes, providers |-> p, importers |-> i]
  OBVIOUS
<1>3. L!Unindexed(g, f) = [g EXCEPT !.providers = p, !.importers = i]
  BY <1>1 DEF L!Unindexed, F
<1>4. L!Unindexed(g, f) = u
  BY <1>2, <1>3 DEF Graph
<1>5. p \in [F -> SUBSET F] /\ i \in [F -> SUBSET F]
  BY <1>1 DEF Graph
<1>6. u \in Graph
  BY <1>2, <1>5 DEF Graph
<1>7. u.nodes = g.nodes /\ u.providers = p /\ u.importers = i
  BY <1>2
<1>8. \A m \in F :
        /\ u.providers[m] = IF g.nodes[f] # None /\ m \in g.nodes[f].provides
                            THEN g.providers[m] \ {f} ELSE g.providers[m]
        /\ u.importers[m] = IF g.nodes[f] # None /\ m \in g.nodes[f].imports
                            THEN g.importers[m] \ {f} ELSE g.importers[m]
  BY <1>1, <1>7
<1> QED
  BY <1>4, <1>6, <1>7, <1>8, Zenon

\* A document that enters the index, and one that leaves it.
LEMMA UpsertFits ==
  ASSUME L!LanguageServerAssumption, NEW g \in Graph, NEW fs \in [F -> Entry], Fits(g, fs),
         NEW f \in F, NEW d \in L!Document
  PROVE  L!Upsert(g, f, d.ast) \in Graph /\ Fits(L!Upsert(g, f, d.ast), [fs EXCEPT ![f] = d])
<1>1. PICK u \in Graph :
        /\ u = L!Unindexed(g, f) /\ u.nodes = g.nodes
        /\ \A m \in F :
             /\ u.providers[m] = IF g.nodes[f] # None /\ m \in g.nodes[f].provides
                                 THEN g.providers[m] \ {f} ELSE g.providers[m]
             /\ u.importers[m] = IF g.nodes[f] # None /\ m \in g.nodes[f].imports
                                 THEN g.importers[m] \ {f} ELSE g.importers[m]
  BY UnindexedIs
<1>2. PICK n : n = NodeOf(f, d)
  OBVIOUS
<1>3. n \in Node /\ n # None
  BY <1>2, NodeIsTyped
<1>4. PICK p, i : /\ p = [m \in F |-> u.providers[m] \cup (IF m \in L!Provides(f, d.ast) THEN {f} ELSE {})]
                  /\ i = [m \in F |-> u.importers[m] \cup (IF m \in L!Imports(d.ast) THEN {f} ELSE {})]
  OBVIOUS
<1>5. L!Upsert(g, f, d.ast) = [u EXCEPT !.nodes[f] = n, !.providers = p, !.importers = i]
  BY <1>1, <1>2, <1>4 DEF L!Upsert, NodeOf, F
<1>6. PICK v : v = [nodes |-> [u.nodes EXCEPT ![f] = n], providers |-> p, importers |-> i]
  OBVIOUS
<1>7. L!Upsert(g, f, d.ast) = v
  BY <1>5, <1>6 DEF Graph
<1>8. v \in Graph
  <2>1. p \in [F -> SUBSET F] /\ i \in [F -> SUBSET F]
    BY <1>4 DEF Graph
  <2>2. [u.nodes EXCEPT ![f] = n] \in [F -> Node \cup {None}]
    BY <1>3 DEF Graph
  <2> QED
    BY <1>6, <2>1, <2>2 DEF Graph
<1>9. PICK z : z = [fs EXCEPT ![f] = d]
  OBVIOUS
<1>10. z \in [F -> Entry] /\ z[f] = d /\ d # None /\ \A x \in F : x # f => z[x] = fs[x]
  <2>1. d # None
    BY DEF L!LanguageServerAssumption
  <2> QED
    BY <1>9, <2>1 DEF Entry
<1>11. ASSUME NEW x \in F PROVE v.nodes[x] = IF z[x] = None THEN None ELSE NodeOf(x, z[x])
  <2>1. u.nodes = g.nodes
    BY <1>1
  <2>2. g.nodes[x] = IF fs[x] = None THEN None ELSE NodeOf(x, fs[x])
    BY DEF Fits
  <2> QED
    BY <1>2, <1>6, <1>10, <2>1, <2>2 DEF Graph
<1>12. ASSUME NEW m \in F, NEW x \in F
       PROVE  /\ x \in v.providers[m] <=> z[x] # None /\ m \in L!Provides(x, z[x].ast)
              /\ x \in v.importers[m] <=> z[x] # None /\ m \in L!Imports(z[x].ast)
  <2>1. /\ x \in g.providers[m] <=> fs[x] # None /\ m \in L!Provides(x, fs[x].ast)
        /\ x \in g.importers[m] <=> fs[x] # None /\ m \in L!Imports(fs[x].ast)
        /\ g.nodes[f] = IF fs[f] = None THEN None ELSE NodeOf(f, fs[f])
    BY DEF Fits
  <2>2. /\ u.providers[m] = IF g.nodes[f] # None /\ m \in g.nodes[f].provides
                            THEN g.providers[m] \ {f} ELSE g.providers[m]
        /\ u.importers[m] = IF g.nodes[f] # None /\ m \in g.nodes[f].imports
                            THEN g.importers[m] \ {f} ELSE g.importers[m]
    BY <1>1
  <2>3. /\ v.providers[m] = u.providers[m] \cup (IF m \in L!Provides(f, d.ast) THEN {f} ELSE {})
        /\ v.importers[m] = u.importers[m] \cup (IF m \in L!Imports(d.ast) THEN {f} ELSE {})
    BY <1>4, <1>6
  <2>4. CASE x # f
    <3>1. /\ x \in v.providers[m] <=> x \in g.providers[m]
          /\ x \in v.importers[m] <=> x \in g.importers[m]
      BY <2>2, <2>3, <2>4
    <3> QED
      BY <1>10, <2>1, <2>4, <3>1
  <2>5. CASE x = f
    <3>1. f \notin u.providers[m] /\ f \notin u.importers[m]
      <4>1. CASE fs[f] = None
        BY <2>1, <2>2, <2>5, <4>1
      <4>2. CASE fs[f] # None
        <5>1. fs[f] \in L!Document
          BY <4>2 DEF Entry
        <5>2. NodeOf(f, fs[f]) # None
          BY <5>1, NodeIsTyped
        <5>3. /\ g.nodes[f] # None /\ g.nodes[f].provides = L!Provides(f, fs[f].ast)
              /\ g.nodes[f].imports = L!Imports(fs[f].ast)
          BY <2>1, <4>2, <5>2 DEF NodeOf
        <5> QED
          BY <2>1, <2>2, <2>5, <5>3
      <4> QED
        BY <4>1, <4>2
    <3> QED
      BY <1>10, <2>3, <2>5, <3>1
  <2> QED
    BY <2>4, <2>5
<1>13. \A m \in F : v.providers[m] \subseteq F /\ v.importers[m] \subseteq F
  BY <1>8 DEF Graph
<1>14. ASSUME NEW m \in F
       PROVE  /\ v.providers[m] = {x \in F : z[x] # None /\ m \in L!Provides(x, z[x].ast)}
              /\ v.importers[m] = {x \in F : z[x] # None /\ m \in L!Imports(z[x].ast)}
  BY <1>12, <1>13
<1>15. Fits(v, z)
  BY <1>11, <1>14 DEF Fits
<1> QED
  BY <1>7, <1>8, <1>9, <1>15

LEMMA RemovedFits ==
  ASSUME L!LanguageServerAssumption, NEW g \in Graph, NEW fs \in [F -> Entry], Fits(g, fs),
         NEW f \in F
  PROVE  L!Removed(g, f) \in Graph /\ Fits(L!Removed(g, f), [fs EXCEPT ![f] = None])
<1>1. PICK u \in Graph :
        /\ u = L!Unindexed(g, f) /\ u.nodes = g.nodes
        /\ \A m \in F :
             /\ u.providers[m] = IF g.nodes[f] # None /\ m \in g.nodes[f].provides
                                 THEN g.providers[m] \ {f} ELSE g.providers[m]
             /\ u.importers[m] = IF g.nodes[f] # None /\ m \in g.nodes[f].imports
                                 THEN g.importers[m] \ {f} ELSE g.importers[m]
  BY UnindexedIs
<1>2. PICK v : v = [nodes |-> [u.nodes EXCEPT ![f] = None], providers |-> u.providers,
                    importers |-> u.importers]
  OBVIOUS
<1>3. L!Removed(g, f) = v
  BY <1>1, <1>2 DEF L!Removed, Graph
<1>4. v \in Graph
  <2>1. [u.nodes EXCEPT ![f] = None] \in [F -> Node \cup {None}]
    BY DEF Graph
  <2> QED
    BY <1>2, <2>1 DEF Graph
<1>5. PICK z : z = [fs EXCEPT ![f] = None]
  OBVIOUS
<1>6. z \in [F -> Entry] /\ z[f] = None /\ \A x \in F : x # f => z[x] = fs[x]
  BY <1>5 DEF Entry
<1>7. ASSUME NEW x \in F PROVE v.nodes[x] = IF z[x] = None THEN None ELSE NodeOf(x, z[x])
  <2>1. u.nodes = g.nodes
    BY <1>1
  <2>2. g.nodes[x] = IF fs[x] = None THEN None ELSE NodeOf(x, fs[x])
    BY DEF Fits
  <2> QED
    BY <1>2, <1>6, <2>1, <2>2 DEF Graph
<1>8. ASSUME NEW m \in F, NEW x \in F
      PROVE  /\ x \in v.providers[m] <=> z[x] # None /\ m \in L!Provides(x, z[x].ast)
             /\ x \in v.importers[m] <=> z[x] # None /\ m \in L!Imports(z[x].ast)
  <2>1. /\ x \in g.providers[m] <=> fs[x] # None /\ m \in L!Provides(x, fs[x].ast)
        /\ x \in g.importers[m] <=> fs[x] # None /\ m \in L!Imports(fs[x].ast)
        /\ g.nodes[f] = IF fs[f] = None THEN None ELSE NodeOf(f, fs[f])
    BY DEF Fits
  <2>2. /\ v.providers[m] = IF g.nodes[f] # None /\ m \in g.nodes[f].provides
                            THEN g.providers[m] \ {f} ELSE g.providers[m]
        /\ v.importers[m] = IF g.nodes[f] # None /\ m \in g.nodes[f].imports
                            THEN g.importers[m] \ {f} ELSE g.importers[m]
    BY <1>1, <1>2
  <2>3. CASE x # f
    <3>1. /\ x \in v.providers[m] <=> x \in g.providers[m]
          /\ x \in v.importers[m] <=> x \in g.importers[m]
      BY <2>2, <2>3
    <3> QED
      BY <1>6, <2>1, <2>3, <3>1
  <2>4. CASE x = f
    <3>1. f \notin v.providers[m] /\ f \notin v.importers[m]
      <4>1. CASE fs[f] = None
        BY <2>1, <2>2, <2>4, <4>1
      <4>2. CASE fs[f] # None
        <5>1. fs[f] \in L!Document
          BY <4>2 DEF Entry
        <5>2. NodeOf(f, fs[f]) # None
          BY <5>1, NodeIsTyped
        <5>3. /\ g.nodes[f] # None /\ g.nodes[f].provides = L!Provides(f, fs[f].ast)
              /\ g.nodes[f].imports = L!Imports(fs[f].ast)
          BY <2>1, <4>2, <5>2 DEF NodeOf
        <5> QED
          BY <2>1, <2>2, <2>4, <5>3
      <4> QED
        BY <4>1, <4>2
    <3> QED
      BY <1>6, <2>4, <3>1
  <2> QED
    BY <2>3, <2>4
<1>9. \A m \in F : v.providers[m] \subseteq F /\ v.importers[m] \subseteq F
  BY <1>4 DEF Graph
<1>10. ASSUME NEW m \in F
       PROVE  /\ v.providers[m] = {x \in F : z[x] # None /\ m \in L!Provides(x, z[x].ast)}
              /\ v.importers[m] = {x \in F : z[x] # None /\ m \in L!Imports(z[x].ast)}
  BY <1>8, <1>9
<1>11. Fits(v, z)
  BY <1>7, <1>10 DEF Fits
<1> QED
  BY <1>3, <1>4, <1>5, <1>11

-----------------------------------------------------------------------------
\* The session has each document in the version recorded for it.
Numbered(s) ==
  \A g \in F : IF s.session[g] = None THEN s.versions[g] = 0
               ELSE s.session[g].version = s.versions[g]

DiskOK == lDisk \in [F -> [text : AnyText, stamp : Nat]]

\* z is s after a mutation: nothing is cached, the texts on disk count anew.
Mutated(z) == z.cache = L!NoCache /\ z.since = [g \in F |-> {L!On(g)}]

\* z is s with the document d of f.
Put(s, f, d, z) ==
  /\ z.documents = [s.documents EXCEPT ![f] = d]
  /\ z.files = s.files /\ z.graph = s.graph /\ z.session = s.session
  /\ z.versions = s.versions /\ z.cache = s.cache /\ z.since = s.since

\* z is s with the text t of f in the compiler session.
Sent(s, f, t, z) ==
  /\ Mutated(z) /\ Numbered(z)
  /\ z.documents = s.documents /\ z.files = s.files /\ z.graph = s.graph
  /\ \E w \in Nat \ {0} :
       /\ z.session = [s.session EXCEPT ![f] = [text |-> t, version |-> w]]
       /\ z.versions = [s.versions EXCEPT ![f] = w]

\* A document is put among the documents of the incremental compiler.
LEMMA DocumentPut ==
  ASSUME NEW s \in TableSet, NEW f \in F, NEW d \in L!Document,
         NEW z, z = [s EXCEPT !.documents[f] = d]
  PROVE  z \in TableSet /\ Put(s, f, d, z)
<1>1. PICK D : D = [s.documents EXCEPT ![f] = d]
  OBVIOUS
<1>2. D \in [F -> Entry]
  BY <1>1 DEF TableSet, Entry
<1>3. PICK r : r = [documents |-> D, files |-> s.files, graph |-> s.graph, session |-> s.session,
                    versions |-> s.versions, cache |-> s.cache, since |-> s.since]
  OBVIOUS
<1>4. z = [s EXCEPT !.documents = D]
  BY <1>1 DEF TableSet
<1>5. z = r
  BY <1>3, <1>4 DEF TableSet
<1>6. r \in TableSet
  BY <1>2, <1>3 DEF TableSet
<1> QED
  BY <1>1, <1>3, <1>5, <1>6 DEF Put

\* openDocument puts one with the text t.
LEMMA OpenedIs ==
  ASSUME NEW s \in TableSet, NEW f \in F, NEW t \in L!Text
  PROVE  \E z \in TableSet, d \in L!Document :
           z = L!Opened(s, f, t) /\ d.text = t /\ Put(s, f, d, z)
<1>1. PICK d : d = [text |-> t, ast |-> L!ParseDocument(t, None)]
  OBVIOUS
<1>2. d \in L!Document /\ d.text = t
  BY <1>1 DEF L!Document, L!ParseDocument
<1>3. PICK z : z = [s EXCEPT !.documents[f] = d]
  OBVIOUS
<1>4. z = L!Opened(s, f, t)
  BY <1>1, <1>3 DEF L!Opened
<1> QED
  BY <1>2, <1>3, <1>4, DocumentPut

\* So does setDocumentText.
LEMMA TextSetIs ==
  ASSUME NEW s \in TableSet, NEW f \in F, NEW t \in L!Text
  PROVE  \E z \in TableSet, d \in L!Document :
           z = L!TextSet(s, f, t) /\ d.text = t /\ Put(s, f, d, z)
<1>1. PICK a : a = IF s.documents[f] = None THEN None ELSE s.documents[f].ast
  OBVIOUS
<1>2. a \in AnyText
  <2>1. s.documents[f] \in Entry
    BY DEF TableSet
  <2> QED
    BY <1>1, <2>1 DEF Entry, L!Document, AnyText
<1>3. PICK d : d = [text |-> t, ast |-> L!ParseDocument(t, a)]
  OBVIOUS
<1>4. d \in L!Document /\ d.text = t
  BY <1>2, <1>3 DEF L!Document, L!ParseDocument, AnyText
<1>5. PICK z : z = [s EXCEPT !.documents[f] = d]
  OBVIOUS
<1>6. z = L!TextSet(s, f, t)
  BY <1>1, <1>3, <1>5 DEF L!TextSet
<1> QED
  BY <1>4, <1>5, <1>6, DocumentPut

\* The compiler session never refuses what the server passes on: the version
\* is higher than the last one.
LEMMA UpdatedIs ==
  ASSUME L!LanguageServerAssumption, DiskOK, NEW s \in TableSet, Numbered(s), NEW f \in F, NEW t \in L!Text,
         NEW v \in Nat \ {0}
  PROVE  \E z \in TableSet : z = L!Updated(s, f, t, v) /\ Sent(s, f, t, z)
<1>1. s.versions[f] \in Nat /\ s.session[f] \in Version \cup {None}
  BY DEF TableSet
<1>2. \E w \in Nat \ {0} :
        L!Updated(s, f, t, v) =
          L!Invalidated([s EXCEPT !.session[f] = [text |-> t, version |-> w], !.versions[f] = w])
  <2>1. CASE s.versions[f] = 0
    BY <2>1 DEF L!Updated
  <2>2. CASE s.versions[f] # 0
    <3>1. PICK w : w = L!NextVersion(s, f, v)
      OBVIOUS
    <3>2. w \in Nat \ {0} /\ w > s.versions[f]
      BY <1>1, <3>1 DEF L!NextVersion
    <3>3. s.session[f] # None /\ s.session[f].version = s.versions[f]
      BY <2>2 DEF Numbered
    <3>4. ~(w <= s.session[f].version)
      BY <1>1, <3>2, <3>3
    <3>5. L!Updated(s, f, t, v) = L!Changed(s, f, t, w)
      BY <2>2, <3>1 DEF L!Updated
    <3>6. L!Changed(s, f, t, w) =
          L!Invalidated([s EXCEPT !.session[f] = [text |-> t, version |-> w], !.versions[f] = w])
      BY <3>4 DEF L!Changed
    <3> QED
      BY <3>2, <3>5, <3>6
  <2> QED
    BY <2>1, <2>2
<1>3. PICK w \in Nat \ {0} :
        L!Updated(s, f, t, v) =
          L!Invalidated([s EXCEPT !.session[f] = [text |-> t, version |-> w], !.versions[f] = w])
  BY <1>2
<1>4. PICK S, V, C, N :
        /\ S = [s.session EXCEPT ![f] = [text |-> t, version |-> w]]
        /\ V = [s.versions EXCEPT ![f] = w]
        /\ C = L!NoCache /\ N = [g \in F |-> {L!On(g)}]
  OBVIOUS
<1>5. S \in [F -> Version \cup {None}] /\ V \in [F -> Nat]
  <2>1. [text |-> t, version |-> w] \in Version
    BY DEF Version
  <2> QED
    BY <1>4, <2>1 DEF TableSet
<1>6. C \in Cache
  BY <1>4 DEF L!NoCache, Cache, F
<1>7. N \in [F -> SUBSET AnyText]
  BY <1>4 DEF DiskOK, L!On
<1>8. PICK r : r = [documents |-> s.documents, files |-> s.files, graph |-> s.graph, session |-> S,
                    versions |-> V, cache |-> C, since |-> N]
  OBVIOUS
<1>9. PICK x : x = [s EXCEPT !.session = S, !.versions = V]
  OBVIOUS
<1>10. x = [s EXCEPT !.session[f] = [text |-> t, version |-> w], !.versions[f] = w]
  BY <1>4, <1>9 DEF TableSet
<1>11. PICK y : y = [documents |-> s.documents, files |-> s.files, graph |-> s.graph, session |-> S,
                     versions |-> V, cache |-> s.cache, since |-> s.since]
  OBVIOUS
<1>12. x = y
  <2>1. PICK e : e = [documents |-> s.documents, files |-> s.files, graph |-> s.graph,
                      session |-> s.session, versions |-> s.versions, cache |-> s.cache,
                      since |-> s.since]
    OBVIOUS
  <2>2. s = e
    BY <2>1 DEF TableSet
  <2>3. PICK e2 : e2 = [documents |-> s.documents, files |-> s.files, graph |-> s.graph,
                        session |-> S, versions |-> s.versions, cache |-> s.cache,
                        since |-> s.since]
    OBVIOUS
  <2>4. PICK x2 : x2 = [e EXCEPT !.session = S]
    OBVIOUS
  <2>5. x2 = e2
    BY <2>1, <2>3, <2>4
  <2>6. x = [x2 EXCEPT !.versions = V]
    BY <1>9, <2>2, <2>4
  <2>7. x = [e2 EXCEPT !.versions = V]
    BY <2>5, <2>6
  <2> QED
    BY <1>11, <2>3, <2>7
<1>13. L!Invalidated(y) = [y EXCEPT !.cache = C, !.since = N]
  BY <1>4 DEF L!Invalidated, F
<1>14. L!Invalidated(y) = r
  BY <1>8, <1>11, <1>13
<1>15. r \in TableSet
  BY <1>5, <1>6, <1>7, <1>8 DEF TableSet
<1>16. /\ r.documents = s.documents /\ r.files = s.files /\ r.graph = s.graph /\ r.session = S
       /\ r.versions = V /\ r.cache = C /\ r.since = N
  BY <1>8
<1>17. Numbered(r)
  <2>1. S[f] # None /\ S[f].version = w /\ V[f] = w
    <3>1. [text |-> t, version |-> w] \in Version
      BY DEF Version
    <3>2. [text |-> t, version |-> w] # None
      BY <3>1 DEF L!LanguageServerAssumption, Version
    <3> QED
      BY <1>4, <3>2 DEF TableSet
  <2> QED
    BY <1>4, <1>16, <2>1 DEF Numbered, TableSet
<1>18. L!Updated(s, f, t, v) = r
  BY <1>3, <1>10, <1>12, <1>14
<1>19. Mutated(r)
  BY <1>4, <1>16 DEF Mutated
<1>20. /\ r.session = [s.session EXCEPT ![f] = [text |-> t, version |-> w]]
       /\ r.versions = [s.versions EXCEPT ![f] = w]
  BY <1>4, <1>16
<1>21. Sent(s, f, t, r)
  BY <1>16, <1>17, <1>19, <1>20 DEF Sent
<1> QED
  BY <1>15, <1>18, <1>21

-----------------------------------------------------------------------------
\* Documents, session and index have the same text of g.
Agreed(s, g) ==
  /\ s.documents[g] = None <=> s.session[g] = None
  /\ s.documents[g] # None => /\ s.session[g].text = s.documents[g].text
                              /\ s.files[g] = s.documents[g]

\* The tables in the middle of a handler of f, and when it is done.
Elsewhere(s, f) ==
  Numbered(s) /\ Fits(s.graph, s.files) /\ \A g \in F : g # f => Agreed(s, g)
Story(s) == Numbered(s) /\ Fits(s.graph, s.files) /\ \A g \in F : Agreed(s, g)

\* z is s with the document d of f in all tables.
Settled(s, f, d, z) ==
  Story(z) /\ Mutated(z) /\ z.documents = [s.documents EXCEPT ![f] = d]

\* reindex_incremental_document keeps graph and index in step.
LEMMA ReindexedIs ==
  ASSUME L!LanguageServerAssumption, NEW s \in TableSet, NEW f \in F, Fits(s.graph, s.files),
         s.documents[f] \in L!Document
  PROVE  \E z \in TableSet :
           /\ z = L!Reindexed(s, f) /\ Fits(z.graph, z.files)
           /\ z.documents = s.documents /\ z.files = [s.files EXCEPT ![f] = s.documents[f]]
           /\ z.session = s.session /\ z.versions = s.versions /\ z.cache = s.cache
           /\ z.since = s.since
<1>1. PICK d \in L!Document : d = s.documents[f]
  OBVIOUS
<1>2. PICK X, G : X = [s.files EXCEPT ![f] = d] /\ G = L!Upsert(s.graph, f, d.ast)
  OBVIOUS
<1>3. s.graph \in Graph /\ s.files \in [F -> Entry]
  BY DEF TableSet
<1>4. G \in Graph /\ Fits(G, X)
  BY <1>2, <1>3, UpsertFits
<1>5. X \in [F -> Entry]
  BY <1>2, <1>3 DEF Entry
<1>6. PICK e : e = [documents |-> s.documents, files |-> s.files, graph |-> s.graph,
                    session |-> s.session, versions |-> s.versions, cache |-> s.cache,
                    since |-> s.since]
  OBVIOUS
<1>7. s = e
  BY <1>6 DEF TableSet
<1>8. PICK e2 : e2 = [documents |-> s.documents, files |-> X, graph |-> s.graph,
                      session |-> s.session, versions |-> s.versions, cache |-> s.cache,
                      since |-> s.since]
  OBVIOUS
<1>9. PICK r : r = [documents |-> s.documents, files |-> X, graph |-> G,
                    session |-> s.session, versions |-> s.versions, cache |-> s.cache,
                    since |-> s.since]
  OBVIOUS
<1>10. PICK x2 : x2 = [s EXCEPT !.files = X]
  OBVIOUS
<1>11. x2 = e2
  BY <1>8, <1>10 DEF TableSet
<1>12. L!Reindexed(s, f) = [x2 EXCEPT !.graph = G]
  <2>1. L!Reindexed(s, f) = [s EXCEPT !.files[f] = d, !.graph = G]
    BY <1>1, <1>2 DEF L!Reindexed
  <2>2. [s EXCEPT !.files[f] = d] = x2
    BY <1>2, <1>10 DEF TableSet
  <2>3. [s EXCEPT !.files[f] = d, !.graph = G] = [[s EXCEPT !.files[f] = d] EXCEPT !.graph = G]
    OBVIOUS
  <2> QED
    BY <2>1, <2>2, <2>3
<1>13. L!Reindexed(s, f) = r
  <2>1. L!Reindexed(s, f) = [e2 EXCEPT !.graph = G]
    BY <1>11, <1>12
  <2> QED
    BY <1>8, <1>9, <2>1
<1>14. r \in TableSet
  BY <1>4, <1>5, <1>9 DEF TableSet
<1>15. /\ r.documents = s.documents /\ r.files = X /\ r.graph = G /\ r.session = s.session
       /\ r.versions = s.versions /\ r.cache = s.cache /\ r.since = s.since
  BY <1>9
<1>16. r.files = [s.files EXCEPT ![f] = s.documents[f]] /\ Fits(r.graph, r.files)
  BY <1>1, <1>2, <1>4, <1>15
<1> QED
  BY <1>13, <1>14, <1>15, <1>16, Zenon

\* A document put, passed on to the session and indexed: the tables agree.
LEMMA SettledIs ==
  ASSUME L!LanguageServerAssumption, DiskOK, NEW s \in TableSet, NEW f \in F, Elsewhere(s, f),
         NEW d \in L!Document, NEW v \in Nat \ {0}, NEW p \in TableSet, Put(s, f, d, p)
  PROVE  \E z \in TableSet :
           z = L!Reindexed(L!Updated(p, f, d.text, v), f) /\ Settled(s, f, d, z)
<1>1. /\ p.documents = [s.documents EXCEPT ![f] = d]
      /\ p.files = s.files /\ p.graph = s.graph /\ p.session = s.session
      /\ p.versions = s.versions
  BY DEF Put
<1>2. Numbered(p) /\ Fits(p.graph, p.files)
  BY <1>1 DEF Elsewhere, Numbered
<1>3. PICK t \in L!Text : t = d.text
  BY DEF L!Document
<1>4. PICK u \in TableSet : u = L!Updated(p, f, t, v) /\ Sent(p, f, t, u)
  BY <1>2, UpdatedIs
<1>5. PICK w \in Nat \ {0} :
        /\ Mutated(u) /\ Numbered(u)
        /\ u.documents = p.documents /\ u.files = p.files /\ u.graph = p.graph
        /\ u.session = [p.session EXCEPT ![f] = [text |-> t, version |-> w]]
  BY <1>4 DEF Sent
<1>6. u.documents[f] = d
  BY <1>1, <1>5 DEF TableSet
<1>7. PICK z \in TableSet :
           /\ z = L!Reindexed(u, f) /\ Fits(z.graph, z.files)
           /\ z.documents = u.documents /\ z.files = [u.files EXCEPT ![f] = u.documents[f]]
           /\ z.session = u.session /\ z.versions = u.versions /\ z.cache = u.cache
           /\ z.since = u.since
  <2>1. Fits(u.graph, u.files)
    BY <1>2, <1>5
  <2> QED
    BY <1>6, <2>1, ReindexedIs
<1>8. Mutated(z) /\ Numbered(z)
  BY <1>5, <1>7 DEF Mutated, Numbered
<1>9. /\ z.documents = [s.documents EXCEPT ![f] = d]
      /\ z.files = [s.files EXCEPT ![f] = d]
      /\ z.session = [s.session EXCEPT ![f] = [text |-> t, version |-> w]]
  BY <1>1, <1>5, <1>6, <1>7
<1>10. d # None /\ [text |-> t, version |-> w] # None
  <2>1. [text |-> t, version |-> w] \in [text : L!Text, version : Nat]
    OBVIOUS
  <2> QED
    BY <2>1 DEF L!LanguageServerAssumption
<1>11. ASSUME NEW g \in F PROVE Agreed(z, g)
  <2>0. /\ s.documents \in [F -> Entry] /\ s.files \in [F -> Entry]
        /\ s.session \in [F -> Version \cup {None}]
    BY DEF TableSet
  <2>1. CASE g = f
    <3>1. z.documents[f] = d /\ z.files[f] = d /\ z.session[f] = [text |-> t, version |-> w]
      BY <1>9, <2>0
    <3> QED
      BY <1>3, <1>10, <2>1, <3>1 DEF Agreed
  <2>2. CASE g # f
    <3>1. /\ z.documents[g] = s.documents[g] /\ z.files[g] = s.files[g]
          /\ z.session[g] = s.session[g]
      BY <1>9, <2>0, <2>2
    <3>2. Agreed(s, g)
      BY <2>2 DEF Elsewhere
    <3> QED
      BY <3>1, <3>2 DEF Agreed
  <2> QED
    BY <2>1, <2>2
<1>12. z = L!Reindexed(L!Updated(p, f, d.text, v), f)
  BY <1>3, <1>4, <1>7
<1>13. Story(z)
  BY <1>7, <1>8, <1>11 DEF Story
<1>14. Settled(s, f, d, z)
  BY <1>8, <1>9, <1>13 DEF Settled
<1> QED
  BY <1>12, <1>14

\* index_document leaves the tables in agreement.
LEMMA IndexedIs ==
  ASSUME L!LanguageServerAssumption, DiskOK, NEW s \in TableSet, NEW f \in F, Elsewhere(s, f),
         NEW t \in L!Text
  PROVE  \E z \in TableSet, d \in L!Document :
           z = L!Indexed(s, f, t) /\ d.text = t /\ Settled(s, f, d, z)
<1>1. PICK p \in TableSet, d \in L!Document :
        p = L!Opened(s, f, t) /\ d.text = t /\ Put(s, f, d, p)
  BY OpenedIs
<1>3. 1 \in Nat \ {0}
  OBVIOUS
<1>4. PICK z \in TableSet :
        z = L!Reindexed(L!Updated(p, f, d.text, 1), f) /\ Settled(s, f, d, z)
  BY <1>1, <1>3, SettledIs
<1>5. z = L!Indexed(s, f, t)
  BY <1>1, <1>4 DEF L!Indexed
<1> QED
  BY <1>1, <1>4, <1>5

\* What a handler may do to the tables: all of them agree in the end, and
\* unless it was a mutation the session and what is cached are as before.
Became(s, z) ==
  /\ z \in TableSet /\ Story(z)
  /\ Mutated(z) \/ (z.session = s.session /\ z.cache = s.cache /\ z.since = s.since)

\* Indexing a file that is not indexed touches no document there is.
LEMMA GotOrIndexedIs ==
  ASSUME L!LanguageServerAssumption, DiskOK, NEW s \in TableSet, NEW f \in F, Story(s)
  PROVE  /\ Became(s, L!GotOrIndexed(s, f))
         /\ \A g \in F : s.documents[g] # None => L!GotOrIndexed(s, f).documents[g] = s.documents[g]
<1>1. CASE s.files[f] # None \/ L!On(f) = None
  <2>1. L!GotOrIndexed(s, f) = s
    BY <1>1 DEF L!GotOrIndexed
  <2> QED
    BY <2>1 DEF Became
<1>2. CASE s.files[f] = None /\ L!On(f) # None
  <2>1. L!GotOrIndexed(s, f) = L!Indexed(s, f, L!On(f))
    BY <1>2 DEF L!GotOrIndexed
  <2>2. PICK t \in L!Text : t = L!On(f)
    BY <1>2 DEF DiskOK, L!On, AnyText
  <2>3. Elsewhere(s, f)
    BY DEF Story, Elsewhere
  <2>4. PICK z \in TableSet, d \in L!Document :
           z = L!Indexed(s, f, t) /\ d.text = t /\ Settled(s, f, d, z)
    BY <2>3, IndexedIs
  <2>5. Became(s, z)
    BY <2>4 DEF Became, Settled
  <2>6. s.documents[f] = None
    BY <1>2 DEF Story, Agreed
  <2>7. ASSUME NEW g \in F, s.documents[g] # None PROVE z.documents[g] = s.documents[g]
    BY <2>4, <2>6, <2>7 DEF TableSet, Settled
  <2> QED
    BY <2>1, <2>2, <2>4, <2>5, <2>7
<1> QED
  BY <1>1, <1>2

-----------------------------------------------------------------------------
\* The kinds of messages: what they bring in is a text or nothing.
Notes == {"didOpen", "didChange", "didSave", "didClose"}
Update == [kind : {"didOpen", "didChange"}, uri : F, text : L!Text, version : Nat]
Signal == [kind : {"didSave", "didClose", "diagnostic", "query"}, uri : F]

\* The query is a record whose documents are there while it works on them.
QueryOK(q) ==
  /\ q \in [pc : {"idle", "scan", "import", "next", "load", "keep"}, uri : Nat,
            docs : Texts \cup {None}, queue : Seq(F), stamp : Nat, text : AnyText]
  /\ q.pc \in {"scan", "next", "load", "keep"} => q.docs \in Texts
  /\ q.pc \in {"next", "load", "keep"} => q.uri \in F

LsTypeOK ==
  /\ DiskOK /\ lEditor \in [F -> Version \cup {None}] /\ lInbox \in Seq(Update \cup Signal)
  /\ L!Tables \in TableSet
  /\ lModules \in [F -> [stamp : Nat, text : L!Text] \cup {None}]
  /\ QueryOK(lQuery)

\* The fields of the record of the tables.
LEMMA TablesAre ==
  /\ L!Tables.documents = lDocuments /\ L!Tables.files = lFiles /\ L!Tables.graph = lGraph
  /\ L!Tables.session = lSession /\ L!Tables.versions = lVersions /\ L!Tables.cache = lCache
  /\ L!Tables.since = lSince
  BY DEF L!Tables

\* Become makes the tables what it says.
LEMMA BecomeTables ==
  ASSUME NEW z \in TableSet, L!Become(z)
  PROVE  L!Tables' = z
<1>1. PICK r : r = L!Tables'
  OBVIOUS
<1>2. r = [documents |-> z.documents, files |-> z.files, graph |-> z.graph,
           session |-> z.session, versions |-> z.versions, cache |-> z.cache,
           since |-> z.since]
  BY <1>1 DEF L!Tables, L!Become
<1>3. r = z
  BY <1>2 DEF TableSet
<1> QED
  BY <1>1, <1>3

\* The message that is handled.
LEMMA MessageIs ==
  ASSUME LsTypeOK, NEW kind, NEW f, L!Handle(kind, f)
  PROVE  /\ Head(lInbox) \in Update \cup Signal /\ lInbox # << >> /\ lInbox' = Tail(lInbox)
         /\ Head(lInbox).kind = kind /\ Head(lInbox).uri = f /\ f \in F
         /\ kind \in {"didOpen", "didChange"} =>
              Head(lInbox).text \in L!Text /\ Head(lInbox).version + 1 \in Nat \ {0}
<1>1. PICK b \in Seq(Update \cup Signal) : b = lInbox
  BY DEF LsTypeOK
<1>2. b # << >> /\ lInbox' = Tail(b) /\ Head(b).kind = kind /\ Head(b).uri = f
  BY <1>1 DEF L!Handle
<1>3. PICK m \in Update \cup Signal : m = Head(b)
  BY <1>2
<1>4. m.uri \in F
  BY DEF Update, Signal
<1>5. ASSUME m.kind \in {"didOpen", "didChange"}
      PROVE  m.text \in L!Text /\ m.version + 1 \in Nat \ {0}
  <2>1. m \in Update
    BY <1>5 DEF Signal
  <2> QED
    BY <2>1 DEF Update
<1> QED
  BY <1>1, <1>2, <1>3, <1>4, <1>5

\* didOpen leaves the tables in agreement on the text of the message.
LEMMA DidOpenIs ==
  ASSUME L!LanguageServerAssumption, LsTypeOK, Story(L!Tables), NEW f \in F, L!DidOpen(f)
  PROVE  \E z \in TableSet, d \in L!Document :
           L!Become(z) /\ Settled(L!Tables, f, d, z) /\ d.text = Head(lInbox).text
<1>1. PICK t, v : t = Head(lInbox).text /\ v = Head(lInbox).version + 1
  OBVIOUS
<1>2. L!Handle("didOpen", f)
  BY DEF L!DidOpen
<1>3. t \in L!Text /\ v \in Nat \ {0}
  BY <1>1, <1>2, MessageIs
<1>4. PICK s \in TableSet : s = L!Tables
  BY DEF LsTypeOK
<1>5. PICK p \in TableSet, d \in L!Document : p = L!Opened(s, f, t) /\ d.text = t /\ Put(s, f, d, p)
  BY <1>3, OpenedIs
<1>6. Elsewhere(s, f) /\ DiskOK
  BY <1>4 DEF Story, Elsewhere, LsTypeOK
<1>7. PICK z \in TableSet :
        z = L!Reindexed(L!Updated(p, f, d.text, v), f) /\ Settled(s, f, d, z)
  BY <1>3, <1>5, <1>6, SettledIs
<1>8. L!Become(z)
  BY <1>1, <1>4, <1>5, <1>7 DEF L!DidOpen
<1> QED
  BY <1>1, <1>4, <1>5, <1>7, <1>8

\* So does didChange, by whichever of its ways.
LEMMA DidChangeIs ==
  ASSUME L!LanguageServerAssumption, LsTypeOK, Story(L!Tables), NEW f \in F, L!DidChange(f)
  PROVE  \E z \in TableSet, d \in L!Document :
           L!Become(z) /\ Settled(L!Tables, f, d, z) /\ d.text = Head(lInbox).text
<1>1. PICK t, v : t = Head(lInbox).text /\ v = Head(lInbox).version + 1
  OBVIOUS
<1>2. L!Handle("didChange", f)
  BY DEF L!DidChange
<1>3. t \in L!Text /\ v \in Nat \ {0}
  BY <1>1, <1>2, MessageIs
<1>4. PICK s \in TableSet : s = L!Tables
  BY DEF LsTypeOK
<1>5. Elsewhere(s, f) /\ DiskOK
  BY <1>4 DEF Story, Elsewhere, LsTypeOK
<1>6. PICK o : o = IF lDocuments[f] = None /\ L!On(f) # None THEN L!Opened(s, f, L!On(f)) ELSE s
  OBVIOUS
<1>7. /\ o \in TableSet /\ Elsewhere(o, f)
      /\ \A d \in L!Document : [o.documents EXCEPT ![f] = d] = [s.documents EXCEPT ![f] = d]
  <2>1. CASE o = s
    BY <1>5, <2>1
  <2>2. CASE L!On(f) # None /\ o = L!Opened(s, f, L!On(f))
    <3>1. PICK x \in L!Text : x = L!On(f)
      BY <1>5, <2>2 DEF DiskOK, L!On, AnyText
    <3>2. PICK p \in TableSet, c \in L!Document :
            p = L!Opened(s, f, x) /\ c.text = x /\ Put(s, f, c, p)
      BY OpenedIs
    <3>3. o = p
      BY <2>2, <3>1, <3>2
    <3>4. Elsewhere(p, f)
      <4>1. Numbered(p) /\ Fits(p.graph, p.files)
        BY <1>5, <3>2 DEF Elsewhere, Numbered, Put
      <4>2. ASSUME NEW g \in F, g # f PROVE Agreed(p, g)
        <5>1. Agreed(s, g)
          BY <1>5, <4>2 DEF Elsewhere
        <5>2. p.documents[g] = s.documents[g] /\ p.files = s.files /\ p.session = s.session
          BY <3>2, <4>2 DEF Put, TableSet
        <5> QED
          BY <5>1, <5>2 DEF Agreed
      <4> QED
        BY <4>1, <4>2 DEF Elsewhere
    <3>5. p.documents = [s.documents EXCEPT ![f] = c] /\ s.documents \in [F -> Entry]
      BY <3>2 DEF Put, TableSet
    <3>6. ASSUME NEW d \in L!Document
          PROVE  [p.documents EXCEPT ![f] = d] = [s.documents EXCEPT ![f] = d]
      BY <3>5
    <3> QED
      BY <3>3, <3>4, <3>6
  <2> QED
    BY <1>6, <2>1, <2>2
<1>8. PICK q \in TableSet, d \in L!Document :
        q = L!TextSet(o, f, t) /\ d.text = t /\ Put(o, f, d, q)
  BY <1>3, <1>7, TextSetIs
<1>9. PICK u : u = L!Updated(q, f, t, v)
  OBVIOUS
<1>10. L!Become(IF q.documents[f].ast # None THEN L!Reindexed(u, f) ELSE L!Indexed(u, f, t))
  BY <1>1, <1>4, <1>6, <1>8, <1>9 DEF L!DidChange
<1>11. CASE q.documents[f].ast # None
  <2>1. PICK z \in TableSet :
          z = L!Reindexed(L!Updated(q, f, d.text, v), f) /\ Settled(o, f, d, z)
    BY <1>3, <1>5, <1>7, <1>8, SettledIs
  <2>2. Settled(s, f, d, z)
    BY <1>7, <2>1 DEF Settled
  <2>3. L!Become(z)
    BY <1>8, <1>9, <1>10, <1>11, <2>1
  <2> QED
    BY <1>1, <1>4, <1>8, <2>2, <2>3
<1>12. CASE ~(q.documents[f].ast # None)
  <2>1. Numbered(q) /\ Fits(q.graph, q.files)
    BY <1>7, <1>8 DEF Elsewhere, Numbered, Put
  <2>2. PICK y \in TableSet : y = u /\ Sent(q, f, t, y)
    BY <1>3, <1>5, <1>9, <2>1, UpdatedIs
  <2>3. PICK w \in Nat \ {0} :
          /\ Numbered(y) /\ y.documents = q.documents /\ y.files = q.files /\ y.graph = q.graph
          /\ y.session = [q.session EXCEPT ![f] = [text |-> t, version |-> w]]
    BY <2>2 DEF Sent
  <2>4. Elsewhere(y, f)
    <3>1. Fits(y.graph, y.files)
      BY <2>1, <2>3
    <3>2. ASSUME NEW g \in F, g # f PROVE Agreed(y, g)
      <4>1. Agreed(o, g)
        BY <1>7, <3>2 DEF Elsewhere
      <4>2. q.documents[g] = o.documents[g] /\ q.files = o.files /\ q.session = o.session
        BY <1>7, <1>8, <3>2 DEF Put, TableSet
      <4>3. y.session[g] = q.session[g]
        BY <2>3, <3>2 DEF TableSet
      <4> QED
        BY <2>3, <4>1, <4>2, <4>3 DEF Agreed
    <3> QED
      BY <2>3, <3>1, <3>2 DEF Elsewhere
  <2>5. PICK z \in TableSet, c \in L!Document :
          z = L!Indexed(y, f, t) /\ c.text = t /\ Settled(y, f, c, z)
    BY <1>3, <1>5, <2>4, IndexedIs
  <2>6. [y.documents EXCEPT ![f] = c] = [s.documents EXCEPT ![f] = c]
    <3>1. y.documents = [o.documents EXCEPT ![f] = d] /\ o.documents \in [F -> Entry]
      BY <1>7, <1>8, <2>3 DEF Put, TableSet
    <3>2. [y.documents EXCEPT ![f] = c] = [o.documents EXCEPT ![f] = c]
      BY <3>1
    <3> QED
      BY <1>7, <3>2
  <2>7. Settled(s, f, c, z)
    BY <2>5, <2>6 DEF Settled
  <2>8. L!Become(z)
    BY <1>10, <1>12, <2>2, <2>5
  <2> QED
    BY <1>1, <1>4, <2>5, <2>7, <2>8
<1> QED
  BY <1>11, <1>12

\* didSave leaves them in agreement on the text on disk.
LEMMA DidSaveIs ==
  ASSUME L!LanguageServerAssumption, LsTypeOK, Story(L!Tables), NEW f \in F, L!DidSave(f)
  PROVE  IF L!On(f) = None THEN L!Become(L!Tables)
         ELSE \E z \in TableSet, d \in L!Document :
                L!Become(z) /\ Settled(L!Tables, f, d, z) /\ d.text = L!On(f)
<1>1. CASE L!On(f) = None
  BY <1>1 DEF L!DidSave
<1>2. CASE L!On(f) # None
  <2>1. PICK s \in TableSet : s = L!Tables
    BY DEF LsTypeOK
  <2>2. Elsewhere(s, f) /\ DiskOK
    BY <2>1 DEF Story, Elsewhere, LsTypeOK
  <2>3. PICK t \in L!Text : t = L!On(f)
    BY <1>2, <2>2 DEF DiskOK, L!On, AnyText
  <2>4. PICK p \in TableSet, d \in L!Document :
          p = L!TextSet(s, f, t) /\ d.text = t /\ Put(s, f, d, p)
    BY TextSetIs
  <2>5. 1 \in Nat \ {0}
    OBVIOUS
  <2>6. PICK z \in TableSet :
          z = L!Reindexed(L!Updated(p, f, d.text, 1), f) /\ Settled(s, f, d, z)
    BY <2>2, <2>4, <2>5, SettledIs
  <2>7. L!Become(z)
    BY <1>2, <2>1, <2>3, <2>4, <2>6 DEF L!DidSave
  <2>8. \E x \in TableSet, c \in L!Document :
          L!Become(x) /\ Settled(L!Tables, f, c, x) /\ c.text = L!On(f)
    BY <2>1, <2>3, <2>4, <2>6, <2>7
  <2> QED
    BY <1>2, <2>8
<1> QED
  BY <1>1, <1>2

\* compiler_close, field by field.
LEMMA CompilerClosedIs ==
  ASSUME DiskOK, NEW s \in TableSet, NEW f \in F
  PROVE  \E z \in TableSet :
           /\ z = L!CompilerClosed([s EXCEPT !.documents[f] = None], f)
           /\ z.documents = [s.documents EXCEPT ![f] = None] /\ z.files = s.files
           /\ z.graph = s.graph /\ z.session = [s.session EXCEPT ![f] = None]
           /\ z.versions = [s.versions EXCEPT ![f] = 0]
           /\ IF s.session[f] = None THEN z.cache = s.cache /\ z.since = s.since ELSE Mutated(z)
<1>1. PICK D, S, V : /\ D = [s.documents EXCEPT ![f] = None]
                     /\ S = [s.session EXCEPT ![f] = None] /\ V = [s.versions EXCEPT ![f] = 0]
  OBVIOUS
<1>2. D \in [F -> Entry] /\ S \in [F -> Version \cup {None}] /\ V \in [F -> Nat]
  BY <1>1 DEF TableSet, Entry
<1>3. PICK a : a = [documents |-> D, files |-> s.files, graph |-> s.graph,
                    session |-> s.session, versions |-> s.versions, cache |-> s.cache,
                    since |-> s.since]
  OBVIOUS
<1>4. [s EXCEPT !.documents[f] = None] = a
  <2>1. PICK x : x = [s EXCEPT !.documents = D]
    OBVIOUS
  <2>2. x = a
    BY <1>3, <2>1 DEF TableSet
  <2>3. [s EXCEPT !.documents[f] = None] = x
    BY <1>1, <2>1 DEF TableSet
  <2> QED
    BY <2>2, <2>3
<1>5. PICK b : b = [documents |-> D, files |-> s.files, graph |-> s.graph,
                    session |-> S, versions |-> s.versions, cache |-> s.cache,
                    since |-> s.since]
  OBVIOUS
<1>6. PICK c : c = [documents |-> D, files |-> s.files, graph |-> s.graph,
                    session |-> S, versions |-> V, cache |-> s.cache, since |-> s.since]
  OBVIOUS
<1>7. [a EXCEPT !.session[f] = None, !.versions[f] = 0] = c
  <2>1. PICK x : x = [a EXCEPT !.session[f] = None]
    OBVIOUS
  <2>2. x = [a EXCEPT !.session = S]
    BY <1>1, <1>3, <2>1
  <2>3. x = b
    BY <1>3, <1>5, <2>2
  <2>4. PICK y : y = [b EXCEPT !.versions[f] = 0]
    OBVIOUS
  <2>5. y = [b EXCEPT !.versions = V]
    BY <1>1, <1>5, <2>4
  <2>6. y = c
    BY <1>5, <1>6, <2>5
  <2>7. [a EXCEPT !.session[f] = None, !.versions[f] = 0] =
        [[a EXCEPT !.session[f] = None] EXCEPT !.versions[f] = 0]
    OBVIOUS
  <2> QED
    BY <2>1, <2>3, <2>4, <2>6, <2>7
<1>8. a.session = s.session
  BY <1>3
<1>9. c \in TableSet
  BY <1>2, <1>6 DEF TableSet
<1>10. /\ c.documents = D /\ c.files = s.files /\ c.graph = s.graph /\ c.session = S
       /\ c.versions = V /\ c.cache = s.cache /\ c.since = s.since
  BY <1>6
<1>11. PICK p : p = L!CompilerClosed(a, f)
  OBVIOUS
<1>12. p = IF a.session[f] = None THEN c ELSE L!Invalidated(c)
  BY <1>7, <1>11 DEF L!CompilerClosed
<1>13. CASE s.session[f] = None
  <2>1. p = c
    BY <1>8, <1>12, <1>13
  <2> QED
    BY <1>1, <1>4, <1>9, <1>10, <1>11, <1>13, <2>1
<1>14. CASE s.session[f] # None
  <2>1. p = L!Invalidated(c)
    BY <1>8, <1>12, <1>14
  <2>2. PICK C, N : C = L!NoCache /\ N = [g \in F |-> {L!On(g)}]
    OBVIOUS
  <2>3. C \in Cache
    BY <2>2 DEF L!NoCache, Cache, F
  <2>4. N \in [F -> SUBSET AnyText]
    BY <2>2 DEF DiskOK, L!On
  <2>5. PICK r : r = [documents |-> D, files |-> s.files, graph |-> s.graph,
                      session |-> S, versions |-> V, cache |-> C, since |-> N]
    OBVIOUS
  <2>6. p = [c EXCEPT !.cache = C, !.since = N]
    BY <2>1, <2>2 DEF L!Invalidated, F
  <2>7. p = r
    <3>1. PICK y : y = [documents |-> D, files |-> s.files, graph |-> s.graph,
                        session |-> S, versions |-> V, cache |-> C, since |-> s.since]
      OBVIOUS
    <3>2. PICK x : x = [c EXCEPT !.cache = C]
      OBVIOUS
    <3>3. x = y
      BY <1>6, <3>1, <3>2
    <3>4. p = [x EXCEPT !.since = N]
      BY <2>6, <3>2
    <3>5. p = [y EXCEPT !.since = N]
      BY <3>3, <3>4
    <3> QED
      BY <2>5, <3>1, <3>5
  <2>8. r \in TableSet
    BY <1>2, <2>3, <2>4, <2>5 DEF TableSet
  <2>9. /\ r.documents = D /\ r.files = s.files /\ r.graph = s.graph /\ r.session = S
        /\ r.versions = V /\ Mutated(r)
    BY <2>2, <2>5 DEF Mutated
  <2> QED
    BY <1>1, <1>4, <1>11, <1>14, <2>7, <2>8, <2>9
<1> QED
  BY <1>13, <1>14

\* didClose leaves the tables in agreement, without the document.
LEMMA DidCloseIs ==
  ASSUME L!LanguageServerAssumption, LsTypeOK, Story(L!Tables), NEW f \in F, L!DidClose(f)
  PROVE  \E z \in TableSet :
           L!Become(z) /\ Became(L!Tables, z) /\ z.documents = [lDocuments EXCEPT ![f] = None]
<1>1. PICK s \in TableSet : s = L!Tables
  BY DEF LsTypeOK
<1>2. DiskOK /\ Story(s)
  BY <1>1 DEF LsTypeOK
<1>3. PICK c \in TableSet :
           /\ c = L!CompilerClosed([s EXCEPT !.documents[f] = None], f)
           /\ c.documents = [s.documents EXCEPT ![f] = None] /\ c.files = s.files
           /\ c.graph = s.graph /\ c.session = [s.session EXCEPT ![f] = None]
           /\ c.versions = [s.versions EXCEPT ![f] = 0]
           /\ IF s.session[f] = None THEN c.cache = s.cache /\ c.since = s.since ELSE Mutated(c)
  BY <1>2, CompilerClosedIs
<1>4. /\ s.documents \in [F -> Entry] /\ s.files \in [F -> Entry]
      /\ s.session \in [F -> Version \cup {None}] /\ s.versions \in [F -> Nat]
      /\ s.graph \in Graph
  BY DEF TableSet
<1>5. \/ Mutated(c)
      \/ c.session = s.session /\ c.cache = s.cache /\ c.since = s.since
  <2>1. s.session[f] = None => [s.session EXCEPT ![f] = None] = s.session
    BY <1>4
  <2> QED
    BY <1>3, <2>1
<1>6. Numbered(c)
  BY <1>2, <1>3, <1>4 DEF Story, Numbered
<1>7. Fits(c.graph, c.files)
  BY <1>2, <1>3 DEF Story
<1>8. ASSUME NEW g \in F PROVE IF g = f THEN c.documents[g] = None /\ c.session[g] = None ELSE Agreed(c, g)
  <2>1. Agreed(s, g)
    BY <1>2 DEF Story
  <2> QED
    BY <1>3, <1>4, <2>1 DEF Agreed
<1>9. Story(c)
  BY <1>6, <1>7, <1>8 DEF Story, Agreed
<1>10. PICK z : z = L!Pruned(c, f)
  OBVIOUS
<1>11. L!Become(z)
  BY <1>1, <1>3, <1>10 DEF L!DidClose
<1>12. CASE z = c
  <2>1. Became(s, z)
    BY <1>5, <1>9, <1>12 DEF Became
  <2>2. z.documents = [lDocuments EXCEPT ![f] = None]
    BY <1>1, <1>3, <1>12, TablesAre
  <2> QED
    BY <1>1, <1>11, <1>12, <2>1, <2>2
<1>13. CASE z = [c EXCEPT !.graph = L!Removed(c.graph, f), !.files[f] = None]
  <2>1. PICK G, X : G = L!Removed(c.graph, f) /\ X = [c.files EXCEPT ![f] = None]
    OBVIOUS
  <2>2. G \in Graph /\ Fits(G, X)
    BY <1>3, <1>4, <1>7, <2>1, RemovedFits
  <2>3. X \in [F -> Entry]
    BY <1>3, <1>4, <2>1 DEF Entry
  <2>4. PICK a : a = [documents |-> c.documents, files |-> c.files, graph |-> G,
                      session |-> c.session, versions |-> c.versions, cache |-> c.cache,
                      since |-> c.since]
    OBVIOUS
  <2>5. PICK r : r = [documents |-> c.documents, files |-> X, graph |-> G,
                      session |-> c.session, versions |-> c.versions, cache |-> c.cache,
                      since |-> c.since]
    OBVIOUS
  <2>6. z = r
    <3>1. PICK y : y = [c EXCEPT !.graph = G]
      OBVIOUS
    <3>2. y = a
      BY <2>4, <3>1 DEF TableSet
    <3>3. z = [y EXCEPT !.files[f] = None]
      BY <1>13, <2>1, <3>1
    <3>4. z = [a EXCEPT !.files = X]
      BY <2>1, <2>4, <3>2, <3>3
    <3> QED
      BY <2>4, <2>5, <3>4
  <2>7. r \in TableSet
    BY <2>2, <2>3, <2>5 DEF TableSet
  <2>8. /\ r.documents = c.documents /\ r.files = X /\ r.graph = G /\ r.session = c.session
        /\ r.versions = c.versions /\ r.cache = c.cache /\ r.since = c.since
    BY <2>5
  <2>9. ASSUME NEW g \in F PROVE Agreed(r, g)
    <3>1. IF g = f THEN c.documents[g] = None /\ c.session[g] = None ELSE Agreed(c, g)
      BY <1>8
    <3>2. g # f => X[g] = c.files[g]
      BY <1>3, <1>4, <2>1
    <3> QED
      BY <2>8, <3>1, <3>2 DEF Agreed
  <2>10. Numbered(r)
    BY <1>6, <2>8 DEF Numbered
  <2>11. Story(r)
    BY <2>2, <2>8, <2>9, <2>10 DEF Story
  <2>12. Became(s, r)
    BY <1>5, <2>7, <2>8, <2>11 DEF Became, Mutated
  <2>13. r.documents = [lDocuments EXCEPT ![f] = None]
    BY <1>1, <1>3, <2>8, TablesAre
  <2> QED
    BY <1>1, <1>11, <2>6, <2>7, <2>12, <2>13
<1> QED
  BY <1>10, <1>12, <1>13 DEF L!Pruned

\* The modules looked up are files.
LEMMA ResolvedIsFile ==
  ASSUME L!LanguageServerAssumption, NEW s \in TableSet, NEW m \in F
  PROVE  L!Resolved(s, m) \in F
<1>1. CASE s.graph.providers[m] = {}
  BY <1>1 DEF L!Resolved
<1>2. CASE s.graph.providers[m] # {}
  <2>1. PICK S : S = s.graph.providers[m]
    OBVIOUS
  <2>2. S \subseteq F
    BY <2>1 DEF TableSet, Graph
  <2>3. F \subseteq Nat
    BY DEF F, L!Files, L!LanguageServerAssumption
  <2>4. \E x \in S : \A y \in S : x <= y
    BY <1>2, <2>1, <2>2, <2>3, Least
  <2>5. L!Min(S) \in S
    BY <2>4 DEF L!Min
  <2> QED
    BY <1>2, <2>1, <2>2, <2>5 DEF L!Resolved
<1> QED
  BY <1>1, <1>2

-----------------------------------------------------------------------------
\* The messages underway about f's text, and what handling one of them brings
\* into the documents.
Notices(f) == {j \in 1 .. Len(lInbox) : lInbox[j].uri = f /\ lInbox[j].kind \in Notes}
Brings(m, f) ==
  \/ m.kind \in {"didOpen", "didChange"} /\ m.text = lEditor[f].text
  \/ m.kind = "didSave" /\ L!On(f) = lEditor[f].text

\* The document has the text of the editor's buffer, unless a message is
\* underway: then the last one brings it.
FollowedAt(f) ==
  lEditor[f] # None =>
    /\ Notices(f) = {} => lDocuments[f] # None /\ lDocuments[f].text = lEditor[f].text
    /\ \A j \in Notices(f) : (\A k \in Notices(f) : k <= j) => Brings(lInbox[j], f)
Followed == \A f \in F : FollowedAt(f)

\* A message is handled.
LEMMA HandledFollowed ==
  ASSUME LsTypeOK, Followed, lInbox # << >>, lInbox' = Tail(lInbox), UNCHANGED <<lDisk, lEditor>>,
         \A g \in F : /\ g # Head(lInbox).uri \/ Head(lInbox).kind \notin Notes
                      /\ lDocuments[g] # None
                      => lDocuments'[g] = lDocuments[g],
         \A g \in F : /\ g = Head(lInbox).uri /\ Head(lInbox).kind \in Notes
                      /\ lEditor[g] # None /\ Brings(Head(lInbox), g)
                      => lDocuments'[g] # None /\ lDocuments'[g].text = lEditor[g].text
  PROVE  Followed'
<1>1. PICK b \in Seq(Update \cup Signal), n \in Nat : b = lInbox /\ n = Len(b)
  BY DEF LsTypeOK
<1>2. PICK c : c = Tail(b)
  OBVIOUS
<1>3. n >= 1 /\ Len(c) = n - 1 /\ Head(b) = b[1] /\ \A j \in 1 .. n - 1 : c[j] = b[j + 1]
  BY <1>1, <1>2
<1>4. lInbox' = c /\ Head(lInbox) = b[1]
  BY <1>1, <1>2, <1>3
<1> SUFFICES ASSUME NEW f \in F, lEditor[f] # None PROVE FollowedAt(f)'
  BY DEF Followed, FollowedAt
<1>5. PICK A, B : A = Notices(f) /\ B = Notices(f)'
  OBVIOUS
<1>6. /\ A = {j \in 1 .. n : b[j].uri = f /\ b[j].kind \in Notes}
      /\ B = {j \in 1 .. n - 1 : c[j].uri = f /\ c[j].kind \in Notes}
  BY <1>1, <1>3, <1>4, <1>5 DEF Notices
<1>7. ASSUME NEW j \in B PROVE j \in Nat /\ j + 1 \in A /\ c[j] = b[j + 1]
  BY <1>1, <1>3, <1>6
<1>8. ASSUME NEW j \in A PROVE j \in Nat /\ (j = 1 \/ j - 1 \in B)
  <2>1. j \in 1 .. n /\ b[j].uri = f /\ b[j].kind \in Notes
    BY <1>6
  <2>2. CASE j = 1
    BY <2>2
  <2>3. CASE j # 1
    <3>1. j - 1 \in 1 .. n - 1 /\ (j - 1) + 1 = j
      BY <1>1, <2>1, <2>3
    <3>2. c[j - 1] = b[j]
      BY <1>3, <3>1
    <3> QED
      BY <1>6, <2>1, <3>1, <3>2
  <2> QED
    BY <2>2, <2>3
<1>9. FollowedAt(f)
  BY DEF Followed
<1>10. /\ A = {} => lDocuments[f] # None /\ lDocuments[f].text = lEditor[f].text
       /\ \A j \in A : (\A k \in A : k <= j) => Brings(b[j], f)
  BY <1>1, <1>5, <1>9 DEF FollowedAt
<1>11. ASSUME B = {} PROVE lDocuments'[f] # None /\ lDocuments'[f].text = lEditor[f].text
  <2>1. CASE A = {}
    <3>1. f # b[1].uri \/ b[1].kind \notin Notes
      <4>1. 1 \in 1 .. n
        BY <1>1, <1>3
      <4> QED
        BY <1>6, <2>1, <4>1
    <3> QED
      BY <1>4, <1>10, <2>1, <3>1
  <2>2. CASE A # {}
    <3>1. \A j \in A : j = 1
      BY <1>8, <1>11
    <3>2. 1 \in A /\ \A k \in A : k <= 1
      BY <2>2, <3>1
    <3>3. Brings(b[1], f)
      BY <1>10, <3>2
    <3>4. f = b[1].uri /\ b[1].kind \in Notes
      BY <1>6, <3>2
    <3> QED
      BY <1>4, <3>3, <3>4
  <2> QED
    BY <2>1, <2>2
<1>12. ASSUME NEW j \in B, \A k \in B : k <= j PROVE Brings(c[j], f)
  <2>1. j \in Nat /\ j + 1 \in A /\ c[j] = b[j + 1]
    BY <1>7
  <2>2. ASSUME NEW k \in A PROVE k <= j + 1
    <3>1. k \in Nat /\ (k = 1 \/ k - 1 \in B)
      BY <1>8
    <3>2. k - 1 \in B => k - 1 <= j
      BY <1>12
    <3> QED
      BY <2>1, <3>1, <3>2
  <2> QED
    BY <1>10, <2>1, <2>2
<1>13. \A m : Brings(m, f)' <=> Brings(m, f)
  BY DEF Brings, L!On
<1>14. \A j \in B : (\A k \in B : k <= j) => Brings(c[j], f)
  BY <1>12
<1> QED
  BY <1>4, <1>5, <1>11, <1>13, <1>14 DEF FollowedAt

\* A message is sent.
LEMMA SentFollowed ==
  ASSUME LsTypeOK, Followed, NEW m \in Update \cup Signal, lInbox' = Append(lInbox, m),
         UNCHANGED lDocuments,
         \A g \in F : g # m.uri => lEditor'[g] = lEditor[g] /\ lDisk'[g] = lDisk[g],
         \/ m.kind \notin Notes /\ lEditor'[m.uri] = lEditor[m.uri] /\ lDisk'[m.uri] = lDisk[m.uri]
         \/ m.kind \in Notes /\ (lEditor'[m.uri] # None => Brings(m, m.uri)')
  PROVE  Followed'
<1>1. PICK b \in Seq(Update \cup Signal), n \in Nat : b = lInbox /\ n = Len(b)
  BY DEF LsTypeOK
<1>2. PICK c : c = Append(b, m)
  OBVIOUS
<1>3. Len(c) = n + 1 /\ c[n + 1] = m /\ \A j \in 1 .. n : c[j] = b[j]
  BY <1>1, <1>2
<1>4. lInbox' = c
  BY <1>1, <1>2
<1> SUFFICES ASSUME NEW f \in F, lEditor'[f] # None PROVE FollowedAt(f)'
  BY DEF Followed, FollowedAt
<1>5. PICK A, B : A = Notices(f) /\ B = Notices(f)'
  OBVIOUS
<1>6. /\ A = {j \in 1 .. n : b[j].uri = f /\ b[j].kind \in Notes}
      /\ B = {j \in 1 .. n + 1 : c[j].uri = f /\ c[j].kind \in Notes}
  BY <1>1, <1>3, <1>4, <1>5 DEF Notices
<1>7. CASE f = m.uri /\ m.kind \in Notes
  <2>1. n + 1 \in B
    BY <1>1, <1>3, <1>6, <1>7
  <2>2. ASSUME NEW j \in B, \A k \in B : k <= j PROVE j = n + 1
    BY <1>1, <1>6, <2>1, <2>2
  <2>3. Brings(m, f)'
    BY <1>7
  <2>4. B # {} /\ \A j \in B : (\A k \in B : k <= j) => c[j] = m
    BY <1>3, <2>1, <2>2
  <2> QED
    BY <1>4, <1>5, <2>3, <2>4 DEF FollowedAt
<1>8. CASE f # m.uri \/ m.kind \notin Notes
  <2>1. lEditor'[f] = lEditor[f] /\ lDisk'[f] = lDisk[f]
    BY <1>8
  <2>2. ASSUME NEW j PROVE j \in A <=> j \in B
    <3>1. j \in 1 .. n + 1 <=> j \in 1 .. n \/ j = n + 1
      BY <1>1
    <3> QED
      BY <1>3, <1>6, <1>8, <3>1
  <2>3. A = B
    BY <2>2
  <2>4. FollowedAt(f)
    BY DEF Followed
  <2>5. /\ A = {} => lDocuments[f] # None /\ lDocuments[f].text = lEditor[f].text
        /\ \A j \in A : (\A k \in A : k <= j) => Brings(b[j], f)
    BY <1>1, <1>5, <2>1, <2>4 DEF FollowedAt
  <2>6. \A j \in A : c[j] = b[j]
    BY <1>3, <1>6
  <2>7. \A x : Brings(x, f)' <=> Brings(x, f)
    BY <2>1 DEF Brings, L!On
  <2>8. /\ B = {} => lDocuments'[f] # None /\ lDocuments'[f].text = lEditor'[f].text
        /\ \A j \in B : (\A k \in B : k <= j) => Brings(c[j], f)
    BY <2>1, <2>3, <2>5, <2>6
  <2> QED
    BY <1>4, <1>5, <2>7, <2>8 DEF FollowedAt
<1> QED
  BY <1>7, <1>8

-----------------------------------------------------------------------------
\* While the server reads the workspace the editor waits.
ScanFirst == lQuery.pc = "scan" => lInbox = << >> /\ \A f \in F : lEditor[f] = None

Served == LsTypeOK /\ Story(L!Tables) /\ ScanFirst /\ Followed

\* A step of the server that is not one of a query: the tables may change.
Quiet == {"idle", "scan", "import"}
TableStep ==
  /\ \E z \in TableSet : L!Become(z) /\ Became(L!Tables, z)
  /\ UNCHANGED <<lDisk, lEditor, lModules>>
  /\ lQuery.pc \in Quiet /\ lQuery'.pc \in Quiet

\* Between queries.
LEMMA IdleQuery ==
  ASSUME L!LanguageServerAssumption
  PROVE  QueryOK(L!NoQuery) /\ L!NoQuery.pc = "idle"
<1>1. 0 \in Nat /\ << >> \in Seq(F)
  OBVIOUS
<1> QED
  BY <1>1 DEF QueryOK, L!NoQuery, AnyText

\* The types, after a change of the tables.
LEMMA TableStepTyped ==
  ASSUME L!LanguageServerAssumption, LsTypeOK, TableStep, lInbox' \in Seq(Update \cup Signal),
         QueryOK(lQuery')
  PROVE  LsTypeOK' /\ Story(L!Tables)'
<1>1. PICK z \in TableSet : L!Become(z) /\ Became(L!Tables, z)
  BY DEF TableStep
<1>2. L!Tables' = z
  BY <1>1, BecomeTables
<1>3. Story(z)
  BY <1>1 DEF Became
<1>4. UNCHANGED <<lDisk, lEditor, lModules>>
  BY DEF TableStep
<1>5. DiskOK'
  BY <1>4 DEF DiskOK, LsTypeOK
<1>6. /\ lEditor' \in [F -> Version \cup {None}]
      /\ lModules' \in [F -> [stamp : Nat, text : L!Text] \cup {None}]
  BY <1>4 DEF LsTypeOK
<1>7. LsTypeOK'
  BY <1>2, <1>5, <1>6 DEF LsTypeOK
<1> QED
  BY <1>2, <1>3, <1>7

\* The messages that remain.
LEMMA TailTyped ==
  ASSUME LsTypeOK, NEW kind, NEW f, L!Handle(kind, f)
  PROVE  lInbox' \in Seq(Update \cup Signal)
<1>1. PICK b \in Seq(Update \cup Signal) : b = lInbox
  BY DEF LsTypeOK
<1>2. b # << >> /\ lInbox' = Tail(b)
  BY <1>1 DEF L!Handle
<1> QED
  BY <1>2

\* The handlers of the notifications.
LEMMA NoteHandled ==
  ASSUME L!LanguageServerAssumption, Served, NEW kind \in Notes, NEW f \in F, L!Handle(kind, f),
         UNCHANGED lQuery, NEW z \in TableSet, L!Become(z), Became(L!Tables, z),
         \A g \in F : g # f => z.documents[g] = lDocuments[g],
         lEditor[f] # None /\ Brings(Head(lInbox), f) =>
           z.documents[f] # None /\ z.documents[f].text = lEditor[f].text
  PROVE  TableStep /\ Served'
<1>1. LsTypeOK
  BY DEF Served
<1>2. /\ lInbox # << >> /\ lInbox' = Tail(lInbox)
      /\ Head(lInbox).kind = kind /\ Head(lInbox).uri = f
  BY <1>1, MessageIs
<1>3. lInbox' \in Seq(Update \cup Signal)
  BY <1>1, TailTyped
<1>4. lQuery.pc = "idle" /\ UNCHANGED <<lDisk, lEditor, lModules>>
  BY DEF L!Handle, L!client
<1>5. TableStep
  BY <1>4 DEF TableStep, Quiet
<1>6. QueryOK(lQuery')
  BY <1>1 DEF LsTypeOK
<1>7. LsTypeOK' /\ Story(L!Tables)'
  BY <1>1, <1>3, <1>5, <1>6, TableStepTyped
<1>8. ScanFirst'
  BY <1>4 DEF ScanFirst
<1>9. lDocuments' = z.documents
  BY DEF L!Become
<1>10. Followed
  BY DEF Served
<1>11. Followed'
  BY <1>1, <1>2, <1>4, <1>9, <1>10, HandledFollowed
<1> QED
  BY <1>5, <1>7, <1>8, <1>11 DEF Served

\* didOpen.
LEMMA DidOpenStep ==
  ASSUME L!LanguageServerAssumption, Served, NEW f \in F, L!DidOpen(f)
  PROVE  TableStep /\ Served'
<1>1. LsTypeOK /\ Story(L!Tables)
  BY DEF Served
<1>2. PICK z \in TableSet, d \in L!Document :
        L!Become(z) /\ Settled(L!Tables, f, d, z) /\ d.text = Head(lInbox).text
  BY <1>1, DidOpenIs
<1>3. L!Handle("didOpen", f) /\ UNCHANGED lQuery /\ "didOpen" \in Notes
  BY DEF L!DidOpen, Notes
<1>4. Became(L!Tables, z)
  BY <1>2 DEF Became, Settled
<1>5. z.documents = [lDocuments EXCEPT ![f] = d] /\ lDocuments \in [F -> Entry]
  BY <1>1, <1>2, TablesAre DEF Settled, LsTypeOK, TableSet
<1>6. /\ \A g \in F : g # f => z.documents[g] = lDocuments[g]
      /\ z.documents[f] = d
  BY <1>5
<1>7. d # None
  BY DEF L!LanguageServerAssumption
<1>8. Head(lInbox).kind = "didOpen"
  BY <1>3 DEF L!Handle
<1>9. lEditor[f] # None /\ Brings(Head(lInbox), f) =>
           z.documents[f] # None /\ z.documents[f].text = lEditor[f].text
  BY <1>2, <1>6, <1>7, <1>8 DEF Brings
<1> QED
  BY <1>2, <1>3, <1>4, <1>6, <1>9, NoteHandled

\* didChange.
LEMMA DidChangeStep ==
  ASSUME L!LanguageServerAssumption, Served, NEW f \in F, L!DidChange(f)
  PROVE  TableStep /\ Served'
<1>1. LsTypeOK /\ Story(L!Tables)
  BY DEF Served
<1>2. PICK z \in TableSet, d \in L!Document :
        L!Become(z) /\ Settled(L!Tables, f, d, z) /\ d.text = Head(lInbox).text
  BY <1>1, DidChangeIs
<1>3. L!Handle("didChange", f) /\ UNCHANGED lQuery /\ "didChange" \in Notes
  BY DEF L!DidChange, Notes
<1>4. Became(L!Tables, z)
  BY <1>2 DEF Became, Settled
<1>5. z.documents = [lDocuments EXCEPT ![f] = d] /\ lDocuments \in [F -> Entry]
  BY <1>1, <1>2, TablesAre DEF Settled, LsTypeOK, TableSet
<1>6. /\ \A g \in F : g # f => z.documents[g] = lDocuments[g]
      /\ z.documents[f] = d
  BY <1>5
<1>7. d # None
  BY DEF L!LanguageServerAssumption
<1>8. Head(lInbox).kind = "didChange"
  BY <1>3 DEF L!Handle
<1>9. lEditor[f] # None /\ Brings(Head(lInbox), f) =>
           z.documents[f] # None /\ z.documents[f].text = lEditor[f].text
  BY <1>2, <1>6, <1>7, <1>8 DEF Brings
<1> QED
  BY <1>2, <1>3, <1>4, <1>6, <1>9, NoteHandled

\* didSave: a file that is gone brings nothing.
LEMMA DidSaveStep ==
  ASSUME L!LanguageServerAssumption, Served, NEW f \in F, L!DidSave(f)
  PROVE  TableStep /\ Served'
<1>1. LsTypeOK /\ Story(L!Tables) /\ lEditor \in [F -> Version \cup {None}]
  BY DEF Served, LsTypeOK
<1>2. L!Handle("didSave", f) /\ UNCHANGED lQuery /\ "didSave" \in Notes
  BY DEF L!DidSave, Notes
<1>3. Head(lInbox).kind = "didSave"
  BY <1>2 DEF L!Handle
<1>4. CASE L!On(f) = None
  <2>1. PICK z \in TableSet : z = L!Tables
    BY <1>1 DEF LsTypeOK
  <2>2. L!Become(z) /\ Became(L!Tables, z) /\ z.documents = lDocuments
    BY <1>1, <1>4, <2>1, DidSaveIs, TablesAre DEF Became
  <2>3. ~(lEditor[f] # None /\ Brings(Head(lInbox), f))
    <3>1. ASSUME lEditor[f] # None PROVE lEditor[f].text # None
      <4>1. lEditor[f] \in Version
        BY <1>1, <3>1
      <4> QED
        BY <4>1 DEF Version, L!LanguageServerAssumption
    <3> QED
      BY <1>3, <1>4, <3>1 DEF Brings
  <2> QED
    BY <1>2, <2>2, <2>3, NoteHandled
<1>5. CASE L!On(f) # None
  <2>1. PICK z \in TableSet, d \in L!Document :
          L!Become(z) /\ Settled(L!Tables, f, d, z) /\ d.text = L!On(f)
    BY <1>1, <1>5, DidSaveIs
  <2>2. Became(L!Tables, z)
    BY <2>1 DEF Became, Settled
  <2>3. z.documents = [lDocuments EXCEPT ![f] = d] /\ lDocuments \in [F -> Entry]
    BY <1>1, <2>1, TablesAre DEF Settled, LsTypeOK, TableSet
  <2>4. /\ \A g \in F : g # f => z.documents[g] = lDocuments[g]
        /\ z.documents[f] = d
    BY <2>3
  <2>5. d # None
    BY DEF L!LanguageServerAssumption
  <2>6. lEditor[f] # None /\ Brings(Head(lInbox), f) =>
           z.documents[f] # None /\ z.documents[f].text = lEditor[f].text
    BY <1>3, <2>1, <2>4, <2>5 DEF Brings
  <2> QED
    BY <1>2, <2>1, <2>2, <2>4, <2>6, NoteHandled
<1> QED
  BY <1>4, <1>5

\* didClose.
LEMMA DidCloseStep ==
  ASSUME L!LanguageServerAssumption, Served, NEW f \in F, L!DidClose(f)
  PROVE  TableStep /\ Served'
<1>1. LsTypeOK /\ Story(L!Tables)
  BY DEF Served
<1>2. PICK z \in TableSet :
        L!Become(z) /\ Became(L!Tables, z) /\ z.documents = [lDocuments EXCEPT ![f] = None]
  BY <1>1, DidCloseIs
<1>3. L!Handle("didClose", f) /\ UNCHANGED lQuery /\ "didClose" \in Notes
  BY DEF L!DidClose, Notes
<1>4. lDocuments \in [F -> Entry]
  BY <1>1, TablesAre DEF LsTypeOK, TableSet
<1>5. \A g \in F : g # f => z.documents[g] = lDocuments[g]
  BY <1>2, <1>4
<1>6. Head(lInbox).kind = "didClose"
  BY <1>3 DEF L!Handle
<1>7. ~Brings(Head(lInbox), f)
  BY <1>6 DEF Brings
<1> QED
  BY <1>2, <1>3, <1>5, <1>7, NoteHandled

\* The steps that index files and leave the documents there are alone.
LEMMA FollowedStays ==
  ASSUME Followed, UNCHANGED <<lInbox, lEditor, lDisk>>,
         \A g \in F : lDocuments[g] # None => lDocuments'[g] = lDocuments[g]
  PROVE  Followed'
<1> SUFFICES ASSUME NEW f \in F, lEditor[f] # None PROVE FollowedAt(f)'
  BY DEF Followed, FollowedAt
<1>1. FollowedAt(f)
  BY DEF Followed
<1>2. Notices(f)' = Notices(f)
  BY DEF Notices
<1>3. \A m : Brings(m, f)' <=> Brings(m, f)
  BY DEF Brings, L!On
<1> QED
  BY <1>1, <1>2, <1>3 DEF FollowedAt

\* The next module is indexed.
LEMMA ImportModuleStep ==
  ASSUME L!LanguageServerAssumption, Served, L!ImportModule
  PROVE  TableStep /\ Served'
<1>1. LsTypeOK /\ Story(L!Tables) /\ DiskOK
  BY DEF Served, LsTypeOK
<1>2. PICK s \in TableSet : s = L!Tables
  BY <1>1 DEF LsTypeOK
<1>3. PICK q : q = lQuery
  OBVIOUS
<1>4. /\ q.pc = "import" /\ q.queue # << >>
      /\ lQuery' = [q EXCEPT !.queue = Tail(@)]
      /\ UNCHANGED <<lDisk, lEditor, lInbox, lModules>>
  BY <1>3 DEF L!ImportModule, L!client
<1>5. QueryOK(q)
  BY <1>1, <1>3 DEF LsTypeOK
<1>6. q.queue \in Seq(F)
  BY <1>5 DEF QueryOK
<1>7. Head(q.queue) \in F /\ Tail(q.queue) \in Seq(F)
  BY <1>4, <1>6
<1>8. PICK h : h = L!Resolved(s, Head(q.queue))
  OBVIOUS
<1>9. h \in F
  BY <1>7, <1>8, ResolvedIsFile
<1>10. PICK z : z = L!GotOrIndexed(s, h)
  OBVIOUS
<1>11. Became(s, z) /\ \A g \in F : s.documents[g] # None => z.documents[g] = s.documents[g]
  BY <1>1, <1>2, <1>9, <1>10, GotOrIndexedIs
<1>12. L!Become(z)
  BY <1>2, <1>3, <1>8, <1>10 DEF L!ImportModule
<1>13. z \in TableSet
  BY <1>11 DEF Became
<1>14. lQuery'.pc = "import" /\ QueryOK(lQuery')
  <2>1. PICK r, u : r = lQuery' /\ u = Tail(q.queue)
    OBVIOUS
  <2>2. r = [q EXCEPT !.queue = u]
    BY <1>4, <2>1
  <2>3. u \in Seq(F)
    BY <1>7, <2>1
  <2>4. r.pc = "import" /\ QueryOK(r)
    BY <1>4, <1>5, <2>2, <2>3 DEF QueryOK
  <2> QED
    BY <2>1, <2>4
<1>15. TableStep
  BY <1>2, <1>3, <1>4, <1>11, <1>12, <1>13, <1>14 DEF TableStep, Quiet
<1>16. lInbox' \in Seq(Update \cup Signal)
  BY <1>1, <1>4 DEF LsTypeOK
<1>17. LsTypeOK' /\ Story(L!Tables)'
  BY <1>1, <1>14, <1>15, <1>16, TableStepTyped
<1>18. ScanFirst'
  BY <1>14 DEF ScanFirst
<1>19. lDocuments' = z.documents /\ s.documents = lDocuments
  BY <1>2, <1>12, TablesAre DEF L!Become
<1>20. Followed
  BY DEF Served
<1>21. Followed'
  BY <1>4, <1>11, <1>19, <1>20, FollowedStays
<1> QED
  BY <1>15, <1>17, <1>18, <1>21 DEF Served

\* The record of a query.
Q(pc, uri, docs, queue, stamp, text) ==
  [pc |-> pc, uri |-> uri, docs |-> docs, queue |-> queue, stamp |-> stamp, text |-> text]

\* A request for diagnostics indexes the file itself.
LEMMA DiagnosticStep ==
  ASSUME L!LanguageServerAssumption, Served, NEW f \in F, L!Diagnostic(f)
  PROVE  TableStep /\ Served'
<1>1. LsTypeOK /\ Story(L!Tables) /\ DiskOK /\ QueryOK(lQuery)
  BY DEF Served, LsTypeOK
<1>2. PICK s \in TableSet : s = L!Tables
  BY <1>1 DEF LsTypeOK
<1>3. L!Handle("diagnostic", f)
  BY DEF L!Diagnostic
<1>4. /\ lInbox # << >> /\ lInbox' = Tail(lInbox) /\ Head(lInbox).kind = "diagnostic"
      /\ lInbox' \in Seq(Update \cup Signal)
  BY <1>1, <1>3, MessageIs, TailTyped
<1>5. lQuery.pc = "idle" /\ UNCHANGED <<lDisk, lEditor, lModules>>
  BY <1>3 DEF L!Handle, L!client
<1>6. PICK z : z = L!GotOrIndexed(s, f)
  OBVIOUS
<1>7. Became(s, z) /\ \A g \in F : s.documents[g] # None => z.documents[g] = s.documents[g]
  BY <1>1, <1>2, <1>6, GotOrIndexedIs
<1>8. /\ L!Become(z)
      /\ lQuery' = IF z.files[f] = None \/ z.files[f].ast = None THEN lQuery
                   ELSE [L!NoQuery EXCEPT !.pc = "import", !.queue = z.files[f].ast.uses]
  BY <1>2, <1>6 DEF L!Diagnostic
<1>9. z \in TableSet
  BY <1>7 DEF Became
<1>10. lQuery'.pc \in {"idle", "import"} /\ QueryOK(lQuery')
  <2>1. CASE lQuery' = lQuery
    BY <1>1, <1>5, <2>1
  <2>2. CASE /\ z.files[f] # None /\ z.files[f].ast # None
             /\ lQuery' = [L!NoQuery EXCEPT !.pc = "import", !.queue = z.files[f].ast.uses]
    <3>1. z.files[f] \in L!Document
      BY <1>9, <2>2 DEF TableSet, Entry
    <3>2. z.files[f].ast \in L!Text
      BY <2>2, <3>1 DEF L!Document
    <3>3. PICK u \in Seq(F) : u = z.files[f].ast.uses
      BY <3>2 DEF L!LanguageServerAssumption, F
    <3>4. PICK r : r = Q("import", 0, None, u, 0, None)
      OBVIOUS
    <3>5. lQuery' = r
      <4>1. PICK a : a = Q("import", 0, None, << >>, 0, None)
        OBVIOUS
      <4>2. a = [L!NoQuery EXCEPT !.pc = "import"]
        BY <4>1 DEF L!NoQuery, Q
      <4>3. lQuery' = [a EXCEPT !.queue = u]
        BY <2>2, <3>3, <4>2
      <4> QED
        BY <3>4, <4>1, <4>3 DEF Q
    <3>6. r.pc = "import" /\ QueryOK(r)
      <4>1. 0 \in Nat
        OBVIOUS
      <4> QED
        BY <3>4, <4>1 DEF QueryOK, AnyText, Q
    <3> QED
      BY <3>5, <3>6
  <2> QED
    BY <1>8, <2>1, <2>2
<1>11. TableStep
  BY <1>2, <1>5, <1>7, <1>8, <1>9, <1>10 DEF TableStep, Quiet
<1>12. LsTypeOK' /\ Story(L!Tables)'
  BY <1>1, <1>4, <1>10, <1>11, TableStepTyped
<1>13. ScanFirst'
  BY <1>10 DEF ScanFirst
<1>14. lDocuments' = z.documents /\ s.documents = lDocuments
  BY <1>2, <1>8, TablesAre DEF L!Become
<1>15. Followed /\ "diagnostic" \notin Notes
  BY DEF Served, Notes
<1>16. Followed'
  BY <1>1, <1>4, <1>5, <1>7, <1>14, <1>15, HandledFollowed
<1> QED
  BY <1>11, <1>12, <1>13, <1>16 DEF Served

\* The scan: the editor waits, so there is nothing to follow.
LEMMA ScanStep ==
  ASSUME L!LanguageServerAssumption, Served, NEW f \in F, L!Scan(f)
  PROVE  TableStep /\ Served'
<1>1. LsTypeOK /\ Story(L!Tables) /\ DiskOK /\ QueryOK(lQuery) /\ ScanFirst
  BY DEF Served, LsTypeOK
<1>2. PICK s \in TableSet : s = L!Tables
  BY <1>1 DEF LsTypeOK
<1>3. PICK q : q = lQuery
  OBVIOUS
<1>4. /\ q.pc = "scan" /\ q.docs[f] # None /\ lQuery' = [q EXCEPT !.docs[f] = None]
      /\ UNCHANGED <<lDisk, lEditor, lInbox, lModules>>
  BY <1>3 DEF L!Scan, L!client
<1>5. QueryOK(q)
  BY <1>1, <1>3
<1>6. q.docs \in Texts
  BY <1>4, <1>5 DEF QueryOK
<1>7. PICK t \in L!Text : t = q.docs[f]
  BY <1>4, <1>6 DEF Texts, AnyText
<1>8. Elsewhere(s, f)
  BY <1>1, <1>2 DEF Story, Elsewhere
<1>9. PICK z \in TableSet, d \in L!Document :
        z = L!Indexed(s, f, t) /\ d.text = t /\ Settled(s, f, d, z)
  BY <1>1, <1>8, IndexedIs
<1>10. L!Become(z)
  BY <1>2, <1>3, <1>7, <1>9 DEF L!Scan
<1>11. Became(s, z)
  BY <1>9 DEF Became, Settled
<1>12. lQuery'.pc = "scan" /\ QueryOK(lQuery')
  <2>1. PICK D, r : D = [q.docs EXCEPT ![f] = None] /\ r = [q EXCEPT !.docs = D]
    OBVIOUS
  <2>2. D \in Texts
    BY <1>6, <2>1 DEF Texts, AnyText
  <2>3. lQuery' = r
    BY <1>4, <1>5, <2>1 DEF QueryOK
  <2>4. r.pc = "scan" /\ QueryOK(r)
    BY <1>4, <1>5, <2>1, <2>2 DEF QueryOK
  <2> QED
    BY <2>3, <2>4
<1>13. TableStep
  BY <1>2, <1>3, <1>4, <1>10, <1>11, <1>12 DEF TableStep, Quiet
<1>14. lInbox' \in Seq(Update \cup Signal)
  BY <1>1, <1>4 DEF LsTypeOK
<1>15. LsTypeOK' /\ Story(L!Tables)'
  BY <1>1, <1>12, <1>13, <1>14, TableStepTyped
<1>16. lInbox = << >> /\ \A g \in F : lEditor[g] = None
  BY <1>1, <1>3, <1>4 DEF ScanFirst
<1>17. ScanFirst'
  BY <1>4, <1>16 DEF ScanFirst
<1>18. Followed'
  BY <1>4, <1>16 DEF Followed, FollowedAt
<1> QED
  BY <1>13, <1>15, <1>17, <1>18 DEF Served

-----------------------------------------------------------------------------
\* A step of a query, or the end of the scan or of the imports: only what is
\* cached may change.
CacheStep ==
  /\ UNCHANGED <<lDisk, lEditor, lDocuments, lFiles, lGraph, lSession, lVersions, lSince>>
  /\ lCache' \in Cache

\* The tables, when only what is cached changes.
LEMMA TablesCached ==
  ASSUME NEW s \in TableSet, s = L!Tables, CacheStep, Story(s)
  PROVE  L!Tables' \in TableSet /\ Story(L!Tables)'
<1>1. PICK z : z = L!Tables'
  OBVIOUS
<1>2. z = [documents |-> s.documents, files |-> s.files, graph |-> s.graph,
           session |-> s.session, versions |-> s.versions, cache |-> lCache', since |-> s.since]
  BY <1>1, TablesAre DEF CacheStep, L!Tables
<1>3. lCache' \in Cache
  BY DEF CacheStep
<1>4. z \in TableSet
  BY <1>2, <1>3 DEF TableSet
<1>5. /\ z.documents = s.documents /\ z.files = s.files /\ z.graph = s.graph
      /\ z.session = s.session /\ z.versions = s.versions
  BY <1>2
<1>6. Numbered(z) /\ Fits(z.graph, z.files)
  BY <1>5 DEF Story, Numbered
<1>7. \A g \in F : Agreed(z, g)
  BY <1>5 DEF Story, Agreed
<1>8. Story(z)
  BY <1>6, <1>7 DEF Story
<1> QED
  BY <1>1, <1>4, <1>8

\* Such a step keeps the tables in agreement.
LEMMA CacheStepServed ==
  ASSUME L!LanguageServerAssumption, Served, CacheStep, QueryOK(lQuery'), lQuery'.pc # "scan",
         lModules' \in [F -> [stamp : Nat, text : L!Text] \cup {None}],
         \/ UNCHANGED lInbox
         \/ \E f \in F : L!Handle("query", f)
  PROVE  Served'
<1>1. LsTypeOK /\ Story(L!Tables) /\ DiskOK /\ Followed
  BY DEF Served, LsTypeOK
<1>2. PICK s \in TableSet : s = L!Tables
  BY <1>1 DEF LsTypeOK
<1>3. L!Tables' \in TableSet /\ Story(L!Tables)'
  BY <1>1, <1>2, TablesCached
<1>4. UNCHANGED <<lDisk, lEditor, lDocuments>>
  BY DEF CacheStep
<1>5. /\ lInbox' \in Seq(Update \cup Signal)
      /\ Followed'
  <2>1. CASE UNCHANGED lInbox
    <3>1. Followed'
      BY <1>1, <1>4, <2>1, FollowedStays
    <3> QED
      BY <1>1, <2>1, <3>1 DEF LsTypeOK
  <2>2. ASSUME NEW f \in F, L!Handle("query", f)
        PROVE  lInbox' \in Seq(Update \cup Signal) /\ Followed'
    <3>1. /\ lInbox # << >> /\ lInbox' = Tail(lInbox) /\ Head(lInbox).kind = "query"
          /\ lInbox' \in Seq(Update \cup Signal)
      BY <1>1, <2>2, MessageIs, TailTyped
    <3>2. "query" \notin Notes
      BY DEF Notes
    <3>3. Followed'
      BY <1>1, <1>4, <3>1, <3>2, HandledFollowed
    <3> QED
      BY <3>1, <3>3
  <2> QED
    BY <2>1, <2>2
<1>6. DiskOK' /\ lEditor' \in [F -> Version \cup {None}]
  BY <1>1, <1>4 DEF DiskOK, LsTypeOK
<1>7. LsTypeOK'
  BY <1>3, <1>5, <1>6 DEF LsTypeOK
<1>8. ScanFirst'
  BY DEF ScanFirst
<1> QED
  BY <1>3, <1>5, <1>7, <1>8 DEF Served

-----------------------------------------------------------------------------
\* The query after each of its steps.
LEMMA QueryFields ==
  ASSUME NEW q, QueryOK(q)
  PROVE  /\ q = Q(q.pc, q.uri, q.docs, q.queue, q.stamp, q.text)
         /\ q.uri \in Nat /\ q.queue \in Seq(F) /\ q.stamp \in Nat /\ q.text \in AnyText
         /\ q.docs \in Texts \cup {None}
         /\ q.pc \in {"next", "load", "keep"} => q.docs \in Texts /\ q.uri \in F
<1>1. /\ q.uri \in Nat /\ q.queue \in Seq(F) /\ q.stamp \in Nat /\ q.text \in AnyText
      /\ q.docs \in Texts \cup {None}
      /\ q.pc \in {"next", "load", "keep"} => q.docs \in Texts /\ q.uri \in F
  BY DEF QueryOK
<1>2. q = Q(q.pc, q.uri, q.docs, q.queue, q.stamp, q.text)
  BY DEF QueryOK, Q
<1> QED
  BY <1>1, <1>2

\* A query put together is a query.
LEMMA QueryMade ==
  ASSUME NEW pc \in {"next", "load", "keep"}, NEW uri \in F, NEW docs \in Texts,
         NEW queue \in Seq(F), NEW stamp \in Nat, NEW text \in AnyText, F \subseteq Nat
  PROVE  QueryOK(Q(pc, uri, docs, queue, stamp, text))
  BY DEF QueryOK, Q

\* Files are numbers.
LEMMA FilesAreNumbers ==
  ASSUME L!LanguageServerAssumption
  PROVE  F \subseteq Nat
  BY DEF F, L!Files, L!LanguageServerAssumption

\* What is looked for are files.
LEMMA EnqueuedTyped ==
  ASSUME L!LanguageServerAssumption, NEW t \in L!Text
  PROVE  L!Enqueued(t) \in Seq(F)
<1>1. t.uses \in Seq(F) /\ t.mods \in Seq(F)
  BY DEF L!LanguageServerAssumption, F
<1>2. t.uses \o t.mods \in Seq(F)
  BY <1>1
<1> QED
  BY <1>2 DEF L!Enqueued

\* A module has been loaded.
LEMMA LoadedIs ==
  ASSUME L!LanguageServerAssumption, QueryOK(lQuery), lQuery.pc \in {"load", "keep"},
         lQuery.queue # << >>, NEW t \in L!Text, L!Loaded(t)
  PROVE  /\ lQuery' = Q("next", lQuery.uri, [lQuery.docs EXCEPT ![Head(lQuery.queue)] = t],
                        Tail(lQuery.queue) \o L!Enqueued(t), 0, None)
         /\ QueryOK(lQuery') /\ lQuery'.pc = "next"
<1>1. PICK q : q = lQuery
  OBVIOUS
<1>2. /\ q = Q(q.pc, q.uri, q.docs, q.queue, q.stamp, q.text)
      /\ q.queue \in Seq(F) /\ q.docs \in Texts /\ q.uri \in F
  BY <1>1, QueryFields
<1>3. PICK D, E : /\ D = [q.docs EXCEPT ![Head(q.queue)] = t]
                  /\ E = Tail(q.queue) \o L!Enqueued(t)
  OBVIOUS
<1>4. Head(q.queue) \in F /\ Tail(q.queue) \in Seq(F)
  BY <1>1, <1>2
<1>5. L!Enqueued(t) \in Seq(F)
  BY EnqueuedTyped
<1>6. D \in Texts /\ E \in Seq(F)
  BY <1>2, <1>3, <1>4, <1>5 DEF Texts, AnyText
<1>7. lQuery' = Q("next", q.uri, D, E, 0, None)
  <2>1. PICK a : a = Q("next", q.uri, q.docs, q.queue, q.stamp, q.text)
    OBVIOUS
  <2>2. PICK b : b = Q("next", q.uri, q.docs, q.queue, 0, q.text)
    OBVIOUS
  <2>3. PICK c : c = Q("next", q.uri, q.docs, q.queue, 0, None)
    OBVIOUS
  <2>4. PICK d : d = Q("next", q.uri, D, q.queue, 0, None)
    OBVIOUS
  <2>5. a = [q EXCEPT !.pc = "next"]
    BY <1>2, <2>1 DEF Q
  <2>6. b = [a EXCEPT !.stamp = 0]
    BY <2>1, <2>2 DEF Q
  <2>7. c = [b EXCEPT !.text = None]
    BY <2>2, <2>3 DEF Q
  <2>8. d = [c EXCEPT !.docs[Head(q.queue)] = t]
    <3>1. c.docs = q.docs
      BY <2>3 DEF Q
    <3>2. [c EXCEPT !.docs[Head(q.queue)] = t] = [c EXCEPT !.docs = D]
      BY <1>3, <2>3, <3>1 DEF Q
    <3> QED
      BY <2>3, <2>4, <3>2 DEF Q
  <2>9. d.queue = q.queue
    BY <2>4 DEF Q
  <2>10. Q("next", q.uri, D, E, 0, None) = [d EXCEPT !.queue = E]
    BY <2>4 DEF Q
  <2>11. lQuery' = [d EXCEPT !.queue = Tail(@) \o L!Enqueued(t)]
    BY <1>1, <2>5, <2>6, <2>7, <2>8 DEF L!Loaded
  <2> QED
    BY <1>3, <2>9, <2>10, <2>11
<1>8. 0 \in Nat /\ None \in AnyText
  BY DEF AnyText
<1>9. QueryOK(Q("next", q.uri, D, E, 0, None))
  BY <1>2, <1>6, <1>8, FilesAreNumbers, QueryMade
<1>10. Q("next", q.uri, D, E, 0, None).pc = "next"
  BY DEF Q
<1> QED
  BY <1>1, <1>3, <1>7, <1>9, <1>10

\* The query after NextModule.
LEMMA NextModuleIs ==
  ASSUME L!LanguageServerAssumption, DiskOK, QueryOK(lQuery), L!NextModule,
         NEW q, q = lQuery
  PROVE  /\ QueryOK(lQuery') /\ lQuery'.pc # "scan" /\ q.pc = "next" /\ q.queue # << >>
         /\ lQuery' = IF q.docs[Head(q.queue)] # None \/ L!On(Head(q.queue)) = None
                      THEN Q("next", q.uri, q.docs, Tail(q.queue), q.stamp, q.text)
                      ELSE Q("load", q.uri, q.docs, q.queue, lDisk[Head(q.queue)].stamp, q.text)
<1>1. q.pc = "next" /\ q.queue # << >>
  BY DEF L!NextModule
<1>2. /\ q = Q(q.pc, q.uri, q.docs, q.queue, q.stamp, q.text)
      /\ q.queue \in Seq(F) /\ q.docs \in Texts /\ q.uri \in F
      /\ q.stamp \in Nat /\ q.text \in AnyText
  BY <1>1, QueryFields
<1>3. Head(q.queue) \in F /\ Tail(q.queue) \in Seq(F)
  BY <1>1, <1>2
<1>4. PICK w \in Nat : w = lDisk[Head(q.queue)].stamp
  BY <1>3 DEF DiskOK
<1>5. PICK a, b : /\ a = Q("next", q.uri, q.docs, Tail(q.queue), q.stamp, q.text)
                  /\ b = Q("load", q.uri, q.docs, q.queue, w, q.text)
  OBVIOUS
<1>6. a = [q EXCEPT !.queue = Tail(@)]
  <2>1. PICK E : E = Tail(q.queue)
    OBVIOUS
  <2>2. a = Q(q.pc, q.uri, q.docs, E, q.stamp, q.text)
    BY <1>1, <1>5, <2>1
  <2>3. a = [q EXCEPT !.queue = E]
    BY <1>2, <2>2 DEF Q
  <2> QED
    BY <2>1, <2>3
<1>7. b = [q EXCEPT !.pc = "load", !.stamp = w]
  <2>1. PICK c : c = Q("load", q.uri, q.docs, q.queue, q.stamp, q.text)
    OBVIOUS
  <2>2. c = [q EXCEPT !.pc = "load"]
    BY <1>2, <2>1 DEF Q
  <2>3. b = [c EXCEPT !.stamp = w]
    BY <1>5, <2>1 DEF Q
  <2> QED
    BY <2>2, <2>3
<1>8. lQuery' = IF q.docs[Head(q.queue)] # None \/ L!On(Head(q.queue)) = None THEN a ELSE b
  BY <1>4, <1>6, <1>7 DEF L!NextModule
<1>9. QueryOK(a) /\ QueryOK(b)
  BY <1>2, <1>3, <1>5, FilesAreNumbers, QueryMade
<1>10. a.pc # "scan" /\ b.pc # "scan"
  BY <1>5 DEF Q
<1> QED
  BY <1>1, <1>4, <1>5, <1>8, <1>9, <1>10

\* The query after LoadFile.
LEMMA LoadFileIs ==
  ASSUME L!LanguageServerAssumption, DiskOK, QueryOK(lQuery), L!LoadFile, lQuery.queue # << >>,
         NEW q, q = lQuery
  PROVE  /\ QueryOK(lQuery') /\ lQuery'.pc # "scan" /\ q.pc = "load"
         /\ lQuery' = IF L!On(Head(q.queue)) # None /\ "session" \in L!On(Head(q.queue)).ast
                      THEN Q("keep", q.uri, q.docs, q.queue, q.stamp, L!On(Head(q.queue)))
                      ELSE Q("next", q.uri, q.docs, Tail(q.queue), 0, q.text)
<1>1. q.pc = "load"
  BY DEF L!LoadFile
<1>2. /\ q = Q(q.pc, q.uri, q.docs, q.queue, q.stamp, q.text)
      /\ q.queue \in Seq(F) /\ q.docs \in Texts /\ q.uri \in F
      /\ q.stamp \in Nat /\ q.text \in AnyText
  BY <1>1, QueryFields
<1>3. Head(q.queue) \in F /\ Tail(q.queue) \in Seq(F)
  BY <1>2
<1>4. PICK t \in AnyText : t = L!On(Head(q.queue))
  BY <1>3 DEF DiskOK, L!On
<1>5. PICK a, b : /\ a = Q("keep", q.uri, q.docs, q.queue, q.stamp, t)
                  /\ b = Q("next", q.uri, q.docs, Tail(q.queue), 0, q.text)
  OBVIOUS
<1>6. a = [q EXCEPT !.pc = "keep", !.text = t]
  <2>1. PICK c : c = Q("keep", q.uri, q.docs, q.queue, q.stamp, q.text)
    OBVIOUS
  <2>2. c = [q EXCEPT !.pc = "keep"]
    BY <1>2, <2>1 DEF Q
  <2>3. a = [c EXCEPT !.text = t]
    BY <1>5, <2>1 DEF Q
  <2> QED
    BY <2>2, <2>3
<1>7. b = [q EXCEPT !.pc = "next", !.stamp = 0, !.queue = Tail(@)]
  <2>1. PICK c, d : /\ c = Q("next", q.uri, q.docs, q.queue, q.stamp, q.text)
                    /\ d = Q("next", q.uri, q.docs, q.queue, 0, q.text)
    OBVIOUS
  <2>2. c = [q EXCEPT !.pc = "next"]
    BY <1>2, <2>1 DEF Q
  <2>3. d = [c EXCEPT !.stamp = 0]
    BY <2>1 DEF Q
  <2>4. b = [d EXCEPT !.queue = Tail(@)]
    <3>1. PICK E : E = Tail(q.queue)
      OBVIOUS
    <3>2. b = Q("next", q.uri, q.docs, E, 0, q.text) /\ d.queue = q.queue
      BY <1>5, <2>1, <3>1 DEF Q
    <3>3. b = [d EXCEPT !.queue = E]
      BY <2>1, <3>2 DEF Q
    <3> QED
      BY <3>1, <3>2, <3>3
  <2> QED
    BY <2>2, <2>3, <2>4
<1>8. lQuery' = IF t # None /\ "session" \in t.ast THEN a ELSE b
  BY <1>4, <1>6, <1>7 DEF L!LoadFile
<1>9. 0 \in Nat
  OBVIOUS
<1>10. QueryOK(a) /\ QueryOK(b)
  BY <1>2, <1>3, <1>5, <1>9, FilesAreNumbers, QueryMade
<1>11. a.pc # "scan" /\ b.pc # "scan"
  BY <1>5 DEF Q
<1> QED
  BY <1>1, <1>4, <1>5, <1>8, <1>10, <1>11

-----------------------------------------------------------------------------
(* A search for modules: d is the disk, s the session, n the texts since   *)
(* the last mutation.                                                      *)

\* The values of a sequence are its first and those of its tail.
LEMMA HeadAndTail ==
  ASSUME NEW T, NEW b \in Seq(T), b # << >>
  PROVE  L!Range(b) = {Head(b)} \cup L!Range(Tail(b))
<1>1. PICK N \in Nat : N = Len(b)
  OBVIOUS
<1>2. PICK c : c = Tail(b)
  OBVIOUS
<1>3. N >= 1 /\ Len(c) = N - 1 /\ Head(b) = b[1] /\ \A j \in 1 .. N - 1 : c[j] = b[j + 1]
  BY <1>1, <1>2
<1>4. DOMAIN b = 1 .. N /\ DOMAIN c = 1 .. N - 1
  BY <1>1, <1>2
<1>5. ASSUME NEW x \in L!Range(b) PROVE x \in {Head(b)} \cup L!Range(c)
  <2>1. PICK i \in 1 .. N : x = b[i]
    BY <1>4, <1>5 DEF L!Range
  <2>2. CASE i = 1
    BY <1>3, <2>1, <2>2
  <2>3. CASE i # 1
    <3>1. i - 1 \in 1 .. N - 1 /\ (i - 1) + 1 = i
      BY <1>1, <2>3
    <3>2. c[i - 1] = x
      BY <1>3, <2>1, <3>1
    <3> QED
      BY <1>4, <3>1, <3>2 DEF L!Range
  <2> QED
    BY <2>2, <2>3
<1>6. ASSUME NEW x \in {Head(b)} \cup L!Range(c) PROVE x \in L!Range(b)
  <2>1. CASE x = Head(b)
    <3>1. 1 \in 1 .. N
      BY <1>1, <1>3
    <3> QED
      BY <1>3, <1>4, <2>1, <3>1 DEF L!Range
  <2>2. CASE x \in L!Range(c)
    <3>1. PICK i \in 1 .. N - 1 : x = c[i]
      BY <1>4, <2>2 DEF L!Range
    <3>2. i + 1 \in 1 .. N
      BY <1>1
    <3> QED
      BY <1>3, <1>4, <3>1, <3>2 DEF L!Range
  <2> QED
    BY <1>6, <2>1, <2>2
<1> QED
  BY <1>2, <1>5, <1>6

\* The values of two sequences put together.
LEMMA RangeOfBoth ==
  ASSUME NEW T, NEW a \in Seq(T), NEW b \in Seq(T)
  PROVE  L!Range(a \o b) = L!Range(a) \cup L!Range(b)
<1>1. PICK N \in Nat, K \in Nat : N = Len(a) /\ K = Len(b)
  OBVIOUS
<1>2. PICK c : c = a \o b
  OBVIOUS
<1>3. /\ Len(c) = N + K /\ c \in Seq(T)
      /\ \A i \in 1 .. N : c[i] = a[i]
      /\ \A i \in 1 .. N + K : i > N => c[i] = b[i - N]
  BY <1>1, <1>2
<1>4. DOMAIN a = 1 .. N /\ DOMAIN b = 1 .. K /\ DOMAIN c = 1 .. N + K
  BY <1>1, <1>3
<1>5. ASSUME NEW x \in L!Range(c) PROVE x \in L!Range(a) \cup L!Range(b)
  <2>1. PICK i \in 1 .. N + K : x = c[i]
    BY <1>4, <1>5 DEF L!Range
  <2>2. CASE i <= N
    <3>1. i \in 1 .. N
      BY <1>1, <2>2
    <3> QED
      BY <1>3, <1>4, <2>1, <3>1 DEF L!Range
  <2>3. CASE i > N
    <3>1. i - N \in 1 .. K
      BY <1>1, <2>3
    <3> QED
      BY <1>3, <1>4, <2>1, <2>3, <3>1 DEF L!Range
  <2> QED
    BY <1>1, <2>2, <2>3
<1>6. ASSUME NEW x \in L!Range(a) PROVE x \in L!Range(c)
  <2>1. PICK i \in 1 .. N : x = a[i]
    BY <1>4, <1>6 DEF L!Range
  <2>2. i \in 1 .. N + K
    BY <1>1
  <2> QED
    BY <1>3, <1>4, <2>1, <2>2 DEF L!Range
<1>7. ASSUME NEW x \in L!Range(b) PROVE x \in L!Range(c)
  <2>1. PICK i \in 1 .. K : x = b[i]
    BY <1>4, <1>7 DEF L!Range
  <2>2. i + N \in 1 .. N + K /\ i + N > N /\ (i + N) - N = i
    BY <1>1
  <2>3. c[i + N] = b[i]
    BY <1>3, <2>2
  <2> QED
    BY <1>4, <2>1, <2>2, <2>3 DEF L!Range
<1> QED
  BY <1>2, <1>5, <1>6, <1>7

\* The modules that can be loaded from disk, those of them a text names, the
\* sets that have what f's text needs, and the modules a search has found.
Loads(d, s) == {m \in F : s[m] = None /\ d[m].text # None /\ "session" \in d[m].text.ast}
Wants(d, s, t) == Loads(d, s) \cap L!Range(L!Enqueued(t))
Closed(d, s, f) ==
  {S \in SUBSET Loads(d, s) : /\ Wants(d, s, s[f].text) \subseteq S
                              /\ \A m \in S : Wants(d, s, d[m].text) \subseteq S}
Found(s, docs) == {m \in F : s[m] = None /\ docs[m] # None}

\* No file has changed since the last mutation.
Still(d, n) == \A m \in F : n[m] = {d[m].text}

\* The documents have the texts of the session, and texts that were on disk.
Known(s, n, docs) ==
  \A m \in F : IF s[m] # None THEN docs[m] = s[m].text ELSE docs[m] \in n[m] \cup {None}

SnapshotOK(d, s, n, f, docs) ==
  /\ s[f] # None /\ Known(s, n, docs)
  /\ Still(d, n) =>
       Found(s, docs) = {m \in Loads(d, s) : \A S \in Closed(d, s, f) : m \in S}

\* A search from f with queue still to look at.
Sound(d, s, f, docs, queue) ==
  \A S \in Closed(d, s, f) : /\ Found(s, docs) \subseteq S
                             /\ Loads(d, s) \cap L!Range(queue) \subseteq S
Complete(d, s, f, docs, queue) ==
  /\ Wants(d, s, s[f].text) \subseteq Found(s, docs) \cup L!Range(queue)
  /\ \A m \in Found(s, docs) : Wants(d, s, docs[m]) \subseteq Found(s, docs) \cup L!Range(queue)
Search(d, s, n, f, docs, queue) ==
  /\ s[f] # None /\ Known(s, n, docs)
  /\ \A m \in Found(s, docs) : "session" \in docs[m].ast
  /\ Still(d, n) => Sound(d, s, f, docs, queue) /\ Complete(d, s, f, docs, queue)

\* The base of a search: the texts of the session.
Bases(s) == [f \in F |-> IF s[f] = None THEN None ELSE s[f].text]

\* A search starts from what the text of f names.
LEMMA SearchStarts ==
  ASSUME NEW d, NEW s, NEW n, NEW f \in F, s[f] # None, NEW docs, docs = Bases(s)
  PROVE  Search(d, s, n, f, docs, L!Enqueued(docs[f]))
<1>1. \A m \in F : docs[m] = IF s[m] = None THEN None ELSE s[m].text
  BY DEF Bases
<1>2. Found(s, docs) = {} /\ Known(s, n, docs)
  BY <1>1 DEF Found, Known
<1>3. docs[f] = s[f].text
  BY <1>1
<1>4. PICK queue : queue = L!Enqueued(docs[f])
  OBVIOUS
<1>5. Loads(d, s) \cap L!Range(queue) = Wants(d, s, s[f].text)
  BY <1>3, <1>4 DEF Wants
<1>6. Sound(d, s, f, docs, queue)
  BY <1>2, <1>5 DEF Sound, Closed
<1>7. Complete(d, s, f, docs, queue)
  BY <1>2, <1>5 DEF Complete
<1> QED
  BY <1>2, <1>4, <1>6, <1>7 DEF Search

\* A module that is passed over cannot be loaded or has been found.
LEMMA SearchPasses ==
  ASSUME NEW d, NEW s, NEW n, NEW f \in F, NEW docs, NEW queue \in Seq(F), queue # << >>,
         Search(d, s, n, f, docs, queue),
         docs[Head(queue)] # None \/ Head(queue) \notin Loads(d, s)
  PROVE  Search(d, s, n, f, docs, Tail(queue))
<1>1. PICK R, T, h : R = L!Range(queue) /\ T = L!Range(Tail(queue)) /\ h = Head(queue)
  OBVIOUS
<1>2. R = {h} \cup T
  BY <1>1, HeadAndTail
<1>3. ASSUME Still(d, n) PROVE Sound(d, s, f, docs, Tail(queue)) /\ Complete(d, s, f, docs, Tail(queue))
  <2>1. Sound(d, s, f, docs, queue) /\ Complete(d, s, f, docs, queue)
    BY <1>3 DEF Search
  <2>2. Sound(d, s, f, docs, Tail(queue))
    BY <1>1, <1>2, <2>1 DEF Sound
  <2>3. h \in Loads(d, s) => h \in Found(s, docs)
    BY <1>1 DEF Loads, Found
  <2>4. ASSUME NEW t, Wants(d, s, t) \subseteq Found(s, docs) \cup R
        PROVE  Wants(d, s, t) \subseteq Found(s, docs) \cup T
    BY <1>2, <2>3, <2>4 DEF Wants
  <2>5. Complete(d, s, f, docs, Tail(queue))
    BY <1>1, <2>1, <2>4 DEF Complete
  <2> QED
    BY <2>2, <2>5
<1> QED
  BY <1>3 DEF Search

\* A module that is loaded is found, and what it names is looked for.
LEMMA SearchLoads ==
  ASSUME L!LanguageServerAssumption, NEW d, NEW s, NEW n, NEW f \in F, NEW docs \in Texts,
         NEW queue \in Seq(F), queue # << >>, Search(d, s, n, f, docs, queue),
         NEW h \in F, h = Head(queue), docs[h] = None, s \in [F -> Version \cup {None}],
         NEW t \in L!Text, t \in n[h], "session" \in t.ast
  PROVE  Search(d, s, n, f, [docs EXCEPT ![h] = t], Tail(queue) \o L!Enqueued(t))
<1>1. PICK R, T, E, U : /\ R = L!Range(queue) /\ T = L!Range(Tail(queue))
                        /\ E = L!Range(L!Enqueued(t)) /\ U = L!Range(Tail(queue) \o L!Enqueued(t))
  OBVIOUS
<1>2. R = {h} \cup T
  BY <1>1, HeadAndTail
<1>3. U = T \cup E
  <2>1. Tail(queue) \in Seq(F) /\ L!Enqueued(t) \in Seq(F)
    BY EnqueuedTyped
  <2>2. PICK a \in Seq(F), b \in Seq(F) : a = Tail(queue) /\ b = L!Enqueued(t)
    BY <2>1
  <2>3. L!Range(a \o b) = L!Range(a) \cup L!Range(b)
    BY RangeOfBoth
  <2> QED
    BY <1>1, <2>2, <2>3
<1>4. t # None
  BY DEF L!LanguageServerAssumption
<1>5. PICK D : D = [docs EXCEPT ![h] = t]
  OBVIOUS
<1>6. D[h] = t /\ \A m \in F : m # h => D[m] = docs[m]
  BY <1>5 DEF Texts
<1>7. s[f] # None /\ Known(s, n, docs)
  BY DEF Search
<1>8. s[h] = None
  <2>1. ASSUME s[h] # None PROVE FALSE
    <3>1. s[h] \in Version /\ docs[h] = s[h].text
      BY <1>7, <2>1 DEF Known
    <3> QED
      BY <3>1 DEF Version, L!LanguageServerAssumption
  <2> QED
    BY <2>1
<1>9. Known(s, n, D)
  BY <1>6, <1>7, <1>8 DEF Known
<1>10. Found(s, D) = Found(s, docs) \cup {h}
  BY <1>4, <1>6, <1>8 DEF Found
<1>11. \A m \in Found(s, D) : "session" \in D[m].ast
  BY <1>6, <1>10 DEF Search, Found
<1>12. ASSUME Still(d, n)
       PROVE  /\ Sound(d, s, f, D, Tail(queue) \o L!Enqueued(t))
              /\ Complete(d, s, f, D, Tail(queue) \o L!Enqueued(t))
  <2>1. Sound(d, s, f, docs, queue) /\ Complete(d, s, f, docs, queue)
    BY <1>12 DEF Search
  <2>2. d[h].text = t
    BY <1>12 DEF Still
  <2>3. h \in Loads(d, s)
    BY <1>4, <1>8, <2>2 DEF Loads
  <2>4. ASSUME NEW S \in Closed(d, s, f)
        PROVE  Found(s, D) \subseteq S /\ Loads(d, s) \cap U \subseteq S
    <3>1. Found(s, docs) \subseteq S /\ Loads(d, s) \cap R \subseteq S
      BY <1>1, <2>1 DEF Sound
    <3>2. h \in S
      BY <1>2, <2>3, <3>1
    <3>3. Wants(d, s, t) \subseteq S
      BY <2>2, <3>2 DEF Closed
    <3>4. Loads(d, s) \cap E \subseteq S
      BY <1>1, <3>3 DEF Wants
    <3> QED
      BY <1>2, <1>3, <1>10, <3>1, <3>2, <3>4
  <2>5. Sound(d, s, f, D, Tail(queue) \o L!Enqueued(t))
    BY <1>1, <2>4 DEF Sound
  <2>6. Found(s, docs) \cup R \subseteq Found(s, D) \cup U
    BY <1>2, <1>3, <1>10
  <2>7. Wants(d, s, s[f].text) \subseteq Found(s, D) \cup U
    BY <1>1, <2>1, <2>6 DEF Complete
  <2>8. ASSUME NEW m \in Found(s, D) PROVE Wants(d, s, D[m]) \subseteq Found(s, D) \cup U
    <3>1. CASE m = h
      BY <1>1, <1>3, <1>6, <3>1 DEF Wants
    <3>2. CASE m # h
      <4>1. m \in Found(s, docs) /\ D[m] = docs[m]
        BY <1>6, <1>10, <2>8, <3>2 DEF Found
      <4> QED
        BY <1>1, <2>1, <2>6, <4>1 DEF Complete
    <3> QED
      BY <3>1, <3>2
  <2>9. Complete(d, s, f, D, Tail(queue) \o L!Enqueued(t))
    BY <1>1, <2>7, <2>8 DEF Complete
  <2> QED
    BY <2>5, <2>9
<1>13. Search(d, s, n, f, D, Tail(queue) \o L!Enqueued(t))
  BY <1>7, <1>9, <1>11, <1>12 DEF Search
<1> QED
  BY <1>5, <1>13

\* A search with nothing left to look at has found exactly what is reached.
LEMMA SearchEnds ==
  ASSUME NEW d, NEW s, NEW n, NEW f \in F, NEW docs, Search(d, s, n, f, docs, << >>)
  PROVE  SnapshotOK(d, s, n, f, docs)
<1>1. ASSUME Still(d, n)
      PROVE  Found(s, docs) = {m \in Loads(d, s) : \A S \in Closed(d, s, f) : m \in S}
  <2>1. /\ Sound(d, s, f, docs, << >>) /\ Complete(d, s, f, docs, << >>) /\ Known(s, n, docs)
        /\ \A m \in Found(s, docs) : "session" \in docs[m].ast
    BY <1>1 DEF Search
  <2>2. L!Range(<< >>) = {}
    BY DEF L!Range
  <2>3. ASSUME NEW m \in Found(s, docs) PROVE m \in Loads(d, s) /\ d[m].text = docs[m]
    <3>1. m \in F /\ s[m] = None /\ docs[m] # None
      BY DEF Found
    <3>2. docs[m] \in n[m]
      BY <2>1, <3>1 DEF Known
    <3>3. d[m].text = docs[m]
      BY <1>1, <3>1, <3>2 DEF Still
    <3> QED
      BY <2>1, <3>1, <3>3 DEF Loads
  <2>4. Found(s, docs) \in Closed(d, s, f)
    <3>1. Found(s, docs) \in SUBSET Loads(d, s)
      BY <2>3
    <3>2. Wants(d, s, s[f].text) \subseteq Found(s, docs)
      BY <2>1, <2>2 DEF Complete
    <3>3. \A m \in Found(s, docs) : Wants(d, s, d[m].text) \subseteq Found(s, docs)
      BY <2>1, <2>2, <2>3 DEF Complete
    <3> QED
      BY <3>1, <3>2, <3>3 DEF Closed
  <2>5. \A S \in Closed(d, s, f) : Found(s, docs) \subseteq S
    BY <2>1 DEF Sound
  <2> QED
    BY <2>3, <2>4, <2>5
<1> QED
  BY <1>1 DEF Search, SnapshotOK

\* Files that were written: texts are added, and if none is new, all is as it
\* was.
Grown(d, n, e, o) ==
  /\ \A m \in F : n[m] \subseteq o[m]
  /\ Still(e, o) => Still(d, n) /\ \A m \in F : e[m].text = d[m].text

\* What can be reached depends only on the texts on disk.
LEMMA SameTexts ==
  ASSUME NEW d, NEW e, NEW s, NEW f \in F, \A m \in F : e[m].text = d[m].text
  PROVE  /\ Loads(e, s) = Loads(d, s) /\ \A t : Wants(e, s, t) = Wants(d, s, t)
         /\ Closed(e, s, f) = Closed(d, s, f)
<1>1. Loads(e, s) = Loads(d, s)
  BY DEF Loads
<1>2. \A t : Wants(e, s, t) = Wants(d, s, t)
  BY <1>1 DEF Wants
<1>3. Loads(d, s) \subseteq F
  BY DEF Loads
<1>4. ASSUME NEW S \in SUBSET Loads(d, s)
      PROVE  (\A m \in S : Wants(e, s, e[m].text) \subseteq S) <=>
             (\A m \in S : Wants(d, s, d[m].text) \subseteq S)
  BY <1>2, <1>3
<1>5. Closed(e, s, f) = Closed(d, s, f)
  BY <1>1, <1>2, <1>4 DEF Closed
<1> QED
  BY <1>1, <1>2, <1>5

\* A snapshot stays as exact as it was when files are written.
LEMMA SnapshotStays ==
  ASSUME NEW d, NEW n, NEW e, NEW o, NEW s, NEW f \in F, NEW docs, Grown(d, n, e, o),
         SnapshotOK(d, s, n, f, docs)
  PROVE  SnapshotOK(e, s, o, f, docs)
<1>1. Known(s, o, docs)
  BY DEF Grown, SnapshotOK, Known
<1>2. ASSUME Still(e, o)
      PROVE  Found(s, docs) = {m \in Loads(e, s) : \A S \in Closed(e, s, f) : m \in S}
  <2>1. Still(d, n) /\ \A m \in F : e[m].text = d[m].text
    BY <1>2 DEF Grown
  <2>2. Loads(e, s) = Loads(d, s) /\ Closed(e, s, f) = Closed(d, s, f)
    BY <2>1, SameTexts
  <2> QED
    BY <2>1, <2>2 DEF SnapshotOK
<1> QED
  BY <1>1, <1>2 DEF SnapshotOK

\* So does a search.
LEMMA SearchStays ==
  ASSUME NEW d, NEW n, NEW e, NEW o, NEW s, NEW f \in F, NEW docs, NEW queue, Grown(d, n, e, o),
         Search(d, s, n, f, docs, queue)
  PROVE  Search(e, s, o, f, docs, queue)
<1>1. Known(s, o, docs)
  BY DEF Grown, Search, Known
<1>2. ASSUME Still(e, o)
      PROVE  Sound(e, s, f, docs, queue) /\ Complete(e, s, f, docs, queue)
  <2>1. Still(d, n) /\ \A m \in F : e[m].text = d[m].text
    BY <1>2 DEF Grown
  <2>2. Loads(e, s) = Loads(d, s) /\ Closed(e, s, f) = Closed(d, s, f)
    BY <2>1, SameTexts
  <2>3. \A t : Wants(e, s, t) = Wants(d, s, t)
    BY <2>2 DEF Wants
  <2>4. Sound(d, s, f, docs, queue) /\ Complete(d, s, f, docs, queue)
    BY <2>1 DEF Search
  <2>5. Sound(e, s, f, docs, queue)
    BY <2>2, <2>4 DEF Sound
  <2>6. Complete(e, s, f, docs, queue)
    BY <2>2, <2>4, <2>3 DEF Complete
  <2> QED
    BY <2>5, <2>6
<1> QED
  BY <1>1, <1>2 DEF Search

\* A module file that is looked at: its time of change was taken; then it was
\* read.
Stamped(d, n, w, m, stamp) ==
  /\ stamp <= d[m].stamp
  /\ w[m] # None /\ w[m].stamp = stamp => w[m].text \in n[m]
ReadOK(d, n, m, stamp, text) ==
  /\ stamp <= d[m].stamp /\ text \in n[m] /\ text \in L!Text /\ "session" \in text.ast
  /\ stamp = d[m].stamp => text = d[m].text

\* w are the cached module files, q is the query.
QueryHolds(d, s, n, w, q) ==
  /\ q.pc \in {"next", "load", "keep"} => Search(d, s, n, q.uri, q.docs, q.queue)
  /\ q.pc \in {"load", "keep"} => q.queue # << >> /\ q.docs[Head(q.queue)] = None
  /\ q.pc = "load" => Stamped(d, n, w, Head(q.queue), q.stamp)
  /\ q.pc = "keep" => ReadOK(d, n, Head(q.queue), q.stamp, q.text)

SinceNow(d, n) == \A m \in F : d[m].text \in n[m]
ModulesKnown(d, w) ==
  \A m \in F : w[m] # None =>
    /\ w[m].stamp <= d[m].stamp /\ "session" \in w[m].text.ast
    /\ w[m].stamp = d[m].stamp => w[m].text = d[m].text
Cached(d, s, n, c) ==
  /\ c.base # None => c.base = Bases(s)
  /\ \A f \in F : c.snapshots[f] # None => SnapshotOK(d, s, n, f, c.snapshots[f])

CachesHold ==
  /\ SinceNow(lDisk, lSince) /\ ModulesKnown(lDisk, lModules)
  /\ Cached(lDisk, lSession, lSince, lCache)
  /\ QueryHolds(lDisk, lSession, lSince, lModules, lQuery)

\* A change of the tables leaves what is cached, or clears it.
LEMMA TableStepCaches ==
  ASSUME L!LanguageServerAssumption, CachesHold, TableStep
  PROVE  CachesHold'
<1>1. PICK z \in TableSet : L!Become(z) /\ Became(L!Tables, z)
  BY DEF TableStep
<1>2. UNCHANGED <<lDisk, lModules>> /\ lQuery'.pc \in Quiet
  BY DEF TableStep
<1>3. lSession' = z.session /\ lSince' = z.since /\ lCache' = z.cache
  BY <1>1 DEF L!Become
<1>4. \/ Mutated(z)
      \/ lSession' = lSession /\ lCache' = lCache /\ lSince' = lSince
  BY <1>1, <1>3, TablesAre DEF Became
<1>5. QueryHolds(lDisk, lSession, lSince, lModules, lQuery)'
  BY <1>2 DEF QueryHolds, Quiet
<1>6. ModulesKnown(lDisk, lModules)'
  BY <1>2 DEF CachesHold
<1>7. CASE Mutated(z)
  <2>1. lCache' = L!NoCache /\ lSince' = [g \in F |-> {L!On(g)}]
    BY <1>3, <1>7 DEF Mutated
  <2>2. SinceNow(lDisk, lSince)'
    BY <1>2, <2>1 DEF SinceNow, L!On
  <2>3. lCache'.base = None /\ \A f \in F : lCache'.snapshots[f] = None
    BY <2>1 DEF L!NoCache, F
  <2>4. Cached(lDisk, lSession, lSince, lCache)'
    BY <2>3 DEF Cached
  <2> QED
    BY <1>5, <1>6, <2>2, <2>4 DEF CachesHold
<1>8. CASE lSession' = lSession /\ lCache' = lCache /\ lSince' = lSince
  <2>1. SinceNow(lDisk, lSince)' /\ Cached(lDisk, lSession, lSince, lCache)'
    BY <1>2, <1>8 DEF CachesHold
  <2> QED
    BY <1>5, <1>6, <2>1 DEF CachesHold
<1> QED
  BY <1>4, <1>7, <1>8

\* A file is written.
LEMMA WriteCaches ==
  ASSUME LsTypeOK, CachesHold, NEW f \in F, NEW t \in AnyText, L!Write(f, t),
         UNCHANGED <<lSession, lCache, lModules, lQuery>>
  PROVE  CachesHold'
<1>1. PICK d, n, e, o : d = lDisk /\ n = lSince /\ e = lDisk' /\ o = lSince'
  OBVIOUS
<1>2. /\ d \in [F -> [text : AnyText, stamp : Nat]] /\ n \in [F -> SUBSET AnyText]
      /\ lModules \in [F -> [stamp : Nat, text : L!Text] \cup {None}] /\ QueryOK(lQuery)
  BY <1>1, TablesAre DEF LsTypeOK, DiskOK, TableSet
<1>3. /\ e = [d EXCEPT ![f] = [text |-> t, stamp |-> @.stamp + 1]]
      /\ o = [n EXCEPT ![f] = @ \cup {t}]
  BY <1>1 DEF L!Write
<1>4. /\ e[f].text = t /\ e[f].stamp = d[f].stamp + 1 /\ o[f] = n[f] \cup {t}
      /\ \A m \in F : m # f => e[m] = d[m] /\ o[m] = n[m]
  BY <1>2, <1>3
<1>5. SinceNow(d, n) /\ ModulesKnown(d, lModules)
  BY <1>1 DEF CachesHold
<1>6. SinceNow(e, o)
  BY <1>4, <1>5 DEF SinceNow
<1>7. \A m \in F : n[m] \subseteq o[m]
  BY <1>4
<1>8. ASSUME Still(e, o) PROVE Still(d, n) /\ \A m \in F : e[m].text = d[m].text
  <2>1. ASSUME NEW m \in F PROVE n[m] = {d[m].text} /\ e[m].text = d[m].text
    <3>1. o[m] = {e[m].text} /\ d[m].text \in n[m]
      BY <1>5, <1>8 DEF Still, SinceNow
    <3> QED
      BY <1>7, <3>1
  <2> QED
    BY <2>1 DEF Still
<1>9. Grown(d, n, e, o)
  BY <1>7, <1>8 DEF Grown
<1>10. \A m \in F : d[m].stamp \in Nat /\ e[m].stamp \in Nat /\ d[m].stamp <= e[m].stamp
  BY <1>2, <1>4
<1>11. \A m \in F : e[m].stamp = d[m].stamp => e[m] = d[m]
  <2>1. e[f].stamp # d[f].stamp
    BY <1>2, <1>4
  <2> QED
    BY <1>4, <2>1
<1>12. ASSUME NEW stamp \in Nat, NEW m \in F, stamp <= d[m].stamp
       PROVE  stamp <= e[m].stamp /\ (stamp = e[m].stamp => stamp = d[m].stamp /\ e[m] = d[m])
  <2>1. d[m].stamp \in Nat /\ e[m].stamp \in Nat /\ d[m].stamp <= e[m].stamp
    BY <1>10
  <2>2. stamp <= e[m].stamp /\ (stamp = e[m].stamp => stamp = d[m].stamp)
    BY <1>12, <2>1
  <2> QED
    BY <1>11, <2>2
<1>13. ModulesKnown(e, lModules)
  <2>1. ASSUME NEW m \in F, lModules[m] # None
        PROVE  /\ lModules[m].stamp <= e[m].stamp /\ "session" \in lModules[m].text.ast
               /\ lModules[m].stamp = e[m].stamp => lModules[m].text = e[m].text
    <3>1. lModules[m] \in [stamp : Nat, text : L!Text]
      BY <1>2, <2>1
    <3>2. lModules[m].stamp \in Nat
      BY <3>1
    <3>3. /\ lModules[m].stamp <= d[m].stamp /\ "session" \in lModules[m].text.ast
          /\ lModules[m].stamp = d[m].stamp => lModules[m].text = d[m].text
      BY <1>5, <2>1 DEF ModulesKnown
    <3> QED
      BY <1>12, <3>2, <3>3
  <2> QED
    BY <2>1 DEF ModulesKnown
<1>14. Cached(e, lSession, o, lCache)
  <2>1. Cached(d, lSession, n, lCache)
    BY <1>1 DEF CachesHold
  <2>2. ASSUME NEW g \in F, lCache.snapshots[g] # None
        PROVE  SnapshotOK(e, lSession, o, g, lCache.snapshots[g])
    <3>1. SnapshotOK(d, lSession, n, g, lCache.snapshots[g])
      BY <2>1, <2>2 DEF Cached
    <3> QED
      BY <1>9, <3>1, SnapshotStays
  <2> QED
    BY <2>1, <2>2 DEF Cached
<1>15. QueryHolds(e, lSession, o, lModules, lQuery)
  <2>1. PICK q : q = lQuery
    OBVIOUS
  <2>2. QueryHolds(d, lSession, n, lModules, q) /\ QueryOK(q)
    BY <1>1, <1>2, <2>1 DEF CachesHold
  <2>3. /\ q.queue \in Seq(F) /\ q.stamp \in Nat
        /\ q.pc \in {"next", "load", "keep"} => q.docs \in Texts /\ q.uri \in F
    BY <2>2, QueryFields
  <2>4. ASSUME q.pc \in {"next", "load", "keep"}
        PROVE  Search(e, lSession, o, q.uri, q.docs, q.queue)
    <3>1. Search(d, lSession, n, q.uri, q.docs, q.queue)
      BY <2>2, <2>4 DEF QueryHolds
    <3> QED
      BY <1>9, <2>3, <2>4, <3>1, SearchStays
  <2>5. ASSUME q.pc = "load" PROVE Stamped(e, o, lModules, Head(q.queue), q.stamp)
    <3>1. Stamped(d, n, lModules, Head(q.queue), q.stamp) /\ Head(q.queue) \in F
      BY <2>2, <2>3, <2>5 DEF QueryHolds
    <3> QED
      BY <1>7, <1>12, <2>3, <3>1 DEF Stamped
  <2>6. ASSUME q.pc = "keep" PROVE ReadOK(e, o, Head(q.queue), q.stamp, q.text)
    <3>1. ReadOK(d, n, Head(q.queue), q.stamp, q.text) /\ Head(q.queue) \in F
      BY <2>2, <2>3, <2>6 DEF QueryHolds
    <3>2. /\ q.stamp <= e[Head(q.queue)].stamp
          /\ q.stamp = e[Head(q.queue)].stamp =>
               q.stamp = d[Head(q.queue)].stamp /\ e[Head(q.queue)] = d[Head(q.queue)]
      BY <1>12, <2>3, <3>1 DEF ReadOK
    <3> QED
      BY <1>7, <3>1, <3>2 DEF ReadOK
  <2>7. q.pc \in {"load", "keep"} => q.queue # << >> /\ q.docs[Head(q.queue)] = None
    BY <2>2 DEF QueryHolds
  <2> QED
    BY <2>1, <2>4, <2>5, <2>6, <2>7 DEF QueryHolds
<1> QED
  BY <1>1, <1>6, <1>13, <1>14, <1>15 DEF CachesHold

-----------------------------------------------------------------------------
\* The steps of a query.
Invariant == Served /\ CachesHold

\* What there is to show of a step of a query.
LEMMA QueryStepIs ==
  ASSUME L!LanguageServerAssumption, Invariant, CacheStep, QueryOK(lQuery'), lQuery'.pc # "scan",
         lModules' \in [F -> [stamp : Nat, text : L!Text] \cup {None}],
         \/ UNCHANGED lInbox
         \/ \E f \in F : L!Handle("query", f),
         ModulesKnown(lDisk, lModules'), Cached(lDisk, lSession, lSince, lCache'),
         QueryHolds(lDisk, lSession, lSince, lModules', lQuery')
  PROVE  Invariant'
<1>1. Served'
  BY CacheStepServed DEF Invariant
<1>2. UNCHANGED <<lDisk, lSession, lSince>>
  BY DEF CacheStep
<1>3. CachesHold'
  BY <1>2 DEF CachesHold, Invariant
<1> QED
  BY <1>1, <1>3 DEF Invariant

\* The parts of the invariant a query needs.
LEMMA InvariantFacts ==
  ASSUME Invariant
  PROVE  /\ LsTypeOK /\ DiskOK /\ QueryOK(lQuery) /\ lCache \in Cache
         /\ lModules \in [F -> [stamp : Nat, text : L!Text] \cup {None}]
         /\ lSession \in [F -> Version \cup {None}]
         /\ SinceNow(lDisk, lSince) /\ ModulesKnown(lDisk, lModules)
         /\ Cached(lDisk, lSession, lSince, lCache)
         /\ QueryHolds(lDisk, lSession, lSince, lModules, lQuery)
  BY TablesAre DEF Invariant, Served, CachesHold, LsTypeOK, TableSet

\* The scan, or the list of imports, is at its end.
LEMMA RestStep ==
  ASSUME L!LanguageServerAssumption, Invariant, L!Scanned \/ L!ImportsDone
  PROVE  Invariant'
<1>1. /\ lQuery' = L!NoQuery
      /\ UNCHANGED <<lDisk, lEditor, lInbox, lDocuments, lFiles, lGraph, lSession, lVersions,
                     lCache, lModules, lSince>>
  BY DEF L!Scanned, L!ImportsDone, L!client, L!tables
<1>2. CacheStep
  BY <1>1, InvariantFacts DEF CacheStep
<1>3. QueryOK(lQuery') /\ lQuery'.pc = "idle"
  BY <1>1, IdleQuery
<1>4. QueryHolds(lDisk, lSession, lSince, lModules', lQuery')
  BY <1>3 DEF QueryHolds
<1> QED
  BY <1>1, <1>2, <1>3, <1>4, InvariantFacts, QueryStepIs

\* The module is passed over, or its time of change taken.
LEMMA NextModuleStep ==
  ASSUME L!LanguageServerAssumption, Invariant, L!NextModule
  PROVE  Invariant'
<1>1. UNCHANGED <<lDisk, lEditor, lInbox, lDocuments, lFiles, lGraph, lSession, lVersions,
                  lCache, lModules, lSince>>
  BY DEF L!NextModule, L!client, L!tables
<1>2. CacheStep
  BY <1>1, InvariantFacts DEF CacheStep
<1>3. PICK q : q = lQuery
  OBVIOUS
<1>4. PICK h : h = Head(q.queue)
  OBVIOUS
<1>5. /\ QueryOK(lQuery') /\ lQuery'.pc # "scan" /\ q.pc = "next" /\ q.queue # << >>
      /\ lQuery' = IF q.docs[h] # None \/ L!On(h) = None
                   THEN Q("next", q.uri, q.docs, Tail(q.queue), q.stamp, q.text)
                   ELSE Q("load", q.uri, q.docs, q.queue, lDisk[h].stamp, q.text)
  BY <1>3, <1>4, InvariantFacts, NextModuleIs
<1>6. Search(lDisk, lSession, lSince, q.uri, q.docs, q.queue)
  BY <1>3, <1>5, InvariantFacts DEF QueryHolds
<1>7. q.queue \in Seq(F) /\ q.docs \in Texts /\ q.uri \in F
  BY <1>3, <1>5, InvariantFacts, QueryFields
<1>8. h \in F
  BY <1>4, <1>5, <1>7
<1>9. CASE q.docs[h] # None \/ L!On(h) = None
  <2>1. PICK r : r = Q("next", q.uri, q.docs, Tail(q.queue), q.stamp, q.text)
    OBVIOUS
  <2>2. r.pc = "next" /\ r.uri = q.uri /\ r.docs = q.docs /\ r.queue = Tail(q.queue)
    BY <2>1 DEF Q
  <2>3. q.docs[h] # None \/ h \notin Loads(lDisk, lSession)
    BY <1>9 DEF Loads, L!On
  <2>4. Search(lDisk, lSession, lSince, q.uri, q.docs, Tail(q.queue))
    BY <1>4, <1>5, <1>6, <1>7, <2>3, SearchPasses
  <2>5. QueryHolds(lDisk, lSession, lSince, lModules, r)
    BY <2>2, <2>4 DEF QueryHolds
  <2>6. lQuery' = r
    BY <1>5, <1>9, <2>1
  <2>7. QueryHolds(lDisk, lSession, lSince, lModules', lQuery')
    BY <1>1, <2>5, <2>6
  <2> QED
    BY <1>1, <1>2, <1>5, <2>7, InvariantFacts, QueryStepIs
<1>10. CASE ~(q.docs[h] # None \/ L!On(h) = None)
  <2>1. PICK r : r = Q("load", q.uri, q.docs, q.queue, lDisk[h].stamp, q.text)
    OBVIOUS
  <2>2. /\ r.pc = "load" /\ r.uri = q.uri /\ r.docs = q.docs /\ r.queue = q.queue
        /\ r.stamp = lDisk[h].stamp
    BY <2>1 DEF Q
  <2>3. lDisk[h].stamp \in Nat
    BY <1>8, InvariantFacts DEF DiskOK
  <2>4. lDisk[h].text \in lSince[h] /\ (lModules[h] # None =>
          (lModules[h].stamp = lDisk[h].stamp => lModules[h].text = lDisk[h].text))
    BY <1>8, InvariantFacts DEF SinceNow, ModulesKnown
  <2>5. Stamped(lDisk, lSince, lModules, h, lDisk[h].stamp)
    BY <2>3, <2>4 DEF Stamped
  <2>6. QueryHolds(lDisk, lSession, lSince, lModules, r)
    BY <1>4, <1>5, <1>6, <1>10, <2>2, <2>5 DEF QueryHolds
  <2>7. lQuery' = r
    BY <1>5, <1>10, <2>1
  <2>8. QueryHolds(lDisk, lSession, lSince, lModules', lQuery')
    BY <1>1, <2>6, <2>7
  <2> QED
    BY <1>1, <1>2, <1>5, <2>8, InvariantFacts, QueryStepIs
<1> QED
  BY <1>9, <1>10

\* A module enters the search, from the cache or from disk.
LEMMA ModuleLoaded ==
  ASSUME L!LanguageServerAssumption, Invariant, lQuery.pc \in {"load", "keep"},
         NEW t \in L!Text, t \in lSince[Head(lQuery.queue)], "session" \in t.ast, L!Loaded(t)
  PROVE  /\ QueryOK(lQuery') /\ lQuery'.pc = "next"
         /\ \A w : QueryHolds(lDisk, lSession, lSince, w, lQuery')
<1>1. PICK q : q = lQuery
  OBVIOUS
<1>2. PICK h : h = Head(q.queue)
  OBVIOUS
<1>3. /\ Search(lDisk, lSession, lSince, q.uri, q.docs, q.queue)
      /\ q.queue # << >> /\ q.docs[h] = None
  BY <1>1, <1>2, InvariantFacts DEF QueryHolds
<1>4. q.queue \in Seq(F) /\ q.docs \in Texts /\ q.uri \in F
  BY <1>1, InvariantFacts, QueryFields
<1>5. h \in F
  BY <1>2, <1>3, <1>4
<1>6. PICK D, E : D = [q.docs EXCEPT ![h] = t] /\ E = Tail(q.queue) \o L!Enqueued(t)
  OBVIOUS
<1>7. Search(lDisk, lSession, lSince, q.uri, D, E)
  BY <1>1, <1>2, <1>3, <1>4, <1>5, <1>6, InvariantFacts, SearchLoads
<1>8. lQuery' = Q("next", q.uri, D, E, 0, None) /\ QueryOK(lQuery') /\ lQuery'.pc = "next"
  BY <1>1, <1>2, <1>3, <1>6, InvariantFacts, LoadedIs
<1>9. PICK r : r = Q("next", q.uri, D, E, 0, None)
  OBVIOUS
<1>10. r.pc = "next" /\ r.uri = q.uri /\ r.docs = D /\ r.queue = E
  BY <1>9 DEF Q
<1>11. \A w : QueryHolds(lDisk, lSession, lSince, w, r)
  BY <1>7, <1>10 DEF QueryHolds
<1> QED
  BY <1>8, <1>9, <1>11

\* The cached text was on disk when its time of change was taken.
LEMMA LoadCachedStep ==
  ASSUME L!LanguageServerAssumption, Invariant, L!LoadCached
  PROVE  Invariant'
<1>1. UNCHANGED <<lDisk, lEditor, lInbox, lDocuments, lFiles, lGraph, lSession, lVersions,
                  lCache, lModules, lSince>>
  BY DEF L!LoadCached, L!client, L!tables
<1>2. CacheStep
  BY <1>1, InvariantFacts DEF CacheStep
<1>3. PICK h : h = Head(lQuery.queue)
  OBVIOUS
<1>4. /\ lQuery.pc = "load" /\ lModules[h] # None /\ lModules[h].stamp = lQuery.stamp
      /\ L!Loaded(lModules[h].text)
  BY <1>3 DEF L!LoadCached
<1>5. lQuery.queue # << >> /\ Stamped(lDisk, lSince, lModules, h, lQuery.stamp)
  BY <1>3, <1>4, InvariantFacts DEF QueryHolds
<1>6. lQuery.queue \in Seq(F)
  BY InvariantFacts, QueryFields
<1>7. h \in F
  BY <1>3, <1>5, <1>6
<1>8. PICK t \in L!Text : t = lModules[h].text
  <2>1. lModules[h] \in [stamp : Nat, text : L!Text]
    BY <1>4, <1>7, InvariantFacts
  <2> QED
    BY <2>1
<1>9. t \in lSince[h] /\ "session" \in t.ast
  BY <1>4, <1>5, <1>7, <1>8, InvariantFacts DEF Stamped, ModulesKnown
<1>10. /\ QueryOK(lQuery') /\ lQuery'.pc = "next"
       /\ \A w : QueryHolds(lDisk, lSession, lSince, w, lQuery')
  BY <1>3, <1>4, <1>8, <1>9, ModuleLoaded
<1> QED
  BY <1>1, <1>2, <1>10, InvariantFacts, QueryStepIs

\* The file is read, or passed over.
LEMMA LoadFileStep ==
  ASSUME L!LanguageServerAssumption, Invariant, L!LoadFile
  PROVE  Invariant'
<1>1. UNCHANGED <<lDisk, lEditor, lInbox, lDocuments, lFiles, lGraph, lSession, lVersions,
                  lCache, lModules, lSince>>
  BY DEF L!LoadFile, L!client, L!tables
<1>2. CacheStep
  BY <1>1, InvariantFacts DEF CacheStep
<1>3. PICK q, h : q = lQuery /\ h = Head(q.queue)
  OBVIOUS
<1>4. q.pc = "load"
  BY <1>3 DEF L!LoadFile
<1>5. /\ Search(lDisk, lSession, lSince, q.uri, q.docs, q.queue)
      /\ q.queue # << >> /\ q.docs[h] = None
      /\ Stamped(lDisk, lSince, lModules, h, q.stamp)
  BY <1>3, <1>4, InvariantFacts DEF QueryHolds
<1>6. q.queue \in Seq(F) /\ q.docs \in Texts /\ q.uri \in F /\ q.stamp \in Nat
  BY <1>3, <1>4, InvariantFacts, QueryFields
<1>7. h \in F
  BY <1>3, <1>5, <1>6
<1>8. /\ QueryOK(lQuery') /\ lQuery'.pc # "scan"
      /\ lQuery' = IF L!On(h) # None /\ "session" \in L!On(h).ast
                   THEN Q("keep", q.uri, q.docs, q.queue, q.stamp, L!On(h))
                   ELSE Q("next", q.uri, q.docs, Tail(q.queue), 0, q.text)
  BY <1>3, <1>5, InvariantFacts, LoadFileIs
<1>9. CASE L!On(h) # None /\ "session" \in L!On(h).ast
  <2>1. PICK r : r = Q("keep", q.uri, q.docs, q.queue, q.stamp, L!On(h))
    OBVIOUS
  <2>2. /\ r.pc = "keep" /\ r.uri = q.uri /\ r.docs = q.docs /\ r.queue = q.queue
        /\ r.stamp = q.stamp /\ r.text = L!On(h)
    BY <2>1 DEF Q
  <2>3. L!On(h) \in L!Text /\ L!On(h) = lDisk[h].text /\ L!On(h) \in lSince[h]
    BY <1>7, <1>9, InvariantFacts DEF DiskOK, L!On, AnyText, SinceNow
  <2>4. ReadOK(lDisk, lSince, h, q.stamp, L!On(h))
    BY <1>5, <1>9, <2>3 DEF ReadOK, Stamped
  <2>5. QueryHolds(lDisk, lSession, lSince, lModules, r)
    BY <1>3, <1>5, <2>2, <2>4 DEF QueryHolds
  <2>6. lQuery' = r
    BY <1>8, <1>9, <2>1
  <2>7. QueryHolds(lDisk, lSession, lSince, lModules', lQuery')
    BY <1>1, <2>5, <2>6
  <2> QED
    BY <1>1, <1>2, <1>8, <2>7, InvariantFacts, QueryStepIs
<1>10. CASE ~(L!On(h) # None /\ "session" \in L!On(h).ast)
  <2>1. PICK r : r = Q("next", q.uri, q.docs, Tail(q.queue), 0, q.text)
    OBVIOUS
  <2>2. r.pc = "next" /\ r.uri = q.uri /\ r.docs = q.docs /\ r.queue = Tail(q.queue)
    BY <2>1 DEF Q
  <2>3. h \notin Loads(lDisk, lSession)
    BY <1>10 DEF Loads, L!On
  <2>4. Search(lDisk, lSession, lSince, q.uri, q.docs, Tail(q.queue))
    BY <1>3, <1>5, <1>6, <2>3, SearchPasses
  <2>5. QueryHolds(lDisk, lSession, lSince, lModules, r)
    BY <2>2, <2>4 DEF QueryHolds
  <2>6. lQuery' = r
    BY <1>8, <1>10, <2>1
  <2>7. QueryHolds(lDisk, lSession, lSince, lModules', lQuery')
    BY <1>1, <2>5, <2>6
  <2> QED
    BY <1>1, <1>2, <1>8, <2>7, InvariantFacts, QueryStepIs
<1> QED
  BY <1>9, <1>10

\* What was read is cached under the earlier time.
LEMMA KeepFileStep ==
  ASSUME L!LanguageServerAssumption, Invariant, L!KeepFile
  PROVE  Invariant'
<1>1. UNCHANGED <<lDisk, lEditor, lInbox, lDocuments, lFiles, lGraph, lSession, lVersions,
                  lCache, lSince>>
  BY DEF L!KeepFile, L!client, L!tables
<1>2. CacheStep
  BY <1>1, InvariantFacts DEF CacheStep
<1>3. PICK h, w, t : h = Head(lQuery.queue) /\ w = lQuery.stamp /\ t = lQuery.text
  OBVIOUS
<1>4. /\ lQuery.pc = "keep" /\ L!Loaded(t)
      /\ lModules' = [lModules EXCEPT ![h] = [stamp |-> w, text |-> t]]
  BY <1>3 DEF L!KeepFile
<1>5. lQuery.queue # << >> /\ ReadOK(lDisk, lSince, h, w, t)
  BY <1>3, <1>4, InvariantFacts DEF QueryHolds
<1>6. lQuery.queue \in Seq(F) /\ w \in Nat
  BY <1>3, InvariantFacts, QueryFields
<1>7. h \in F
  BY <1>3, <1>5, <1>6
<1>8. /\ t \in L!Text /\ t \in lSince[h] /\ "session" \in t.ast /\ w <= lDisk[h].stamp
      /\ w = lDisk[h].stamp => t = lDisk[h].text
  BY <1>5 DEF ReadOK
<1>9. /\ QueryOK(lQuery') /\ lQuery'.pc = "next"
      /\ \A x : QueryHolds(lDisk, lSession, lSince, x, lQuery')
  BY <1>3, <1>4, <1>8, ModuleLoaded
<1>10. PICK x : x = lModules'
  OBVIOUS
<1>11. x \in [F -> [stamp : Nat, text : L!Text] \cup {None}]
  BY <1>4, <1>6, <1>7, <1>8, <1>10, InvariantFacts
<1>12. x[h].stamp = w /\ x[h].text = t /\ \A m \in F : m # h => x[m] = lModules[m]
  BY <1>4, <1>7, <1>10, InvariantFacts
<1>13. ModulesKnown(lDisk, x)
  <2>1. ModulesKnown(lDisk, lModules)
    BY InvariantFacts
  <2> QED
    BY <1>8, <1>12, <2>1 DEF ModulesKnown
<1> QED
  BY <1>1, <1>2, <1>9, <1>10, <1>11, <1>13, InvariantFacts, QueryStepIs

\* The search is at its end and its result cached.
LEMMA AnswerStep ==
  ASSUME L!LanguageServerAssumption, Invariant, L!Answer
  PROVE  Invariant'
<1>1. UNCHANGED <<lDisk, lEditor, lInbox, lDocuments, lFiles, lGraph, lSession, lVersions,
                  lModules, lSince>>
  BY DEF L!Answer, L!client
<1>2. PICK c, e, q : c = lCache /\ e = lCache' /\ q = lQuery
  OBVIOUS
<1>3. /\ q.pc = "next" /\ q.queue = << >> /\ lQuery' = L!NoQuery
      /\ e = [c EXCEPT !.snapshots[q.uri] = q.docs]
  BY <1>2 DEF L!Answer
<1>4. q.docs \in Texts /\ q.uri \in F
  BY <1>2, <1>3, InvariantFacts, QueryFields
<1>5. c \in Cache
  BY <1>2, InvariantFacts
<1>6. PICK S : S = [c.snapshots EXCEPT ![q.uri] = q.docs]
  OBVIOUS
<1>7. S \in [F -> Texts \cup {None}]
  BY <1>4, <1>5, <1>6 DEF Cache
<1>8. e = [base |-> c.base, snapshots |-> S]
  BY <1>3, <1>4, <1>5, <1>6 DEF Cache
<1>9. e \in Cache
  BY <1>5, <1>7, <1>8 DEF Cache
<1>10. CacheStep
  BY <1>1, <1>2, <1>9 DEF CacheStep
<1>11. SnapshotOK(lDisk, lSession, lSince, q.uri, q.docs)
  <2>1. Search(lDisk, lSession, lSince, q.uri, q.docs, << >>)
    BY <1>2, <1>3, InvariantFacts DEF QueryHolds
  <2> QED
    BY <1>4, <2>1, SearchEnds
<1>12. Cached(lDisk, lSession, lSince, e)
  <2>1. Cached(lDisk, lSession, lSince, c)
    BY <1>2, InvariantFacts
  <2>2. e.base = c.base /\ e.snapshots = S
    BY <1>8
  <2>3. S[q.uri] = q.docs /\ \A f \in F : f # q.uri => S[f] = c.snapshots[f]
    BY <1>4, <1>5, <1>6 DEF Cache
  <2> QED
    BY <1>11, <2>1, <2>2, <2>3 DEF Cached
<1>13. QueryOK(lQuery') /\ lQuery'.pc = "idle"
  BY <1>3, IdleQuery
<1>14. QueryHolds(lDisk, lSession, lSince, lModules', lQuery')
  BY <1>13 DEF QueryHolds
<1> QED
  BY <1>1, <1>2, <1>10, <1>12, <1>13, <1>14, InvariantFacts, QueryStepIs

\* A query starts from the texts of the session.
LEMMA QueryIs ==
  ASSUME L!LanguageServerAssumption, Invariant, NEW f \in F, L!Query(f)
  PROVE  Invariant'
<1>1. /\ UNCHANGED <<lDisk, lEditor, lDocuments, lFiles, lGraph, lSession, lVersions, lModules,
                     lSince>>
      /\ L!Handle("query", f) /\ lQuery.pc = "idle"
  BY DEF L!Query, L!Handle, L!client
<1>2. PICK c, b : c = lCache /\ b = IF c.base = None THEN L!SessionTexts ELSE c.base
  OBVIOUS
<1>3. c \in Cache /\ Cached(lDisk, lSession, lSince, c)
  BY <1>2, InvariantFacts
<1>4. b = Bases(lSession)
  <2>1. L!SessionTexts = Bases(lSession)
    BY DEF L!SessionTexts, Bases, F
  <2> QED
    BY <1>2, <1>3, <2>1 DEF Cached
<1>5. b \in Texts
  <2>1. ASSUME NEW m \in F PROVE (IF lSession[m] = None THEN None ELSE lSession[m].text) \in AnyText
    <3>1. lSession[m] \in Version \cup {None}
      BY InvariantFacts
    <3> QED
      BY <3>1 DEF Version, AnyText
  <2> QED
    BY <1>4, <2>1 DEF Bases, Texts
<1>6. CASE UNCHANGED <<lCache, lQuery>>
  <2>1. CacheStep
    BY <1>1, <1>6, InvariantFacts DEF CacheStep
  <2>2. lQuery'.pc # "scan" /\ QueryOK(lQuery')
    BY <1>1, <1>6, InvariantFacts
  <2> QED
    BY <1>1, <1>6, <2>1, <2>2, InvariantFacts, QueryStepIs
<1>7. CASE /\ lSession[f] # None /\ lCache' = [c EXCEPT !.base = b]
           /\ lQuery' = [L!NoQuery EXCEPT !.pc = "next", !.uri = f, !.docs = b,
                                          !.queue = L!Enqueued(b[f])]
  <2>1. b[f] = lSession[f].text
    BY <1>4, <1>7 DEF Bases
  <2>2. lSession[f] \in Version
    BY <1>7, InvariantFacts
  <2>3. b[f] \in L!Text
    BY <2>1, <2>2 DEF Version
  <2>4. PICK E \in Seq(F) : E = L!Enqueued(b[f])
    BY <2>3, EnqueuedTyped
  <2>5. PICK r : r = Q("next", f, b, E, 0, None)
    OBVIOUS
  <2>6. lQuery' = r
    <3>1. PICK x, y, z : /\ x = Q("next", 0, None, << >>, 0, None)
                         /\ y = Q("next", f, None, << >>, 0, None)
                         /\ z = Q("next", f, b, << >>, 0, None)
      OBVIOUS
    <3>2. x = [L!NoQuery EXCEPT !.pc = "next"]
      BY <3>1 DEF L!NoQuery, Q
    <3>3. y = [x EXCEPT !.uri = f]
      BY <3>1 DEF Q
    <3>4. z = [y EXCEPT !.docs = b]
      BY <3>1 DEF Q
    <3>5. r = [z EXCEPT !.queue = E]
      BY <2>5, <3>1 DEF Q
    <3> QED
      BY <1>7, <2>4, <3>2, <3>3, <3>4, <3>5
  <2>7. r.pc = "next" /\ r.uri = f /\ r.docs = b /\ r.queue = E
    BY <2>5 DEF Q
  <2>8. QueryOK(r)
    <3>1. 0 \in Nat /\ None \in AnyText
      BY DEF AnyText
    <3> QED
      BY <1>5, <2>5, <3>1, FilesAreNumbers, QueryMade
  <2>9. Search(lDisk, lSession, lSince, f, b, E)
    BY <1>4, <1>7, <2>4, SearchStarts
  <2>10. QueryHolds(lDisk, lSession, lSince, lModules, r)
    BY <2>7, <2>9 DEF QueryHolds
  <2>11. PICK e : e = [base |-> b, snapshots |-> c.snapshots]
    OBVIOUS
  <2>12. lCache' = e
    BY <1>3, <1>7, <2>11 DEF Cache
  <2>13. e \in Cache
    BY <1>3, <1>5, <2>11 DEF Cache
  <2>14. Cached(lDisk, lSession, lSince, e)
    <3>1. e.base = b /\ e.snapshots = c.snapshots
      BY <2>11
    <3> QED
      BY <1>3, <1>4, <3>1 DEF Cached
  <2>15. CacheStep
    BY <1>1, <2>12, <2>13 DEF CacheStep
  <2>16. QueryOK(lQuery') /\ lQuery'.pc # "scan"
    BY <2>6, <2>7, <2>8
  <2>17. QueryHolds(lDisk, lSession, lSince, lModules', lQuery')
    BY <1>1, <2>6, <2>10
  <2> QED
    BY <1>1, <2>12, <2>14, <2>15, <2>16, <2>17, InvariantFacts, QueryStepIs
<1> QED
  <2>1. \/ UNCHANGED <<lCache, lQuery>>
        \/ /\ lSession[f] # None /\ lCache' = [c EXCEPT !.base = b]
           /\ lQuery' = [L!NoQuery EXCEPT !.pc = "next", !.uri = f, !.docs = b,
                                          !.queue = L!Enqueued(b[f])]
    BY <1>2 DEF L!Query
  <2> QED
    BY <1>6, <1>7, <2>1

-----------------------------------------------------------------------------
\* The editor and other programs: the tables stay.
Outside == UNCHANGED <<lDocuments, lFiles, lGraph, lSession, lVersions, lCache, lModules, lQuery>>

\* The types, after a step of somebody else.
LEMMA OutsideServed ==
  ASSUME L!LanguageServerAssumption, Served, Outside, DiskOK',
         lEditor' \in [F -> Version \cup {None}], lInbox' \in Seq(Update \cup Signal),
         lSince' \in [F -> SUBSET AnyText]
  PROVE  LsTypeOK' /\ Story(L!Tables)'
<1>1. LsTypeOK /\ Story(L!Tables)
  BY DEF Served
<1>2. PICK s \in TableSet : s = L!Tables
  BY <1>1 DEF LsTypeOK
<1>3. PICK z : z = L!Tables'
  OBVIOUS
<1>4. z = [documents |-> s.documents, files |-> s.files, graph |-> s.graph,
           session |-> s.session, versions |-> s.versions, cache |-> s.cache, since |-> lSince']
  BY <1>2, <1>3, TablesAre DEF Outside, L!Tables
<1>5. z \in TableSet
  BY <1>4 DEF TableSet
<1>6. /\ z.documents = s.documents /\ z.files = s.files /\ z.graph = s.graph
      /\ z.session = s.session /\ z.versions = s.versions
  BY <1>4
<1>7. Numbered(z) /\ Fits(z.graph, z.files)
  BY <1>1, <1>2, <1>6 DEF Story, Numbered
<1>8. \A g \in F : Agreed(z, g)
  BY <1>1, <1>2, <1>6 DEF Story, Agreed
<1>9. Story(z)
  BY <1>7, <1>8 DEF Story
<1>10. /\ lModules' \in [F -> [stamp : Nat, text : L!Text] \cup {None}]
       /\ QueryOK(lQuery')
  BY <1>1 DEF LsTypeOK, Outside
<1> QED
  BY <1>3, <1>5, <1>9, <1>10 DEF LsTypeOK

\* Without a write, nothing cached is touched.
LEMMA CachesStay ==
  ASSUME CachesHold, Outside, UNCHANGED <<lDisk, lSince>>
  PROVE  CachesHold'
  BY DEF CachesHold, Outside

\* A file is written: its type.
LEMMA WriteTyped ==
  ASSUME LsTypeOK, NEW f \in F, NEW t \in AnyText, L!Write(f, t)
  PROVE  /\ DiskOK' /\ lSince' \in [F -> SUBSET AnyText] /\ L!On(f)' = t
         /\ \A g \in F : g # f => lDisk'[g] = lDisk[g]
<1>1. lDisk \in [F -> [text : AnyText, stamp : Nat]] /\ lSince \in [F -> SUBSET AnyText]
  BY TablesAre DEF LsTypeOK, DiskOK, TableSet
<1>2. /\ lDisk' = [lDisk EXCEPT ![f] = [text |-> t, stamp |-> lDisk[f].stamp + 1]]
      /\ lSince' = [lSince EXCEPT ![f] = lSince[f] \cup {t}]
  BY DEF L!Write
<1>3. [text |-> t, stamp |-> lDisk[f].stamp + 1] \in [text : AnyText, stamp : Nat]
  BY <1>1
<1>4. lDisk' \in [F -> [text : AnyText, stamp : Nat]] /\ lSince' \in [F -> SUBSET AnyText]
  BY <1>1, <1>2, <1>3
<1>5. L!On(f)' = t /\ \A g \in F : g # f => lDisk'[g] = lDisk[g]
  BY <1>1, <1>2 DEF L!On
<1> QED
  BY <1>4, <1>5 DEF DiskOK

\* A message is sent: it brings the text the buffer has now.
LEMMA SentServed ==
  ASSUME L!LanguageServerAssumption, Served, Outside, DiskOK', lSince' \in [F -> SUBSET AnyText],
         lEditor' \in [F -> Version \cup {None}], lQuery.pc # "scan",
         NEW m \in Update \cup Signal, L!Send(m),
         \A g \in F : g # m.uri => lEditor'[g] = lEditor[g] /\ lDisk'[g] = lDisk[g],
         \/ m.kind \notin Notes /\ lEditor'[m.uri] = lEditor[m.uri] /\ lDisk'[m.uri] = lDisk[m.uri]
         \/ m.kind \in Notes /\ (lEditor'[m.uri] # None => Brings(m, m.uri)')
  PROVE  Served'
<1>1. LsTypeOK /\ Followed
  BY DEF Served
<1>2. lInbox' = Append(lInbox, m)
  BY DEF L!Send
<1>3. lInbox' \in Seq(Update \cup Signal)
  <2>1. PICK b \in Seq(Update \cup Signal) : b = lInbox
    BY <1>1 DEF LsTypeOK
  <2>2. Append(b, m) \in Seq(Update \cup Signal)
    OBVIOUS
  <2> QED
    BY <1>2, <2>1, <2>2
<1>4. LsTypeOK' /\ Story(L!Tables)'
  BY <1>3, OutsideServed
<1>5. UNCHANGED lDocuments
  BY DEF Outside
<1>6. Followed'
  BY <1>1, <1>2, <1>5, SentFollowed
<1>7. ScanFirst'
  BY DEF ScanFirst, Outside
<1> QED
  BY <1>4, <1>6, <1>7 DEF Served

\* What the editor's actions have in common.
LEMMA EditorFacts ==
  ASSUME Invariant
  PROVE  /\ LsTypeOK /\ DiskOK /\ Served /\ CachesHold
         /\ lEditor \in [F -> Version \cup {None}] /\ lSince \in [F -> SUBSET AnyText]
         /\ \A f \in F : lEditor[f] # None => lEditor[f] \in Version /\ lQuery.pc # "scan"
<1>1. /\ LsTypeOK /\ DiskOK /\ Served /\ CachesHold /\ ScanFirst
      /\ lEditor \in [F -> Version \cup {None}] /\ lSince \in [F -> SUBSET AnyText]
  BY TablesAre DEF Invariant, Served, LsTypeOK, TableSet
<1> QED
  BY <1>1 DEF ScanFirst

\* didOpen brings the text of the file.
LEMMA EditorOpensStep ==
  ASSUME L!LanguageServerAssumption, Invariant, NEW f \in F, L!EditorOpens(f)
  PROVE  Invariant'
<1>1. PICK t : t = L!On(f)
  OBVIOUS
<1>2. PICK e, m : /\ e = [text |-> t, version |-> 1]
                  /\ m = [kind |-> "didOpen", uri |-> f, text |-> t, version |-> 1]
  OBVIOUS
<1>3. /\ lQuery.pc # "scan" /\ t # None /\ lEditor' = [lEditor EXCEPT ![f] = e] /\ L!Send(m)
      /\ Outside /\ UNCHANGED <<lDisk, lSince>>
  BY <1>1, <1>2 DEF L!EditorOpens, L!Notify, L!tables, Outside
<1>4. t \in L!Text
  BY <1>1, <1>3, EditorFacts DEF DiskOK, L!On, AnyText
<1>5. e \in Version /\ m \in Update \cup Signal /\ m.kind = "didOpen" /\ m.uri = f /\ m.text = t
      /\ e.text = t
  BY <1>2, <1>4 DEF Version, Update
<1>6. lEditor' \in [F -> Version \cup {None}] /\ lEditor'[f] = e
      /\ \A g \in F : g # f => lEditor'[g] = lEditor[g]
  BY <1>3, <1>5, EditorFacts
<1>7. DiskOK' /\ lSince' \in [F -> SUBSET AnyText]
  BY <1>3, EditorFacts DEF DiskOK
<1>8. m.kind \in Notes /\ Brings(m, m.uri)'
  BY <1>5, <1>6 DEF Notes, Brings
<1>9. Served'
  BY <1>3, <1>5, <1>6, <1>7, <1>8, EditorFacts, SentServed
<1>10. CachesHold'
  BY <1>3, EditorFacts, CachesStay
<1> QED
  BY <1>9, <1>10 DEF Invariant

\* didChange brings the new text.
LEMMA EditorChangesStep ==
  ASSUME L!LanguageServerAssumption, Invariant, NEW f \in F, NEW t \in Contents[f],
         L!EditorChanges(f, t)
  PROVE  Invariant'
<1>1. PICK v : v = lEditor[f].version + 1
  OBVIOUS
<1>2. PICK e, m : /\ e = [text |-> t, version |-> v]
                  /\ m = [kind |-> "didChange", uri |-> f, text |-> t, version |-> v]
  OBVIOUS
<1>3. /\ lEditor[f] # None /\ lEditor' = [lEditor EXCEPT ![f] = e] /\ L!Send(m)
      /\ Outside /\ UNCHANGED <<lDisk, lSince>>
  BY <1>1, <1>2 DEF L!EditorChanges, L!Notify, L!tables, Outside
<1>4. t \in L!Text
  BY DEF L!Text, F
<1>5. lEditor[f] \in Version /\ lQuery.pc # "scan"
  BY <1>3, EditorFacts
<1>6. v \in Nat
  BY <1>1, <1>5 DEF Version
<1>7. e \in Version /\ m \in Update \cup Signal /\ m.kind = "didChange" /\ m.uri = f /\ m.text = t
      /\ e.text = t
  BY <1>2, <1>4, <1>6 DEF Version, Update
<1>8. lEditor' \in [F -> Version \cup {None}] /\ lEditor'[f] = e
      /\ \A g \in F : g # f => lEditor'[g] = lEditor[g]
  BY <1>3, <1>7, EditorFacts
<1>9. DiskOK' /\ lSince' \in [F -> SUBSET AnyText]
  BY <1>3, EditorFacts DEF DiskOK
<1>10. m.kind \in Notes /\ Brings(m, m.uri)'
  BY <1>7, <1>8 DEF Notes, Brings
<1>11. Served'
  BY <1>3, <1>5, <1>7, <1>8, <1>9, <1>10, EditorFacts, SentServed
<1>12. CachesHold'
  BY <1>3, EditorFacts, CachesStay
<1> QED
  BY <1>11, <1>12 DEF Invariant

\* A closed buffer is not followed.
LEMMA EditorClosesStep ==
  ASSUME L!LanguageServerAssumption, Invariant, NEW f \in F, L!EditorCloses(f)
  PROVE  Invariant'
<1>1. PICK m : m = [kind |-> "didClose", uri |-> f]
  OBVIOUS
<1>2. /\ lEditor[f] # None /\ lEditor' = [lEditor EXCEPT ![f] = None] /\ L!Send(m)
      /\ Outside /\ UNCHANGED <<lDisk, lSince>>
  BY <1>1 DEF L!EditorCloses, L!Notify, L!tables, Outside
<1>3. m \in Update \cup Signal /\ m.kind = "didClose" /\ m.uri = f
  BY <1>1 DEF Signal
<1>4. lEditor' \in [F -> Version \cup {None}] /\ lEditor'[f] = None
      /\ \A g \in F : g # f => lEditor'[g] = lEditor[g]
  BY <1>2, EditorFacts
<1>5. DiskOK' /\ lSince' \in [F -> SUBSET AnyText] /\ lQuery.pc # "scan"
  BY <1>2, EditorFacts DEF DiskOK
<1>6. m.kind \in Notes
  BY <1>3 DEF Notes
<1>7. Served'
  BY <1>2, <1>3, <1>4, <1>5, <1>6, EditorFacts, SentServed
<1>8. CachesHold'
  BY <1>2, EditorFacts, CachesStay
<1> QED
  BY <1>7, <1>8 DEF Invariant

\* A request brings no text.
LEMMA EditorAsksStep ==
  ASSUME L!LanguageServerAssumption, Invariant, NEW f \in F, L!EditorAsks(f)
  PROVE  Invariant'
<1>1. PICK kind \in {"diagnostic", "query"} : L!Send([kind |-> kind, uri |-> f])
  BY DEF L!EditorAsks
<1>2. PICK m : m = [kind |-> kind, uri |-> f]
  OBVIOUS
<1>3. lEditor[f] # None /\ Outside /\ UNCHANGED <<lDisk, lSince, lEditor>> /\ L!Send(m)
  BY <1>1, <1>2 DEF L!EditorAsks, L!tables, L!client, Outside
<1>4. m \in Update \cup Signal /\ m.kind \notin Notes /\ m.uri = f
  BY <1>2 DEF Signal, Notes
<1>5. DiskOK' /\ lSince' \in [F -> SUBSET AnyText] /\ lQuery.pc # "scan"
      /\ lEditor' \in [F -> Version \cup {None}]
  BY <1>3, EditorFacts DEF DiskOK
<1>6. Served'
  BY <1>3, <1>4, <1>5, EditorFacts, SentServed
<1>7. CachesHold'
  BY <1>3, EditorFacts, CachesStay
<1> QED
  BY <1>6, <1>7 DEF Invariant

\* didSave brings what is written now.
LEMMA EditorSavesStep ==
  ASSUME L!LanguageServerAssumption, Invariant, NEW f \in F, L!EditorSaves(f)
  PROVE  Invariant'
<1>1. PICK t, m : t = lEditor[f].text /\ m = [kind |-> "didSave", uri |-> f]
  OBVIOUS
<1>2. /\ lEditor[f] # None /\ L!Write(f, t) /\ L!Send(m) /\ Outside /\ UNCHANGED lEditor
  BY <1>1 DEF L!EditorSaves, L!Notify, L!tables, Outside
<1>3. lEditor[f] \in Version /\ lQuery.pc # "scan"
  BY <1>2, EditorFacts
<1>4. t \in L!Text /\ t \in AnyText
  BY <1>1, <1>3 DEF Version, AnyText
<1>5. m \in Update \cup Signal /\ m.kind = "didSave" /\ m.uri = f
  BY <1>1 DEF Signal
<1>6. /\ DiskOK' /\ lSince' \in [F -> SUBSET AnyText] /\ L!On(f)' = t
      /\ \A g \in F : g # f => lDisk'[g] = lDisk[g]
  BY <1>2, <1>4, EditorFacts, WriteTyped
<1>7. m.kind \in Notes /\ Brings(m, m.uri)'
  BY <1>1, <1>2, <1>5, <1>6 DEF Notes, Brings
<1>8. lEditor' \in [F -> Version \cup {None}] /\ \A g \in F : lEditor'[g] = lEditor[g]
  BY <1>2, EditorFacts
<1>9. Served'
  BY <1>2, <1>3, <1>5, <1>6, <1>7, <1>8, EditorFacts, SentServed
<1>10. CachesHold'
  <2>1. UNCHANGED <<lSession, lCache, lModules, lQuery>>
    BY <1>2 DEF Outside
  <2> QED
    BY <1>2, <1>4, <2>1, EditorFacts, WriteCaches
<1> QED
  BY <1>9, <1>10 DEF Invariant

\* Only files without a buffer are written by others.
LEMMA OutsideWriteStep ==
  ASSUME L!LanguageServerAssumption, Invariant, NEW f \in F, NEW t \in Contents[f] \cup {None},
         L!OutsideWrite(f, t)
  PROVE  Invariant'
<1>1. /\ lEditor[f] = None /\ L!Write(f, t) /\ Outside /\ UNCHANGED <<lEditor, lInbox>>
  BY DEF L!OutsideWrite, L!tables, L!client, Outside
<1>2. t \in AnyText
  BY DEF AnyText, L!Text, F
<1>3. /\ DiskOK' /\ lSince' \in [F -> SUBSET AnyText]
      /\ \A g \in F : g # f => lDisk'[g] = lDisk[g]
  BY <1>1, <1>2, EditorFacts, WriteTyped
<1>4. lEditor' \in [F -> Version \cup {None}] /\ lInbox' \in Seq(Update \cup Signal)
  BY <1>1, EditorFacts DEF LsTypeOK
<1>5. LsTypeOK' /\ Story(L!Tables)'
  BY <1>1, <1>3, <1>4, EditorFacts, OutsideServed
<1>6. ScanFirst'
  BY <1>1, EditorFacts DEF Served, ScanFirst, Outside
<1>7. Followed'
  <2> SUFFICES ASSUME NEW g \in F, lEditor'[g] # None PROVE FollowedAt(g)'
    BY DEF Followed, FollowedAt
  <2>1. g # f /\ lDisk'[g] = lDisk[g]
    BY <1>1, <1>3
  <2>2. FollowedAt(g)
    BY EditorFacts DEF Served, Followed
  <2>3. Notices(g)' = Notices(g)
    BY <1>1 DEF Notices
  <2>4. \A x : Brings(x, g)' <=> Brings(x, g)
    BY <1>1, <2>1 DEF Brings, L!On
  <2>5. lDocuments' = lDocuments
    BY <1>1 DEF Outside
  <2> QED
    BY <1>1, <2>2, <2>3, <2>4, <2>5 DEF FollowedAt
<1>8. CachesHold'
  <2>1. UNCHANGED <<lSession, lCache, lModules, lQuery>>
    BY <1>1 DEF Outside
  <2> QED
    BY <1>1, <1>2, <2>1, EditorFacts, WriteCaches
<1> QED
  BY <1>5, <1>6, <1>7, <1>8 DEF Invariant, Served

-----------------------------------------------------------------------------
\* The invariant holds at first.
LEMMA InvariantInit ==
  ASSUME L!LanguageServerAssumption, L!Init
  PROVE  Invariant
<1>1. /\ lDisk = [f \in F |-> [text |-> Initial[f], stamp |-> 0]]
      /\ lEditor = [f \in F |-> None] /\ lInbox = << >>
      /\ lDocuments = [f \in F |-> None] /\ lFiles = [f \in F |-> None]
      /\ lGraph = [nodes |-> [f \in F |-> None], providers |-> [m \in F |-> {}],
                   importers |-> [m \in F |-> {}]]
      /\ lSession = [f \in F |-> None] /\ lVersions = [f \in F |-> 0]
      /\ lCache = L!NoCache /\ lModules = [f \in F |-> None]
      /\ lQuery = [L!NoQuery EXCEPT !.pc = "scan",
                     !.docs = [f \in F |-> IF f \in Library THEN None ELSE Initial[f]]]
      /\ lSince = [f \in F |-> {L!On(f)}]
  BY DEF L!Init, F
<1>2. 0 \in Nat /\ << >> \in Seq(F) /\ Initial \in [F -> AnyText]
  BY DEF L!LanguageServerAssumption, F, AnyText
<1>3. DiskOK
  BY <1>1, <1>2 DEF DiskOK
<1>4. lEditor \in [F -> Version \cup {None}] /\ lInbox \in Seq(Update \cup Signal)
      /\ lModules \in [F -> [stamp : Nat, text : L!Text] \cup {None}]
  BY <1>1
<1>5. lCache \in Cache /\ lCache.base = None /\ \A f \in F : lCache.snapshots[f] = None
  BY <1>1 DEF L!NoCache, Cache, F
<1>6. lSince \in [F -> SUBSET AnyText] /\ SinceNow(lDisk, lSince)
  BY <1>1, <1>3 DEF DiskOK, L!On, SinceNow
<1>7. lGraph \in Graph
  BY <1>1 DEF Graph
<1>8. /\ lDocuments \in [F -> Entry] /\ lFiles \in [F -> Entry]
      /\ lSession \in [F -> Version \cup {None}] /\ lVersions \in [F -> Nat]
  BY <1>1, <1>2 DEF Entry
<1>9. PICK s : s = L!Tables
  OBVIOUS
<1>10. s \in TableSet
  BY <1>5, <1>6, <1>7, <1>8, <1>9 DEF L!Tables, TableSet
<1>11. Story(s)
  <2>1. /\ s.documents = lDocuments /\ s.files = lFiles /\ s.graph = lGraph
        /\ s.session = lSession /\ s.versions = lVersions
    BY <1>9, TablesAre
  <2>2. Numbered(s) /\ \A g \in F : Agreed(s, g)
    BY <1>1, <2>1 DEF Numbered, Agreed
  <2>3. Fits(lGraph, lFiles)
    <3>1. /\ lGraph.nodes = [f \in F |-> None] /\ lGraph.providers = [m \in F |-> {}]
          /\ lGraph.importers = [m \in F |-> {}]
      BY <1>1
    <3>2. \A f \in F : lFiles[f] = None
      BY <1>1
    <3> QED
      BY <3>1, <3>2 DEF Fits
  <2> QED
    BY <2>1, <2>2, <2>3 DEF Story
<1>12. PICK D : D = [f \in F |-> IF f \in Library THEN None ELSE Initial[f]]
  OBVIOUS
<1>13. D \in Texts
  BY <1>2, <1>12 DEF Texts, AnyText
<1>14. PICK r : r = Q("scan", 0, D, << >>, 0, None)
  OBVIOUS
<1>15. lQuery = r
  <2>1. PICK x : x = Q("scan", 0, None, << >>, 0, None)
    OBVIOUS
  <2>2. x = [L!NoQuery EXCEPT !.pc = "scan"]
    BY <2>1 DEF L!NoQuery, Q
  <2>3. r = [x EXCEPT !.docs = D]
    BY <1>14, <2>1 DEF Q
  <2> QED
    BY <1>1, <1>12, <2>2, <2>3
<1>16. r.pc = "scan" /\ QueryOK(r)
  BY <1>2, <1>13, <1>14 DEF QueryOK, Q, AnyText
<1>17. LsTypeOK
  BY <1>3, <1>4, <1>9, <1>10, <1>15, <1>16 DEF LsTypeOK
<1>18. ScanFirst /\ Followed
  BY <1>1 DEF ScanFirst, Followed, FollowedAt
<1>19. ModulesKnown(lDisk, lModules) /\ Cached(lDisk, lSession, lSince, lCache)
  BY <1>1, <1>5 DEF ModulesKnown, Cached
<1>20. QueryHolds(lDisk, lSession, lSince, lModules, lQuery)
  BY <1>15, <1>16 DEF QueryHolds
<1> QED
  BY <1>6, <1>9, <1>11, <1>17, <1>18, <1>19, <1>20 DEF Invariant, Served, CachesHold

\* A change of the tables keeps what is cached exact.
LEMMA TableStepInvariant ==
  ASSUME L!LanguageServerAssumption, Invariant, TableStep, Served'
  PROVE  Invariant'
  BY TableStepCaches DEF Invariant

\* Every action of the server and its surroundings keeps the invariant.
LEMMA InvariantNext ==
  ASSUME L!LanguageServerAssumption, Invariant, L!Next
  PROVE  Invariant'
<1>1. CASE L!Scanned \/ L!ImportsDone
  BY <1>1, RestStep
<1>2. CASE L!ImportModule
  BY <1>2, ImportModuleStep, TableStepInvariant DEF Invariant
<1>3. CASE L!QueryStep
  <2>1. CASE L!NextModule
    BY <2>1, NextModuleStep
  <2>2. CASE L!LoadCached
    BY <2>2, LoadCachedStep
  <2>3. CASE L!LoadFile
    BY <2>3, LoadFileStep
  <2>4. CASE L!KeepFile
    BY <2>4, KeepFileStep
  <2>5. CASE L!Answer
    BY <2>5, AnswerStep
  <2> QED
    BY <1>3, <2>1, <2>2, <2>3, <2>4, <2>5 DEF L!QueryStep
<1>4. ASSUME NEW f \in F, L!Server(f) PROVE Invariant'
  <2>1. CASE L!Scan(f)
    BY <2>1, ScanStep, TableStepInvariant DEF Invariant
  <2>2. CASE L!DidOpen(f)
    BY <2>2, DidOpenStep, TableStepInvariant DEF Invariant
  <2>3. CASE L!DidChange(f)
    BY <2>3, DidChangeStep, TableStepInvariant DEF Invariant
  <2>4. CASE L!DidSave(f)
    BY <2>4, DidSaveStep, TableStepInvariant DEF Invariant
  <2>5. CASE L!DidClose(f)
    BY <2>5, DidCloseStep, TableStepInvariant DEF Invariant
  <2>6. CASE L!Diagnostic(f)
    BY <2>6, DiagnosticStep, TableStepInvariant DEF Invariant
  <2>7. CASE L!Query(f)
    BY <2>7, QueryIs
  <2> QED
    BY <1>4, <2>1, <2>2, <2>3, <2>4, <2>5, <2>6, <2>7 DEF L!Server
<1>5. ASSUME NEW f \in F, L!Editor(f) PROVE Invariant'
  <2>1. CASE L!EditorOpens(f)
    BY <2>1, EditorOpensStep
  <2>2. CASE L!EditorSaves(f)
    BY <2>2, EditorSavesStep
  <2>3. CASE L!EditorCloses(f)
    BY <2>3, EditorClosesStep
  <2>4. CASE L!EditorAsks(f)
    BY <2>4, EditorAsksStep
  <2>5. ASSUME NEW t \in Contents[f], L!EditorChanges(f, t) PROVE Invariant'
    BY <2>5, EditorChangesStep
  <2> QED
    BY <1>5, <2>1, <2>2, <2>3, <2>4, <2>5 DEF L!Editor
<1>6. ASSUME NEW f \in F, NEW t \in Contents[f] \cup {None}, L!OutsideWrite(f, t)
      PROVE  Invariant'
  BY <1>6, OutsideWriteStep
<1> QED
  BY <1>1, <1>2, <1>3, <1>4, <1>5, <1>6 DEF L!Next, F

\* The generator does not touch the server.
LEMMA InvariantStutter ==
  ASSUME Invariant, UNCHANGED lvars
  PROVE  Invariant'
<1>1. UNCHANGED <<lDisk, lEditor, lInbox, lDocuments, lFiles, lGraph, lSession, lVersions,
                  lCache, lModules, lQuery, lSince>>
  BY DEF lvars
<1>2. L!Tables' = L!Tables
  BY <1>1 DEF L!Tables
<1>3. LsTypeOK'
  BY <1>1, <1>2 DEF Invariant, Served, LsTypeOK, DiskOK
<1>4. Story(L!Tables)' /\ ScanFirst'
  BY <1>1, <1>2 DEF Invariant, Served, ScanFirst
<1>5. Followed'
  BY <1>1, FollowedStays DEF Invariant, Served
<1>6. CachesHold'
  BY <1>1 DEF Invariant, CachesHold
<1> QED
  BY <1>3, <1>4, <1>5, <1>6 DEF Invariant, Served

\* Every step of the compiler keeps the invariant.
LEMMA InvariantStep ==
  ASSUME L!LanguageServerAssumption, Invariant, [CNext]_<<part, vars, lvars>>
  PROVE  Invariant'
<1>1. CASE ServerStep
  BY <1>1, InvariantNext DEF ServerStep
<1>2. CASE GeneratorStep
  BY <1>2, InvariantStutter DEF GeneratorStep
<1>3. CASE UNCHANGED <<part, vars, lvars>>
  BY <1>3, InvariantStutter
<1> QED
  BY <1>1, <1>2, <1>3 DEF CNext

\* The invariant is an invariant.
LEMMA ServerInvariant ==
  ASSUME L!LanguageServerAssumption
  PROVE  CSpec => []Invariant
<1>1. CInit => Invariant
  BY InvariantInit DEF CInit
<1>2. Invariant /\ [CNext]_<<part, vars, lvars>> => Invariant'
  BY InvariantStep
<1> QED
  BY <1>1, <1>2, PTL DEF CSpec

\* The documents of the incremental compiler, the compiler session, the index
\* and the two indexes of the module graph agree in every state, for every
\* set of files and every text: no sequence of didOpen, didChange, didSave,
\* didClose, diagnostics and scan makes them tell different stories.
THEOREM ServerTablesAgree ==
  ASSUME L!LanguageServerAssumption
  PROVE  CSpec => []TablesAgree
<1>1. Invariant => TablesAgree
  <2> SUFFICES ASSUME Invariant PROVE TablesAgree
    OBVIOUS
  <2>1. PICK s : s = L!Tables
    OBVIOUS
  <2>2. /\ s.documents = lDocuments /\ s.files = lFiles /\ s.graph = lGraph
        /\ s.session = lSession /\ s.versions = lVersions
    BY <2>1, TablesAre
  <2>3. Story(s)
    BY <2>1 DEF Invariant, Served
  <2>4. ASSUME NEW f \in F
        PROVE  /\ lDocuments[f] = None <=> lSession[f] = None
               /\ lDocuments[f] # None =>
                    /\ lSession[f].text = lDocuments[f].text /\ lSession[f].version = lVersions[f]
                    /\ lFiles[f] = lDocuments[f]
    BY <2>2, <2>3 DEF Story, Numbered, Agreed
  <2>5. ASSUME NEW m \in F
        PROVE  /\ lGraph.providers[m] =
                    {f \in F : lFiles[f] # None /\ m \in L!Provides(f, lFiles[f].ast)}
               /\ lGraph.importers[m] =
                    {f \in F : lFiles[f] # None /\ m \in L!Imports(lFiles[f].ast)}
    BY <2>2, <2>3 DEF Story, Fits
  <2> QED
    BY <2>4, <2>5 DEF TablesAgree, L!TablesAgree, F
<1> QED
  BY <1>1, ServerInvariant, PTL

\* When the server has handled all messages it has, of every file the editor
\* has open, the text of the editor's buffer, in documents, session and index,
\* whatever was opened, changed, saved, closed and indexed before.
THEOREM ServerFollowsEditor ==
  ASSUME L!LanguageServerAssumption
  PROVE  CSpec => []EditorIsFollowed
<1>1. Invariant => EditorIsFollowed
  <2> SUFFICES ASSUME Invariant, lInbox = << >>, NEW f \in F, lEditor[f] # None
               PROVE  /\ lDocuments[f] # None /\ lDocuments[f].text = lEditor[f].text
                      /\ lSession[f] # None /\ lSession[f].text = lEditor[f].text
                      /\ lFiles[f] = lDocuments[f]
    BY DEF EditorIsFollowed, L!EditorIsFollowed, F
  <2>1. PICK s : s = L!Tables
    OBVIOUS
  <2>2. s.documents = lDocuments /\ s.files = lFiles /\ s.session = lSession
    BY <2>1, TablesAre
  <2>3. Agreed(s, f) /\ FollowedAt(f)
    BY <2>1 DEF Invariant, Served, Story, Followed
  <2>4. Notices(f) = {}
    <3>1. Len(lInbox) = 0
      OBVIOUS
    <3>2. \A j \in 1 .. 0 : FALSE
      OBVIOUS
    <3> QED
      BY <3>1, <3>2 DEF Notices
  <2>5. lDocuments[f] # None /\ lDocuments[f].text = lEditor[f].text
    BY <2>3, <2>4 DEF FollowedAt
  <2> QED
    BY <2>2, <2>3, <2>5 DEF Agreed
<1> QED
  BY <1>1, ServerInvariant, PTL

\* What a semantic query finds in the caches is what it would find without
\* them: a snapshot has the present text of every document, and, as long as no
\* file has changed since the last mutation, exactly the modules that can be
\* reached; a cached module file with the file's time of change has its text,
\* although files are written between the steps of loading them.
THEOREM ServerCachesExact ==
  ASSUME L!LanguageServerAssumption
  PROVE  CSpec => []CachesExact
<1>1. Invariant => L!ModuleCacheCoherent
  BY InvariantFacts DEF L!ModuleCacheCoherent, ModulesKnown, L!On, F
<1>2. Invariant => L!SnapshotsExact
  <2> SUFFICES ASSUME Invariant, NEW f \in F, lCache.snapshots[f] # None, NEW docs,
                      docs = lCache.snapshots[f]
               PROVE  /\ lSession[f] # None
                      /\ \A m \in F : IF lSession[m] # None THEN docs[m] = lSession[m].text
                                      ELSE docs[m] \in lSince[m] \cup {None}
                      /\ (\A m \in F : lSince[m] = {L!On(m)}) =>
                           {m \in F : lSession[m] = None /\ docs[m] # None} = L!Reached(f)
    BY DEF L!SnapshotsExact, F
  <2>1. SnapshotOK(lDisk, lSession, lSince, f, docs)
    BY InvariantFacts DEF Cached
  <2>2. lSession[f] # None /\ Known(lSession, lSince, docs)
    BY <2>1 DEF SnapshotOK
  <2>3. PICK R : R = {m \in Loads(lDisk, lSession) : \A S \in Closed(lDisk, lSession, f) : m \in S}
    OBVIOUS
  <2>4. L!Reached(f) = R
    BY <2>3 DEF L!Reached, Loads, Wants, Closed, L!On, F
  <2>5. ASSUME \A m \in F : lSince[m] = {L!On(m)}
        PROVE  {m \in F : lSession[m] = None /\ docs[m] # None} = R
    <3>1. Still(lDisk, lSince)
      BY <2>5 DEF Still, L!On
    <3> QED
      BY <2>1, <2>3, <3>1 DEF SnapshotOK, Found
  <2> QED
    BY <2>2, <2>4, <2>5 DEF Known
<1>3. Invariant => CachesExact
  BY <1>1, <1>2 DEF CachesExact
<1> QED
  BY <1>3, ServerInvariant, PTL

-----------------------------------------------------------------------------
(* The code generator.  The flags of the run decide what is live (Exact);  *)
(* the analysis says of which variables it is certain (Certain).           *)

Fates == {"live", "dropped", "given"}
Runtime == [val : [Slots -> Nat], flag : [Slots -> BOOLEAN], fate : Seq(Fates),
            misused : BOOLEAN]
Variable == [name : Names, slot : Slots]
ScopeSet == [vars : SUBSET Variable, before : SUBSET Names]
Code == [op : {"let", "assign", "use", "give"}, to : Slots \cup {0}, from : Slots \cup {0}]
Loops == {"while", "again"}
FrameSet ==
  [kind : {"block", "then", "else"} \cup Loops, incoming : SUBSET Names, wasOn : BOOLEAN,
   taken : Nat \cup {"", "then", "else"}, thenMoved : SUBSET Names, falls : BOOLEAN,
   code : Seq(Code), exits : SUBSET Names, at : Nat \ {0}]

OwnTypeOK ==
  /\ moved \subseteq Names /\ scopes \in Seq(ScopeSet) /\ frames \in Seq(FrameSet)
  /\ term \in BOOLEAN /\ on \in BOOLEAN /\ over \in BOOLEAN
  /\ size \in 0 .. MaxSize /\ lets \in 0 .. size /\ rt \in Runtime

Top == frames[Len(frames)]

\* Each construct has a scope; loops do not nest.
Shaped ==
  /\ IF scopes = << >> THEN frames = << >> /\ over /\ term ELSE Len(scopes) = Len(frames) + 1
  /\ \A k \in 1 .. Len(frames) :
       /\ frames[k].kind \in Loops => k = Len(frames) /\ frames[k].taken \in Nat
       /\ frames[k].kind = "block" => frames[k].taken = ""
       /\ frames[k].kind \in {"then", "else"} => frames[k].taken \in {"then", "else"}

NamesOf(scope) == {v.name : v \in scope.vars}
SlotsOf(ss, d) == {v.slot : v \in Registered(ss, d)}

\* Slots are given out in order, each to one variable.
Slotted(ss, last) ==
  \A d \in 1 .. Len(ss) :
    /\ ss[d].before \subseteq NamesOf(ss[d])
    /\ \A v \in ss[d].vars : v.slot <= last
    /\ \A e \in 1 .. Len(ss) : \A v \in ss[d].vars, w \in ss[e].vars :
         (d < e => v.slot < w.slot) /\ (v.slot = w.slot => v = w)

\* The part of the construct that is generated is the one the run takes.
OnBranch(f) == IF f.kind \in Loops THEN f.taken > 0 ELSE f.kind \in {"block", f.taken}
Skipped(f) == f.wasOn /\ ~OnBranch(f)
Pathed ==
  /\ over => ~on /\ (frames # << >> /\ Top.kind \in Loops => ~Top.wasOn)
  /\ ~over =>
       /\ \A k \in 1 .. Len(frames) :
            frames[k].wasOn <=> k = 1 \/ (frames[k - 1].wasOn /\ OnBranch(frames[k - 1]))
       /\ on <=> frames = << >> \/ (Top.wasOn /\ OnBranch(Top))

\* The run does not get behind a terminator, but at the end of a loop's body.
Ending ==
  /\ on /\ term => frames # << >> /\ Top.kind \in Loops
  /\ frames # << >> /\ Top.kind = "again" => term
  /\ \A k \in 1 .. Len(frames) :
       LET f == frames[k]
       IN  f.kind = "else" /\ f.wasOn /\ f.taken = "then" /\ ~f.falls => over

\* The flags of r stand for the live values, one each, of variables in S.
Exact(r, S) ==
  /\ \A s \in Slots : r.flag[s] =>
       s \in S /\ r.val[s] \in 1 .. Len(r.fate) /\ r.fate[r.val[s]] = "live"
  /\ \A s, u \in Slots : r.flag[s] /\ r.flag[u] /\ r.val[s] = r.val[u] => s = u
  /\ \A v \in 1 .. Len(r.fate) : r.fate[v] = "live" => \E s \in Slots : r.flag[s] /\ r.val[s] = v

\* What is not among the moved names m in scope d is in A, and so is what a
\* scope shadows and does not remember as moved.
Sees(A, ss, m, d) ==
  \A n \in Names \ m : SlotAt(ss, d, n) # 0 => SlotAt(ss, d, n) \in A
Keeps(A, ss, d) ==
  \A h \in 2 .. d : \A n \in NamesOf(ss[h]) \ ss[h].before :
    SlotAt(ss, h - 1, n) # 0 => SlotAt(ss, h - 1, n) \in A
Flags(r) == {s \in Slots : r.flag[s]}
Certain(r, ss, m, d) == Sees(Flags(r), ss, m, d) /\ Keeps(Flags(r), ss, d)

\* While a branch is generated that the run does not take, the run waits at
\* the end of the construct with the moves of the branch it has taken.
View(f) == IF f.kind = "else" THEN f.thenMoved ELSE f.incoming
RunHolds ==
  /\ ~rt.misused
  /\ over => \A v \in 1 .. Len(rt.fate) : rt.fate[v] # "live"
  /\ ~over =>
       /\ on => Exact(rt, SlotsOf(scopes, Len(scopes)))
       /\ on /\ ~term => Certain(rt, scopes, moved, Len(scopes))
       /\ \A k \in 1 .. Len(frames) : Skipped(frames[k]) =>
            Exact(rt, SlotsOf(scopes, k)) /\ Certain(rt, scopes, View(frames[k]), k)

\* What an instruction does to slots, and the slots filled before the k-th
\* instruction of a body and not emptied since.
StoresTo(i, s) == i.op \in {"let", "assign"} /\ i.to = s
TakesFrom(i, s) == i.op # "use" /\ i.from = s
Held(c, k, s) ==
  \E j \in 1 .. k - 1 : StoresTo(c[j], s) /\ \A h \in j + 1 .. k - 1 : ~TakesFrom(c[h], s)

\* A body moves only its own variables, uses what it holds or what the loop
\* is certain to find (base), and declares each of its variables once.
Local(ss) == CleanupOf(ss[Len(ss)])
Base(ss, m) == {SlotAt(ss, Len(ss) - 1, n) : n \in Names \ m} \ {0}
LegalAt(c, ss, base, j) ==
  /\ \A s \in Slots : TakesFrom(c[j], s) => s \in Local(ss) /\ Held(c, j, s)
  /\ c[j].op \in {"use", "give"} => c[j].from # 0
  /\ c[j].op = "use" => Held(c, j, c[j].from) \/ c[j].from \in base
  /\ c[j].op \in {"let", "assign"} => c[j].to \in SlotsOf(ss, Len(ss))
  /\ c[j].op = "let" => c[j].to \in Local(ss) /\ \A h \in 1 .. j - 1 : ~StoresTo(c[h], c[j].to)
Legal(c, ss, base) == \A j \in 1 .. Len(c) : LegalAt(c, ss, base, j)

\* What the analysis takes for certain in a body, the body holds.
HeldAt(c, k) == {s \in Slots : Held(c, k, s)}
Sure(c, ss, m, base) == Sees(HeldAt(c, Len(c) + 1) \cup base, ss, m, Len(ss))

\* A further iteration, before the instruction at.
Replays(r, c, at, local) ==
  /\ at = 1 => \A s \in local : ~r.flag[s]
  /\ \A s \in Slots : Held(c, at, s) => r.flag[s]
  /\ \A j \in at .. Len(c) : c[j].op = "let" => ~r.flag[c[j].to]

LoopHolds ==
  frames # << >> /\ Top.kind \in Loops =>
    /\ Top.wasOn /\ ~over => Certain(rt, scopes, Top.incoming, Len(scopes) - 1)
    /\ Legal(Top.code, scopes, Base(scopes, Top.incoming))
    /\ Top.kind = "while" =>
         /\ Top.at = 1 /\ (term => Local(scopes) = {})
         /\ ~term => Sure(Top.code, scopes, moved, Base(scopes, Top.incoming))
    /\ Top.kind = "again" =>
         /\ Top.at <= Len(Top.code) + 1 /\ (Top.taken <= 1 => Top.at = 1)
         /\ ~Top.falls => Local(scopes) = {}
         /\ on => Replays(rt, Top.code, Top.at, Local(scopes))

OwnInv ==
  /\ OwnTypeOK /\ Shaped /\ Slotted(scopes, lets) /\ Pathed /\ Ending
  /\ RunHolds /\ LoopHolds

-----------------------------------------------------------------------------
(* Slots and names.                                                        *)

\* Slots are numbers; a set of them has a greatest.
LEMMA Greatest ==
  ASSUME NEW T, T \subseteq Slots, T # {}
  PROVE  Max(T) \in T /\ \A y \in T : y <= Max(T)
<1> DEFINE D == {MaxSize - x : x \in T}
<1>1. MaxSize \in Nat /\ \A x \in T : x \in Nat /\ x <= MaxSize
  BY OwnershipAssumption DEF Slots
<1>2. D \subseteq Nat /\ D # {}
  BY <1>1
<1>3. PICK m \in D : \A y \in D : m <= y
  BY <1>2, Least
<1>4. PICK x \in T : m = MaxSize - x
  OBVIOUS
<1>5. \A y \in T : x >= y
  <2>1. ASSUME NEW y \in T PROVE x >= y
    <3>1. MaxSize - x <= MaxSize - y
      BY <1>3, <1>4
    <3> QED
      BY <1>1, <3>1
  <2> QED
    BY <2>1
<1>6. Max(T) \in T /\ \A y \in T : Max(T) >= y
  BY <1>5 DEF Max
<1> QED
  BY <1>1, <1>6

LEMMA RegisteredMember ==
  ASSUME NEW ss \in Seq(ScopeSet), NEW d \in 0 .. Len(ss)
  PROVE  /\ Registered(ss, d) \subseteq Variable
         /\ \A v : v \in Registered(ss, d) <=> \E e \in 1 .. d : v \in ss[e].vars
         /\ SlotsOf(ss, d) \subseteq Slots
<1>1. \A v : v \in Registered(ss, d) <=> \E e \in 1 .. d : v \in ss[e].vars
  BY DEF Registered
<1>2. \A e \in 1 .. d : ss[e] \in ScopeSet
  OBVIOUS
<1>3. Registered(ss, d) \subseteq Variable
  BY <1>1, <1>2 DEF ScopeSet
<1> QED
  BY <1>1, <1>3 DEF SlotsOf, Variable

\* The slot of a name is that of its latest registration.
LEMMA SlotFacts ==
  ASSUME NEW ss \in Seq(ScopeSet), NEW d \in 0 .. Len(ss), NEW n
  PROVE  /\ SlotAt(ss, d, n) \in Slots \cup {0}
         /\ SlotAt(ss, d, n) = 0 <=> \A v \in Registered(ss, d) : v.name # n
         /\ SlotAt(ss, d, n) # 0 =>
              \E v \in Registered(ss, d) :
                /\ v.name = n /\ v.slot = SlotAt(ss, d, n)
                /\ \A w \in Registered(ss, d) : w.name = n => w.slot <= v.slot
<1> DEFINE own == {v.slot : v \in {u \in Registered(ss, d) : u.name = n}}
<1>1. Registered(ss, d) \subseteq Variable
  BY RegisteredMember
<1>2. own \subseteq Slots
  BY <1>1 DEF Variable
<1>3. SlotAt(ss, d, n) = IF own = {} THEN 0 ELSE Max(own)
  BY DEF SlotAt
<1>4. own = {} <=> \A v \in Registered(ss, d) : v.name # n
  OBVIOUS
<1>5. 0 \notin Slots
  BY DEF Slots
<1>6. CASE own = {}
  BY <1>3, <1>4, <1>6
<1>7. CASE own # {}
  <2>1. Max(own) \in own /\ \A y \in own : y <= Max(own)
    BY <1>2, <1>7, Greatest
  <2>2. SlotAt(ss, d, n) = Max(own)
    BY <1>3, <1>7
  <2>3. PICK v \in {u \in Registered(ss, d) : u.name = n} : v.slot = Max(own)
    BY <2>1
  <2>4. \A w \in Registered(ss, d) : w.name = n => w.slot \in own
    OBVIOUS
  <2> HIDE DEF own
  <2> QED
    BY <1>2, <1>4, <1>5, <1>7, <2>1, <2>2, <2>3, <2>4
<1> QED
  BY <1>6, <1>7

\* Stacks that agree up to d have the same registrations there.
LEMMA SameBelow ==
  ASSUME NEW ss, NEW tt, NEW d \in Nat, \A e \in 1 .. d : ss[e] = tt[e]
  PROVE  /\ Registered(ss, d) = Registered(tt, d)
         /\ SlotsOf(ss, d) = SlotsOf(tt, d)
         /\ \A n : SlotAt(ss, d, n) = SlotAt(tt, d, n)
<1>1. Registered(ss, d) = Registered(tt, d)
  BY DEF Registered
<1> QED
  BY <1>1 DEF SlotsOf, SlotAt

\* One scope more.
LEMMA OneMore ==
  ASSUME NEW ss \in Seq(ScopeSet), NEW d \in 1 .. Len(ss)
  PROVE  /\ Registered(ss, d) = Registered(ss, d - 1) \cup ss[d].vars
         /\ SlotsOf(ss, d) = SlotsOf(ss, d - 1) \cup CleanupOf(ss[d])
         /\ ss[d].vars \subseteq Variable
<1>1. \A e : e \in 1 .. d <=> e \in 1 .. d - 1 \/ e = d
  OBVIOUS
<1>2. d \in 0 .. Len(ss) /\ d - 1 \in 0 .. Len(ss)
  OBVIOUS
<1>3. \A v : v \in Registered(ss, d) <=> v \in Registered(ss, d - 1) \/ v \in ss[d].vars
  BY <1>1, <1>2, RegisteredMember
<1>4. ss[d] \in ScopeSet
  OBVIOUS
<1>5. Registered(ss, d) = Registered(ss, d - 1) \cup ss[d].vars
  BY <1>3
<1>6. SlotsOf(ss, d) = SlotsOf(ss, d - 1) \cup CleanupOf(ss[d])
  BY <1>5 DEF SlotsOf, CleanupOf
<1> QED
  BY <1>4, <1>5, <1>6 DEF ScopeSet

\* Each slot belongs to one variable, so different names have different slots.
LEMMA OneVariable ==
  ASSUME NEW ss \in Seq(ScopeSet), NEW last, Slotted(ss, last), NEW d \in 0 .. Len(ss),
         NEW e \in 0 .. Len(ss), NEW v \in Registered(ss, d), NEW w \in Registered(ss, e),
         v.slot = w.slot
  PROVE  v = w
<1>1. PICK a \in 1 .. d : v \in ss[a].vars
  BY RegisteredMember
<1>2. PICK b \in 1 .. e : w \in ss[b].vars
  BY RegisteredMember
<1>3. a \in 1 .. Len(ss) /\ b \in 1 .. Len(ss)
  OBVIOUS
<1> QED
  BY <1>1, <1>2, <1>3 DEF Slotted

LEMMA OneName ==
  ASSUME NEW ss \in Seq(ScopeSet), NEW last, Slotted(ss, last), NEW d \in 0 .. Len(ss),
         NEW e \in 0 .. Len(ss), NEW n, NEW m, SlotAt(ss, d, n) # 0,
         SlotAt(ss, d, n) = SlotAt(ss, e, m)
  PROVE  n = m
<1>1. PICK v \in Registered(ss, d) : v.name = n /\ v.slot = SlotAt(ss, d, n)
  BY SlotFacts
<1>2. PICK w \in Registered(ss, e) : w.name = m /\ w.slot = SlotAt(ss, e, m)
  BY SlotFacts
<1> QED
  BY <1>1, <1>2, OneVariable

\* The slots of a scope are not among those below it.
LEMMA Apart ==
  ASSUME NEW ss \in Seq(ScopeSet), NEW last, Slotted(ss, last), NEW d \in 1 .. Len(ss),
         NEW s \in CleanupOf(ss[d])
  PROVE  s \notin SlotsOf(ss, d - 1)
<1> SUFFICES ASSUME s \in SlotsOf(ss, d - 1) PROVE FALSE
  OBVIOUS
<1>1. PICK w \in Registered(ss, d - 1) : w.slot = s
  BY DEF SlotsOf
<1>2. d - 1 \in 0 .. Len(ss)
  OBVIOUS
<1>3. PICK e \in 1 .. d - 1 : w \in ss[e].vars
  BY <1>2, RegisteredMember
<1>4. PICK v \in ss[d].vars : v.slot = s
  BY DEF CleanupOf
<1>5. e \in 1 .. Len(ss) /\ e < d /\ ss[d] \in ScopeSet
  OBVIOUS
<1>6. w.slot < v.slot
  BY <1>3, <1>4, <1>5 DEF Slotted
<1>7. s \in Int
  BY <1>4, <1>5 DEF ScopeSet, Variable, Slots
<1> QED
  BY <1>1, <1>4, <1>6, <1>7

\* A name that a scope does not declare is the one below; one that it declares
\* is its own.
LEMMA NotHere ==
  ASSUME NEW ss \in Seq(ScopeSet), NEW d \in 1 .. Len(ss), NEW n, n \notin NamesOf(ss[d])
  PROVE  SlotAt(ss, d, n) = SlotAt(ss, d - 1, n)
<1>1. {u \in Registered(ss, d) : u.name = n} = {u \in Registered(ss, d - 1) : u.name = n}
  BY OneMore DEF NamesOf
<1> QED
  BY <1>1 DEF SlotAt

LEMMA Here ==
  ASSUME NEW ss \in Seq(ScopeSet), NEW last, Slotted(ss, last), NEW d \in 1 .. Len(ss),
         NEW n \in NamesOf(ss[d])
  PROVE  SlotAt(ss, d, n) # 0 /\ SlotAt(ss, d, n) \in CleanupOf(ss[d])
<1>1. PICK v \in ss[d].vars : v.name = n
  BY DEF NamesOf
<1>2. v \in Registered(ss, d) /\ d \in 0 .. Len(ss)
  BY OneMore
<1>3. SlotAt(ss, d, n) # 0
  BY <1>1, <1>2, SlotFacts
<1>4. PICK w \in Registered(ss, d) : w.name = n /\ w.slot = SlotAt(ss, d, n) /\ v.slot <= w.slot
  BY <1>1, <1>2, <1>3, SlotFacts
<1>5. CASE w \in ss[d].vars
  BY <1>3, <1>4, <1>5 DEF CleanupOf
<1>6. CASE w \in Registered(ss, d - 1)
  <2>1. d - 1 \in 0 .. Len(ss)
    OBVIOUS
  <2>2. PICK e \in 1 .. d - 1 : w \in ss[e].vars
    BY <1>6, <2>1, RegisteredMember
  <2>3. e \in 1 .. Len(ss) /\ e < d /\ ss[d] \in ScopeSet /\ ss[e] \in ScopeSet
    OBVIOUS
  <2>4. w.slot < v.slot
    BY <2>2, <2>3 DEF Slotted
  <2>5. w.slot \in Int /\ v.slot \in Int
    BY <2>2, <2>3 DEF ScopeSet, Variable, Slots
  <2> QED
    BY <1>4, <2>4, <2>5
<1> QED
  BY <1>4, <1>5, <1>6, OneMore

\* A shadowed variable is not the one a name stands for.
LEMMA Shadowed ==
  ASSUME NEW ss \in Seq(ScopeSet), NEW last, Slotted(ss, last), NEW d \in 1 .. Len(ss),
         NEW h \in 2 .. d, NEW n \in NamesOf(ss[h]), NEW m, SlotAt(ss, h - 1, n) # 0
  PROVE  SlotAt(ss, h - 1, n) # SlotAt(ss, d, m)
<1> SUFFICES ASSUME SlotAt(ss, h - 1, n) = SlotAt(ss, d, m) PROVE FALSE
  OBVIOUS
<1>1. h - 1 \in 0 .. Len(ss) /\ h \in 1 .. Len(ss) /\ d \in 0 .. Len(ss) /\ h \in 1 .. d
  OBVIOUS
<1>2. m = n
  BY <1>1, OneName
<1>3. PICK v \in ss[h].vars : v.name = n
  BY DEF NamesOf
<1>4. v \in Registered(ss, d)
  BY <1>1, <1>3, RegisteredMember
<1>5. PICK w \in Registered(ss, h - 1) : w.slot = SlotAt(ss, h - 1, n)
  BY <1>1, SlotFacts
<1>6. PICK e \in 1 .. h - 1 : w \in ss[e].vars
  BY <1>1, <1>5, RegisteredMember
<1>7. e \in 1 .. Len(ss) /\ e < h /\ ss[e] \in ScopeSet /\ ss[h] \in ScopeSet
  BY <1>1
<1>8. w.slot < v.slot
  BY <1>1, <1>3, <1>6, <1>7 DEF Slotted
<1>9. v.slot <= SlotAt(ss, d, m)
  BY <1>1, <1>2, <1>3, <1>4, <1>5, SlotFacts
<1>10. w.slot \in Int /\ v.slot \in Int
  BY <1>3, <1>6, <1>7 DEF ScopeSet, Variable, Slots
<1> QED
  BY <1>5, <1>8, <1>9, <1>10

\* The slots that names stand for are among those registered.
LEMMA SlotRegistered ==
  ASSUME NEW ss \in Seq(ScopeSet), NEW d \in 0 .. Len(ss), NEW n, SlotAt(ss, d, n) # 0
  PROVE  SlotAt(ss, d, n) \in SlotsOf(ss, d) /\ SlotAt(ss, d, n) \in Slots
<1>1. PICK v \in Registered(ss, d) : v.slot = SlotAt(ss, d, n)
  BY SlotFacts
<1> QED
  BY <1>1, SlotFacts DEF SlotsOf

-----------------------------------------------------------------------------
(* The run.                                                                *)

\* Exact but for the value v, which has left its place.
Loose(r, S, v) ==
  /\ \A s \in Slots : r.flag[s] =>
       s \in S /\ r.val[s] \in 1 .. Len(r.fate) /\ r.fate[r.val[s]] = "live" /\ r.val[s] # v
  /\ \A s, u \in Slots : r.flag[s] /\ r.flag[u] /\ r.val[s] = r.val[u] => s = u
  /\ \A w \in 1 .. Len(r.fate) : r.fate[w] = "live" /\ w # v =>
       \E s \in Slots : r.flag[s] /\ r.val[s] = w

Alive(r, v) == v \in Nat /\ v \in 1 .. Len(r.fate) /\ r.fate[v] = "live"

LEMMA ExactLoose ==
  ASSUME NEW r, NEW S
  PROVE  Exact(r, S) <=> Loose(r, S, 0)
<1>1. 0 \notin 1 .. Len(r.fate)
  OBVIOUS
<1> QED
  BY <1>1 DEF Exact, Loose

\* A cleanup drops the flagged values of its slots and no others.
LEMMA DropLoose ==
  ASSUME NEW r \in Runtime, ~r.misused, NEW S, NEW v \in Nat, Loose(r, S, v),
         NEW T, T \subseteq Slots
  PROVE  /\ Dropped(r, T) \in Runtime /\ ~Dropped(r, T).misused
         /\ Loose(Dropped(r, T), S \ T, v)
         /\ \A s \in Slots : Dropped(r, T).flag[s] <=> r.flag[s] /\ s \notin T
         /\ Alive(r, v) => Alive(Dropped(r, T), v)
<1> DEFINE z == Dropped(r, T)
           due == {s \in T : r.flag[s]}
           flag == [s \in Slots |-> r.flag[s] /\ s \notin T]
           fate == [w \in 1 .. Len(r.fate) |->
                      IF \E s \in due : r.val[s] = w THEN "dropped" ELSE r.fate[w]]
           bad == \E s \in due : \/ r.fate[r.val[s]] # "live"
                                 \/ \E u \in due \ {s} : r.val[u] = r.val[s]
<1>1. /\ r.val \in [Slots -> Nat] /\ r.flag \in [Slots -> BOOLEAN] /\ r.fate \in Seq(Fates)
      /\ Len(r.fate) \in Nat
  BY DEF Runtime
<1>2. ~bad
  BY DEF Loose
<1>3. /\ z.val = r.val /\ z.flag = flag /\ z.fate = fate /\ (z.misused <=> r.misused \/ bad)
  BY DEF Dropped, Runtime
<1>4. fate \in Seq(Fates) /\ Len(fate) = Len(r.fate)
  BY <1>1 DEF Fates
<1>5. flag \in [Slots -> BOOLEAN]
  BY <1>1
<1>6. z = [r EXCEPT !.flag = flag, !.fate = fate, !.misused = r.misused \/ bad]
  BY DEF Dropped
<1>7. z \in Runtime
  BY <1>4, <1>5, <1>6 DEF Runtime
<1>8. \A s \in Slots : z.flag[s] <=> r.flag[s] /\ s \notin T
  BY <1>3
<1>9. Alive(r, v) => Alive(z, v)
  BY <1>3, <1>4 DEF Loose, Alive
<1>10. ASSUME NEW s \in Slots, z.flag[s]
       PROVE  /\ s \in S \ T /\ z.val[s] \in 1 .. Len(z.fate)
              /\ z.fate[z.val[s]] = "live" /\ z.val[s] # v
  <2>1. r.flag[s] /\ s \notin T
    BY <1>8, <1>10
  <2>2. s \in S /\ r.val[s] \in 1 .. Len(r.fate) /\ r.fate[r.val[s]] = "live" /\ r.val[s] # v
    BY <2>1 DEF Loose
  <2>3. \A u \in due : r.val[u] # r.val[s]
    BY <2>1 DEF Loose
  <2> QED
    BY <1>3, <1>4, <2>1, <2>2, <2>3
<1>11. ASSUME NEW s \in Slots, NEW u \in Slots, z.flag[s], z.flag[u], z.val[s] = z.val[u]
       PROVE  s = u
  BY <1>3, <1>8, <1>11 DEF Loose
<1>12. ASSUME NEW w \in 1 .. Len(z.fate), z.fate[w] = "live", w # v
       PROVE  \E s \in Slots : z.flag[s] /\ z.val[s] = w
  <2>1. w \in 1 .. Len(r.fate) /\ r.fate[w] = "live" /\ ~(\E s \in due : r.val[s] = w)
    BY <1>3, <1>4, <1>12
  <2>2. PICK s \in Slots : r.flag[s] /\ r.val[s] = w
    BY <1>12, <2>1 DEF Loose
  <2>3. s \notin T
    BY <2>1, <2>2
  <2> QED
    BY <1>3, <1>8, <2>2, <2>3
<1>13. Loose(z, S \ T, v)
  BY <1>10, <1>11, <1>12 DEF Loose
<1> QED
  BY <1>2, <1>3, <1>4, <1>7, <1>8, <1>9, <1>13

LEMMA DropExact ==
  ASSUME NEW r \in Runtime, ~r.misused, NEW S, Exact(r, S), NEW T, T \subseteq Slots
  PROVE  /\ Dropped(r, T) \in Runtime /\ ~Dropped(r, T).misused
         /\ Exact(Dropped(r, T), S \ T)
         /\ \A s \in Slots : Dropped(r, T).flag[s] <=> r.flag[s] /\ s \notin T
  BY ExactLoose, DropLoose

\* A value leaves its place, or a new one comes to be.
LEMMA TakeLoose ==
  ASSUME NEW r \in Runtime, ~r.misused, NEW S, Exact(r, S), NEW from \in Slots \cup {0},
         from # 0 => r.flag[from]
  PROVE  /\ Taken(r, from) \in Runtime /\ ~Taken(r, from).misused
         /\ Alive(Taken(r, from), ValueOf(r, from)) /\ ValueOf(r, from) \in Nat
         /\ Loose(Taken(r, from), S, ValueOf(r, from))
         /\ \A s \in Slots : Taken(r, from).flag[s] <=> r.flag[s] /\ s # from
<1> DEFINE t == Taken(r, from)
           v == ValueOf(r, from)
<1>1. /\ r.val \in [Slots -> Nat] /\ r.flag \in [Slots -> BOOLEAN] /\ r.fate \in Seq(Fates)
      /\ Len(r.fate) \in Nat
  BY DEF Runtime
<1>2. CASE from = 0
  <2>1. t = [r EXCEPT !.fate = Append(r.fate, "live")] /\ v = Len(r.fate) + 1
    BY <1>2 DEF Taken, ValueOf, Fresh
  <2>2. /\ Append(r.fate, "live") \in Seq(Fates) /\ Len(Append(r.fate, "live")) = Len(r.fate) + 1
        /\ Append(r.fate, "live")[v] = "live"
        /\ \A w \in 1 .. Len(r.fate) : Append(r.fate, "live")[w] = r.fate[w]
    BY <1>1, <2>1 DEF Fates
  <2>3. t \in Runtime
    BY <2>1, <2>2 DEF Runtime
  <2>4. t.flag = r.flag /\ t.val = r.val /\ t.misused = r.misused /\ t.fate = Append(r.fate, "live")
    BY <2>1 DEF Runtime
  <2>5. 0 \notin Slots
    BY DEF Slots
  <2>6. \A s \in Slots : t.flag[s] =>
          s \in S /\ t.val[s] \in 1 .. Len(t.fate) /\ t.fate[t.val[s]] = "live" /\ t.val[s] # v
    BY <1>1, <2>1, <2>2, <2>4 DEF Exact
  <2>7. \A s, u \in Slots : t.flag[s] /\ t.flag[u] /\ t.val[s] = t.val[u] => s = u
    BY <2>4 DEF Exact
  <2>8. \A w \in 1 .. Len(t.fate) : t.fate[w] = "live" /\ w # v =>
          \E s \in Slots : t.flag[s] /\ t.val[s] = w
    BY <1>1, <2>1, <2>2, <2>4 DEF Exact
  <2>9. Loose(t, S, v)
    BY <2>6, <2>7, <2>8 DEF Loose
  <2> QED
    BY <1>1, <1>2, <2>1, <2>2, <2>3, <2>4, <2>5, <2>9 DEF Alive
<1>3. CASE from \in Slots /\ from # 0
  <2>1. t = [r EXCEPT !.flag = [r.flag EXCEPT ![from] = FALSE],
                      !.misused = r.misused \/ r.fate[r.val[from]] # "live"] /\ v = r.val[from]
    BY <1>3 DEF Taken, ValueOf, Fresh
  <2>2. v \in 1 .. Len(r.fate) /\ r.fate[v] = "live"
    BY <1>3, <2>1 DEF Exact
  <2>3. /\ t.val = r.val /\ t.fate = r.fate /\ ~t.misused
        /\ t.flag = [r.flag EXCEPT ![from] = FALSE]
    BY <2>1, <2>2 DEF Runtime
  <2>4. t \in Runtime
    <3>1. [r.flag EXCEPT ![from] = FALSE] \in [Slots -> BOOLEAN]
      BY <1>1
    <3>2. PICK g \in [Slots -> BOOLEAN] : g = [r.flag EXCEPT ![from] = FALSE]
      BY <3>1
    <3>3. t = [r EXCEPT !.flag = g, !.misused = r.misused \/ r.fate[r.val[from]] # "live"]
      BY <2>1, <3>2
    <3> QED
      BY <3>3 DEF Runtime
  <2>5. \A s \in Slots : t.flag[s] <=> r.flag[s] /\ s # from
    BY <1>1, <2>3
  <2>6. Loose(t, S, v)
    BY <1>3, <2>1, <2>3, <2>5 DEF Exact, Loose
  <2> QED
    BY <1>1, <2>2, <2>3, <2>4, <2>5, <2>6 DEF Alive
<1> QED
  BY <1>2, <1>3

\* The instruction finds what it takes and uses, and room for what it declares.
Ready(r, i) ==
  /\ i.from # 0 => r.flag[i.from]
  /\ i.op \in {"use", "give"} => i.from # 0
  /\ i.op = "let" => ~r.flag[i.to]

Changed(r, z, i) ==
  \A s \in Slots : z.flag[s] <=> StoresTo(i, s) \/ (r.flag[s] /\ ~TakesFrom(i, s))

\* A value is put into a free place, or handed over.
With(d, to, v) == [d EXCEPT !.val[to] = v, !.flag[to] = TRUE]
LEMMA PutExact ==
  ASSUME NEW d \in Runtime, ~d.misused, NEW S, NEW v \in Nat, Loose(d, S, v), Alive(d, v),
         NEW to \in Slots, ~d.flag[to], to \in S,
         NEW z, z = With(d, to, v)
  PROVE  /\ z \in Runtime /\ ~z.misused /\ Exact(z, S)
         /\ \A s \in Slots : z.flag[s] <=> s = to \/ d.flag[s]
<1>1. /\ d.val \in [Slots -> Nat] /\ d.flag \in [Slots -> BOOLEAN] /\ d.fate \in Seq(Fates)
      /\ Len(d.fate) \in Nat /\ v \in 1 .. Len(d.fate) /\ d.fate[v] = "live"
  BY DEF Runtime, Alive
<1>2. PICK g \in [Slots -> BOOLEAN] : g = [d.flag EXCEPT ![to] = TRUE]
  BY <1>1
<1>3. PICK x \in [Slots -> Nat] : x = [d.val EXCEPT ![to] = v]
  <2>1. v \in Nat
    BY <1>1
  <2>2. [d.val EXCEPT ![to] = v] \in [Slots -> Nat]
    BY <1>1, <2>1
  <2> QED
    BY <2>2
<1>4. z = [d EXCEPT !.val = x, !.flag = g]
  BY <1>2, <1>3 DEF Runtime, With
<1>5. z \in Runtime /\ z.val = x /\ z.flag = g /\ z.fate = d.fate /\ z.misused = d.misused
  BY <1>4 DEF Runtime
<1>6. /\ \A s \in Slots : g[s] <=> s = to \/ d.flag[s]
      /\ x[to] = v /\ \A s \in Slots : s # to => x[s] = d.val[s]
  BY <1>1, <1>2, <1>3
<1>7. \A s \in Slots : g[s] => s \in S /\ x[s] \in 1 .. Len(d.fate) /\ d.fate[x[s]] = "live"
  BY <1>1, <1>6 DEF Loose
<1>8. \A s, u \in Slots : g[s] /\ g[u] /\ x[s] = x[u] => s = u
  BY <1>6 DEF Loose
<1>9. \A w \in 1 .. Len(d.fate) : d.fate[w] = "live" => \E s \in Slots : g[s] /\ x[s] = w
  BY <1>1, <1>6 DEF Loose
<1> QED
  BY <1>5, <1>6, <1>7, <1>8, <1>9 DEF Exact

\* An assignment first drops what is in the place.
LEMMA ReplaceExact ==
  ASSUME NEW t \in Runtime, ~t.misused, NEW S, NEW v \in Nat, Loose(t, S, v), Alive(t, v),
         NEW to \in Slots, to \in S, NEW T, T = {to}
  PROVE  LET z == With(Dropped(t, T), to, v)
         IN  /\ z \in Runtime /\ ~z.misused /\ Exact(z, S)
             /\ \A s \in Slots : z.flag[s] <=> s = to \/ t.flag[s]
<1> DEFINE d == Dropped(t, T)
           z == With(d, to, v)
<1>1. T \subseteq Slots /\ \A s : s \in T <=> s = to
  OBVIOUS
<1>2. /\ d \in Runtime /\ ~d.misused /\ Loose(d, S \ T, v) /\ Alive(d, v)
      /\ \A s \in Slots : d.flag[s] <=> t.flag[s] /\ s \notin T
  <2>1. d \in Runtime /\ ~d.misused
    BY <1>1, DropLoose
  <2>2. Loose(d, S \ T, v)
    BY <1>1, DropLoose
  <2>3. Alive(d, v)
    BY <1>1, DropLoose
  <2>4. \A s \in Slots : d.flag[s] <=> t.flag[s] /\ s \notin T
    BY <1>1, DropLoose
  <2> QED
    BY <2>1, <2>2, <2>3, <2>4
<1> HIDE DEF d
<1>3. Loose(d, S, v) /\ ~d.flag[to]
  BY <1>1, <1>2 DEF Loose
<1>4. z = With(d, to, v)
  OBVIOUS
<1> HIDE DEF z
<1>5. z \in Runtime /\ ~z.misused
  BY <1>2, <1>3, <1>4, PutExact
<1>6. Exact(z, S)
  BY <1>2, <1>3, <1>4, PutExact
<1>7. \A s \in Slots : z.flag[s] <=> s = to \/ d.flag[s]
  BY <1>2, <1>3, <1>4, PutExact
<1>8. \A s \in Slots : z.flag[s] <=> s = to \/ t.flag[s]
  BY <1>1, <1>2, <1>7
<1> QED
  BY <1>5, <1>6, <1>8 DEF z, d

LEMMA HandExact ==
  ASSUME NEW d \in Runtime, ~d.misused, NEW S, NEW v \in Nat, Loose(d, S, v), Alive(d, v),
         NEW z, z = [d EXCEPT !.fate[v] = "given"]
  PROVE  z \in Runtime /\ ~z.misused /\ Exact(z, S) /\ z.flag = d.flag
<1>1. d.fate \in Seq(Fates) /\ Len(d.fate) \in Nat /\ v \in 1 .. Len(d.fate)
  BY DEF Runtime, Alive
<1>2. PICK f : f = [d.fate EXCEPT ![v] = "given"]
  OBVIOUS
<1>3. f \in Seq(Fates) /\ Len(f) = Len(d.fate)
  BY <1>1, <1>2 DEF Fates
<1>4. z = [d EXCEPT !.fate = f]
  BY <1>2 DEF Runtime
<1>5. z \in Runtime /\ z.val = d.val /\ z.flag = d.flag /\ z.fate = f /\ z.misused = d.misused
  BY <1>3, <1>4 DEF Runtime
<1>6. f[v] = "given" /\ \A w \in 1 .. Len(f) : w # v => f[w] = d.fate[w]
  BY <1>1, <1>2
<1> QED
  BY <1>3, <1>5, <1>6 DEF Loose, Exact

LEMMA RunExact ==
  ASSUME NEW r \in Runtime, ~r.misused, NEW S, Exact(r, S), NEW i \in Code, Ready(r, i),
         i.op \in {"let", "assign"} => i.to \in S /\ i.to \in Slots
  PROVE  /\ Run(r, i) \in Runtime /\ ~Run(r, i).misused /\ Exact(Run(r, i), S)
         /\ Changed(r, Run(r, i), i)
<1> DEFINE z == Run(r, i)
           t == Taken(r, i.from)
           v == ValueOf(r, i.from)
<1>1. i.op \in {"let", "assign", "use", "give"} /\ i.from \in Slots \cup {0}
  BY DEF Code
<1>2. 0 \notin Slots
  BY DEF Slots
<1>3. i.from # 0 => r.flag[i.from] /\ i.from \in Slots
  BY <1>1 DEF Ready
<1>4. CASE i.op = "use"
  <2>1. i.from # 0 /\ r.fate[r.val[i.from]] = "live"
    BY <1>3, <1>4 DEF Ready, Exact
  <2>2. z = [r EXCEPT !.misused = r.misused \/ r.fate[r.val[i.from]] # "live"]
    BY <1>4 DEF Run
  <2>3. z = r
    BY <2>1, <2>2 DEF Runtime
  <2> QED
    BY <1>4, <2>3 DEF Changed, StoresTo, TakesFrom
<1>5. CASE i.op # "use"
  <2>1. /\ t \in Runtime /\ ~t.misused /\ v \in Nat /\ Alive(t, v)
        /\ Loose(t, S, v) /\ \A s \in Slots : t.flag[s] <=> r.flag[s] /\ s # i.from
    BY <1>1, <1>3, TakeLoose
  <2>2. CASE i.op = "give"
    <3>1. z = [t EXCEPT !.fate[v] = "given"]
      BY <2>2 DEF Run
    <3>2. z \in Runtime /\ ~z.misused /\ Exact(z, S) /\ z.flag = t.flag
      BY <2>1, <3>1, HandExact
    <3> QED
      BY <2>1, <2>2, <3>2 DEF Changed, StoresTo, TakesFrom
  <2>3. CASE i.op \in {"let", "assign"}
    <3>1. i.to \in Slots /\ i.to \in S
      BY <2>3
    <3>2. PICK d : d = IF i.op = "assign" THEN Dropped(t, {i.to}) ELSE t
      OBVIOUS
    <3>3. z = With(d, i.to, v)
      BY <2>3, <3>2 DEF Run, Stored, With
    <3>4. i.op = "let" => ~t.flag[i.to]
      BY <2>1, <3>1 DEF Ready
    <3> HIDE DEF t, v, z
    <3>5. /\ z \in Runtime /\ ~z.misused /\ Exact(z, S)
          /\ \A s \in Slots : z.flag[s] <=> s = i.to \/ t.flag[s]
      <4>1. CASE i.op = "assign"
        <5>1. PICK T : T = {i.to}
          OBVIOUS
        <5>2. z = With(Dropped(t, T), i.to, v)
          BY <3>2, <3>3, <4>1, <5>1
        <5> QED
          BY <2>1, <3>1, <5>1, <5>2, ReplaceExact
      <4>2. CASE i.op = "let"
        <5>1. d = t
          BY <3>2, <4>2
        <5> QED
          BY <2>1, <3>1, <3>3, <3>4, <4>2, <5>1, PutExact
      <4> QED
        BY <2>3, <4>1, <4>2
    <3>6. \A s \in Slots : z.flag[s] <=> s = i.to \/ (r.flag[s] /\ s # i.from)
      BY <2>1, <3>5
    <3>7. Changed(r, z, i)
      BY <2>3, <3>6 DEF Changed, StoresTo, TakesFrom
    <3> QED
      BY <3>5, <3>7 DEF z
  <2> QED
    BY <1>1, <1>5, <2>2, <2>3
<1> QED
  BY <1>4, <1>5

\* Exact for fewer slots is exact for more; with none, nothing is live.
LEMMA ExactMore ==
  ASSUME NEW r, NEW S, NEW T, Exact(r, S), S \subseteq T
  PROVE  Exact(r, T)
  BY DEF Exact

LEMMA NoneLive ==
  ASSUME NEW r, Exact(r, {})
  PROVE  \A v \in 1 .. Len(r.fate) : r.fate[v] # "live"
  BY DEF Exact

-----------------------------------------------------------------------------
(* What the analysis is certain of.                                        *)

LEMMA SlotsGrow ==
  ASSUME NEW ss \in Seq(ScopeSet), NEW d \in 0 .. Len(ss), NEW e \in 0 .. d
  PROVE  SlotsOf(ss, e) \subseteq SlotsOf(ss, d)
<1>1. \A x \in 1 .. e : x \in 1 .. d
  OBVIOUS
<1>2. Registered(ss, e) \subseteq Registered(ss, d)
  BY <1>1 DEF Registered
<1> QED
  BY <1>2 DEF SlotsOf

\* More slots filled, more names moved: no less certain.
LEMMA SeesMore ==
  ASSUME NEW ss \in Seq(ScopeSet), NEW d \in 0 .. Len(ss), NEW A, NEW G, NEW m, NEW w,
         Sees(A, ss, m, d), m \subseteq w, \A s \in SlotsOf(ss, d) : s \in A => s \in G
  PROVE  Sees(G, ss, w, d)
  BY SlotRegistered DEF Sees

LEMMA KeepsMore ==
  ASSUME NEW ss \in Seq(ScopeSet), NEW d \in 0 .. Len(ss), NEW A, NEW G,
         Keeps(A, ss, d), \A s \in SlotsOf(ss, d) : s \in A => s \in G
  PROVE  Keeps(G, ss, d)
<1> SUFFICES ASSUME NEW h \in 2 .. d, NEW n \in NamesOf(ss[h]) \ ss[h].before,
                    SlotAt(ss, h - 1, n) # 0
             PROVE  SlotAt(ss, h - 1, n) \in G
  BY DEF Keeps
<1>1. h - 1 \in 0 .. Len(ss) /\ h - 1 \in 0 .. d
  OBVIOUS
<1>2. SlotAt(ss, h - 1, n) \in SlotsOf(ss, d)
  BY <1>1, SlotRegistered, SlotsGrow
<1>3. SlotAt(ss, h - 1, n) \in A
  BY DEF Keeps
<1> QED
  BY <1>2, <1>3

\* Only the scopes up to d matter.
LEMMA Below ==
  ASSUME NEW ss, NEW tt, NEW d \in Nat, \A e \in 1 .. d : ss[e] = tt[e], NEW A, NEW m
  PROVE  (Sees(A, ss, m, d) <=> Sees(A, tt, m, d)) /\ (Keeps(A, ss, d) <=> Keeps(A, tt, d))
<1>1. \A n : SlotAt(ss, d, n) = SlotAt(tt, d, n)
  BY SameBelow
<1>2. Sees(A, ss, m, d) <=> Sees(A, tt, m, d)
  BY <1>1 DEF Sees
<1>3. ASSUME NEW h \in 2 .. d
      PROVE  ss[h] = tt[h] /\ \A n : SlotAt(ss, h - 1, n) = SlotAt(tt, h - 1, n)
  <2>1. h - 1 \in Nat /\ h \in 1 .. d /\ \A e \in 1 .. h - 1 : ss[e] = tt[e]
    OBVIOUS
  <2> QED
    BY <2>1, SameBelow
<1>4. Keeps(A, ss, d) <=> Keeps(A, tt, d)
  BY <1>3 DEF Keeps
<1> QED
  BY <1>2, <1>4

\* A name is moved: its slot may be emptied.
LEMMA Consumes ==
  ASSUME NEW ss \in Seq(ScopeSet), NEW last, Slotted(ss, last), NEW d \in 1 .. Len(ss),
         NEW A, NEW G, NEW m, NEW src,
         \A s \in SlotsOf(ss, d) : s \in A /\ s # SlotAt(ss, d, src) => s \in G
  PROVE  /\ Sees(A, ss, m, d) => Sees(G, ss, m \cup {src}, d)
         /\ Keeps(A, ss, d) => Keeps(G, ss, d)
<1>1. ASSUME Sees(A, ss, m, d), NEW n \in Names \ (m \cup {src}), SlotAt(ss, d, n) # 0
      PROVE  SlotAt(ss, d, n) \in G
  <2>1. d \in 0 .. Len(ss)
    OBVIOUS
  <2>2. SlotAt(ss, d, n) \in A /\ SlotAt(ss, d, n) \in SlotsOf(ss, d)
    BY <1>1, <2>1, SlotRegistered DEF Sees
  <2>3. SlotAt(ss, d, n) # SlotAt(ss, d, src)
    BY <1>1, <2>1, OneName
  <2> QED
    BY <2>2, <2>3
<1>2. ASSUME Keeps(A, ss, d), NEW h \in 2 .. d, NEW n \in NamesOf(ss[h]) \ ss[h].before,
             SlotAt(ss, h - 1, n) # 0
      PROVE  SlotAt(ss, h - 1, n) \in G
  <2>1. h - 1 \in 0 .. Len(ss) /\ h - 1 \in 0 .. d /\ d \in 0 .. Len(ss)
    OBVIOUS
  <2>2. SlotAt(ss, h - 1, n) \in SlotsOf(ss, d)
    BY <1>2, <2>1, SlotRegistered, SlotsGrow
  <2>3. SlotAt(ss, h - 1, n) \in A
    BY <1>2 DEF Keeps
  <2>4. SlotAt(ss, h - 1, n) # SlotAt(ss, d, src)
    BY <1>2, Shadowed
  <2> QED
    BY <2>2, <2>3, <2>4
<1>3. Sees(A, ss, m, d) => Sees(G, ss, m \cup {src}, d)
  BY <1>1 DEF Sees
<1>4. Keeps(A, ss, d) => Keeps(G, ss, d)
  BY <1>2 DEF Keeps
<1> QED
  BY <1>3, <1>4

\* The slot of a name is filled.
LEMMA Fills ==
  ASSUME NEW A, NEW ss, NEW m, NEW d, Sees(A, ss, m, d), NEW n, SlotAt(ss, d, n) \in A
  PROVE  Sees(A, ss, m \ {n}, d)
  BY DEF Sees

\* A scope is opened.
LEMMA AddEmpty ==
  ASSUME NEW ss \in Seq(ScopeSet), NEW tt \in Seq(ScopeSet), NEW d \in Nat, d <= Len(ss),
         Len(tt) = d + 1, \A e \in 1 .. d : ss[e] = tt[e], tt[d + 1] = EmptyScope
  PROVE  /\ SlotsOf(tt, d + 1) = SlotsOf(ss, d)
         /\ \A n : SlotAt(tt, d + 1, n) = SlotAt(ss, d, n)
         /\ \A A, m : /\ Sees(A, ss, m, d) => Sees(A, tt, m, d + 1)
                      /\ Keeps(A, ss, d) => Keeps(A, tt, d + 1)
         /\ \A last : Slotted(ss, last) => Slotted(tt, last)
<1>1. d + 1 \in 1 .. Len(tt) /\ (d + 1) - 1 = d
  OBVIOUS
<1>2. tt[d + 1].vars = {} /\ tt[d + 1].before = {} /\ CleanupOf(tt[d + 1]) = {}
  BY DEF EmptyScope, CleanupOf
<1>3. NamesOf(tt[d + 1]) = {}
  BY <1>2 DEF NamesOf
<1>4. Registered(tt, d) = Registered(ss, d) /\ SlotsOf(tt, d) = SlotsOf(ss, d)
      /\ \A n : SlotAt(tt, d, n) = SlotAt(ss, d, n)
  BY SameBelow
<1>5. SlotsOf(tt, d + 1) = SlotsOf(ss, d)
  <2>1. SlotsOf(tt, d + 1) = SlotsOf(tt, (d + 1) - 1) \cup CleanupOf(tt[d + 1])
    BY <1>1, OneMore
  <2> QED
    BY <1>1, <1>2, <1>4, <2>1
<1>6. \A n : SlotAt(tt, d + 1, n) = SlotAt(ss, d, n)
  <2>1. ASSUME NEW n PROVE SlotAt(tt, d + 1, n) = SlotAt(ss, d, n)
    <3>1. n \notin NamesOf(tt[d + 1])
      BY <1>3
    <3>2. SlotAt(tt, d + 1, n) = SlotAt(tt, (d + 1) - 1, n)
      BY <1>1, <3>1, NotHere
    <3> QED
      BY <1>1, <1>4, <3>2
  <2> QED
    BY <2>1
<1>7. \A A, m : Sees(A, ss, m, d) => Sees(A, tt, m, d + 1)
  BY <1>6 DEF Sees
<1>8. ASSUME NEW A, Keeps(A, ss, d) PROVE Keeps(A, tt, d + 1)
  <2>1. Keeps(A, tt, d)
    BY <1>8, Below
  <2>2. \A h : h \in 2 .. d + 1 => h \in 2 .. d \/ h = d + 1
    OBVIOUS
  <2> QED
    BY <1>3, <2>1, <2>2 DEF Keeps
<1>9. ASSUME NEW last, Slotted(ss, last) PROVE Slotted(tt, last)
  <2>1. \A e \in 1 .. Len(tt) : (e \in 1 .. Len(ss) /\ tt[e] = ss[e]) \/ e = d + 1
    OBVIOUS
  <2>2. \A e \in 1 .. Len(tt) : \A v \in tt[e].vars : e \in 1 .. Len(ss) /\ tt[e] = ss[e]
    BY <1>2, <2>1
  <2>3. \A e \in 1 .. Len(tt) : tt[e].before \subseteq NamesOf(tt[e])
    BY <1>2, <1>9, <2>1 DEF Slotted
  <2> QED
    BY <1>9, <2>2, <2>3 DEF Slotted
<1> QED
  BY <1>5, <1>6, <1>7, <1>8, <1>9

\* A scope is left.
LEMMA LeaveScope ==
  ASSUME NEW ss \in Seq(ScopeSet), NEW last, Slotted(ss, last), NEW d \in 1 .. Len(ss), d > 1,
         NEW A, NEW G, NEW m, Sees(A, ss, m, d), Keeps(A, ss, d),
         \A s \in SlotsOf(ss, d - 1) : s \in A /\ s \notin CleanupOf(ss[d]) => s \in G
  PROVE  /\ Sees(G, ss, (m \ NamesOf(ss[d])) \cup ss[d].before, d - 1)
         /\ Keeps(G, ss, d - 1)
<1>1. d - 1 \in 0 .. Len(ss) /\ d \in 2 .. d
  OBVIOUS
<1>2. \A s \in SlotsOf(ss, d - 1) : s \notin CleanupOf(ss[d])
  BY Apart
<1>3. \A s \in SlotsOf(ss, d - 1) : s \in A => s \in G
  BY <1>2
<1>4. ASSUME NEW n \in Names, n \notin (m \ NamesOf(ss[d])) \cup ss[d].before,
             SlotAt(ss, d - 1, n) # 0
      PROVE  SlotAt(ss, d - 1, n) \in A
  <2>1. CASE n \in NamesOf(ss[d])
    BY <1>1, <1>4, <2>1 DEF Keeps
  <2>2. CASE n \notin NamesOf(ss[d])
    BY <1>4, <2>2, NotHere DEF Sees
  <2> QED
    BY <2>1, <2>2
<1>5. Sees(G, ss, (m \ NamesOf(ss[d])) \cup ss[d].before, d - 1)
  BY <1>1, <1>3, <1>4, SlotRegistered DEF Sees
<1>6. Keeps(A, ss, d - 1)
  <2>1. \A h \in 2 .. d - 1 : h \in 2 .. d
    OBVIOUS
  <2> QED
    BY <2>1 DEF Keeps
<1>7. Keeps(G, ss, d - 1)
  BY <1>1, <1>3, <1>6, KeepsMore
<1> QED
  BY <1>5, <1>7

\* A variable is declared, in a slot beyond those in use.
Declared(ss, last, d, n, now, x, new, sc, tt) ==
  /\ ss \in Seq(ScopeSet) /\ last \in Nat /\ Slotted(ss, last) /\ d = Len(ss) /\ d > 0
  /\ n \in Names /\ x \in Slots /\ x = last + 1
  /\ new \in Variable /\ new.name = n /\ new.slot = x
  /\ sc \in ScopeSet /\ sc.vars = ss[d].vars \cup {new}
  /\ sc.before = IF n \in NamesOf(ss[d]) THEN ss[d].before
                 ELSE ss[d].before \cup ({n} \cap now)
  /\ tt \in Seq(ScopeSet) /\ Len(tt) = d /\ tt[d] = sc
  /\ \A e \in 1 .. d - 1 : tt[e] = ss[e]

HasDeclared(ss, d, n, now, x, tt) ==
  /\ Slotted(tt, x)
  /\ \A s : s \in SlotsOf(tt, d) <=> s \in SlotsOf(ss, d) \/ s = x
  /\ \A s : s \in CleanupOf(tt[d]) <=> s \in CleanupOf(ss[d]) \/ s = x
  /\ x \notin SlotsOf(ss, d)
  /\ \A A : /\ Sees(A, ss, now, d) /\ x \in A => Sees(A, tt, now \ {n}, d)
            /\ Sees(A, ss, now, d) /\ Keeps(A, ss, d) => Keeps(A, tt, d)

LEMMA Declares ==
  ASSUME NEW ss, NEW last, NEW d, NEW n, NEW now, NEW x, NEW new, NEW sc, NEW tt,
         Declared(ss, last, d, n, now, x, new, sc, tt)
  PROVE  HasDeclared(ss, d, n, now, x, tt)
<1> USE DEF Declared
<1>a. /\ ss \in Seq(ScopeSet) /\ last \in Nat /\ Slotted(ss, last) /\ d = Len(ss) /\ d > 0
      /\ n \in Names /\ x \in Slots /\ x = last + 1 /\ new \in Variable /\ sc \in ScopeSet
      /\ tt \in Seq(ScopeSet) /\ Len(tt) = d /\ tt[d] = sc
      /\ \A e \in 1 .. d - 1 : tt[e] = ss[e]
  OBVIOUS
<1>1. d \in Nat /\ d \in 1 .. Len(ss) /\ d \in 0 .. Len(ss) /\ d - 1 \in 0 .. Len(ss) /\ ss[d] \in ScopeSet
  OBVIOUS
<1>2. new.name = n /\ new.slot = x
  OBVIOUS
<1>5. /\ sc.vars = ss[d].vars \cup {new}
      /\ ss[d].before \subseteq sc.before
      /\ sc.before \subseteq ss[d].before \cup {n}
      /\ n \in sc.before => n \in now \/ n \in ss[d].before
      /\ n \in now /\ n \notin NamesOf(ss[d]) => n \in sc.before
      /\ n \in NamesOf(ss[d]) => sc.before = ss[d].before
  OBVIOUS
<1> USE <1>a
<1> HIDE DEF Declared
<1>6. tt \in Seq(ScopeSet) /\ Len(tt) = d /\ tt[d] = sc /\ \A e \in 1 .. Len(ss) : e # d => tt[e] = ss[e]
  BY <1>1
<1>7. \A e \in 1 .. d - 1 : tt[e] = ss[e]
  BY <1>1, <1>6
<1>0. \A p \in Nat : p < d =>
        /\ Registered(tt, p) = Registered(ss, p) /\ SlotsOf(tt, p) = SlotsOf(ss, p)
        /\ \A k : SlotAt(tt, p, k) = SlotAt(ss, p, k)
  <2>1. ASSUME NEW p \in Nat, p < d
        PROVE  /\ Registered(tt, p) = Registered(ss, p) /\ SlotsOf(tt, p) = SlotsOf(ss, p)
               /\ \A k : SlotAt(tt, p, k) = SlotAt(ss, p, k)
    <3>1. \A e \in 1 .. p : tt[e] = ss[e]
      BY <1>1, <1>7, <2>1
    <3> QED
      BY <3>1, SameBelow
  <2> QED
    BY <2>1
<1>8. NamesOf(tt[d]) = NamesOf(ss[d]) \cup {n} /\ CleanupOf(tt[d]) = CleanupOf(ss[d]) \cup {x}
  BY <1>2, <1>5, <1>6 DEF NamesOf, CleanupOf
<1>9. Registered(tt, d - 1) = Registered(ss, d - 1) /\ SlotsOf(tt, d - 1) = SlotsOf(ss, d - 1)
      /\ \A k : SlotAt(tt, d - 1, k) = SlotAt(ss, d - 1, k)
  <2>1. d - 1 \in Nat /\ d - 1 < d
    BY <1>1
  <2> QED
    BY <2>1, <1>0
<1>10. Registered(tt, d) = Registered(ss, d) \cup {new}
  <2>1. Registered(tt, d) = Registered(tt, d - 1) \cup tt[d].vars
    BY <1>1, <1>6, OneMore
  <2>2. Registered(ss, d) = Registered(ss, d - 1) \cup ss[d].vars
    BY <1>1, OneMore
  <2> QED
    BY <1>5, <1>6, <1>9, <2>1, <2>2
<1>11. SlotsOf(tt, d) = SlotsOf(ss, d) \cup {x}
  BY <1>2, <1>10 DEF SlotsOf
<1>12. \A v \in Registered(ss, d) : v.slot < x /\ v.slot \in Nat
  <2>1. ASSUME NEW v \in Registered(ss, d) PROVE v.slot < x /\ v.slot \in Nat
    <3>1. PICK e \in 1 .. d : v \in ss[e].vars
      BY <1>1, RegisteredMember
    <3>2. v \in Variable
      BY <1>1, RegisteredMember
    <3>3. v.slot <= last
      BY <1>1, <3>1 DEF Slotted
    <3>4. v.slot \in Nat
      BY <3>2 DEF Variable, Slots
    <3> QED
      BY <3>3, <3>4
  <2> QED
    BY <2>1
<1>13. x \notin SlotsOf(ss, d)
  BY <1>12 DEF SlotsOf, Slots
<1>14. Slotted(tt, x)
  <2>1. ASSUME NEW a \in 1 .. Len(tt)
        PROVE  /\ tt[a].before \subseteq NamesOf(tt[a])
               /\ \A v \in tt[a].vars : v \in ss[a].vars \/ (a = d /\ v = new)
               /\ \A v \in ss[a].vars : v.slot \in Nat /\ v.slot < x
    <3>1. a \in 1 .. Len(ss) /\ a \in 1 .. d
      BY <1>6
    <3>2. ss[a].before \subseteq NamesOf(ss[a])
      BY <3>1 DEF Slotted
    <3>3. \A v \in ss[a].vars : v \in Registered(ss, d)
      BY <1>1, <3>1, RegisteredMember
    <3>4. CASE a = d
      <4>1. tt[a].before \subseteq NamesOf(tt[a])
        BY <1>5, <1>6, <1>8, <3>2, <3>4
      <4> QED
        BY <1>5, <1>6, <1>12, <3>3, <3>4, <4>1
    <3>5. CASE a # d
      BY <1>6, <1>12, <3>1, <3>2, <3>3, <3>5
    <3> QED
      BY <3>4, <3>5
  <2>2. x \in Nat
    OBVIOUS
  <2>3. ASSUME NEW a \in 1 .. Len(tt), NEW v \in tt[a].vars PROVE v.slot <= x
    BY <1>2, <2>1, <2>2
  <2>4. ASSUME NEW a \in 1 .. Len(tt), NEW b \in 1 .. Len(tt), NEW v \in tt[a].vars, NEW w \in tt[b].vars
        PROVE  (a < b => v.slot < w.slot) /\ (v.slot = w.slot => v = w)
    <3>1. v \in ss[a].vars \/ (a = d /\ v = new)
      BY <2>1
    <3>2. w \in ss[b].vars \/ (b = d /\ w = new)
      BY <2>1
    <3>3. a \in 1 .. Len(ss) /\ b \in 1 .. Len(ss) /\ a <= d /\ b <= d
      BY <1>6
    <3>4. CASE v \in ss[a].vars /\ w \in ss[b].vars
      BY <3>3, <3>4 DEF Slotted
    <3>5. CASE v \in ss[a].vars /\ w = new
      BY <1>2, <2>1, <2>2, <3>5
    <3>6. CASE a = d /\ v = new /\ w \in ss[b].vars
      BY <1>1, <1>2, <2>1, <2>2, <3>3, <3>6
    <3>7. CASE a = d /\ v = new /\ b = d /\ w = new
      BY <1>1, <3>7
    <3> QED
      BY <3>1, <3>2, <3>4, <3>5, <3>6, <3>7
  <2> QED
    BY <2>1, <2>3, <2>4 DEF Slotted
<1>15. ASSUME NEW k, k # n PROVE SlotAt(tt, d, k) = SlotAt(ss, d, k)
  <2>1. {u \in Registered(tt, d) : u.name = k} = {u \in Registered(ss, d) : u.name = k}
    BY <1>2, <1>10, <1>15
  <2> QED
    BY <2>1 DEF SlotAt
<1>16. SlotAt(tt, d, n) = x
  <2>1. new \in Registered(tt, d) /\ d \in 0 .. Len(tt)
    BY <1>1, <1>6, <1>10
  <2>2. SlotAt(tt, d, n) # 0
    BY <1>2, <1>6, <2>1, SlotFacts
  <2>3. PICK w \in Registered(tt, d) : w.name = n /\ w.slot = SlotAt(tt, d, n) /\ x <= w.slot
    BY <1>2, <1>6, <2>1, <2>2, SlotFacts
  <2> QED
    BY <1>2, <1>10, <1>12, <2>3
<1>17. ASSUME NEW A, Sees(A, ss, now, d), x \in A PROVE Sees(A, tt, now \ {n}, d)
  BY <1>15, <1>16, <1>17 DEF Sees
<1>18. ASSUME NEW A, Sees(A, ss, now, d), Keeps(A, ss, d) PROVE Keeps(A, tt, d)
  <2> SUFFICES ASSUME NEW h \in 2 .. d, NEW k \in NamesOf(tt[h]) \ tt[h].before,
                      SlotAt(tt, h - 1, k) # 0
               PROVE  SlotAt(tt, h - 1, k) \in A
    BY DEF Keeps
  <2>1. h - 1 \in Nat /\ h - 1 < d
    BY <1>1
  <2>2. SlotAt(tt, h - 1, k) = SlotAt(ss, h - 1, k)
    BY <1>0, <2>1
  <2>3. CASE k \in NamesOf(ss[h]) \ ss[h].before
    BY <1>18, <2>2, <2>3 DEF Keeps
  <2>4. CASE k \notin NamesOf(ss[h]) \ ss[h].before
    <3>1. h = d /\ k = n /\ n \notin NamesOf(ss[d])
      <4>1. CASE h # d
        BY <1>6, <2>4, <4>1
      <4>2. CASE h = d
        BY <1>5, <1>6, <1>8, <2>4, <4>2
      <4> QED
        BY <4>1, <4>2
    <3>2. n \notin now
      BY <1>5, <1>6, <3>1
    <3>3. SlotAt(ss, d, n) = SlotAt(ss, d - 1, n)
      BY <1>1, <3>1, NotHere
    <3> QED
      BY <1>18, <2>2, <3>1, <3>2, <3>3 DEF Sees
  <2> QED
    BY <2>3, <2>4
<1> QED
  BY <1>8, <1>11, <1>13, <1>14, <1>17, <1>18 DEF HasDeclared

-----------------------------------------------------------------------------
(* The code of a loop's body.                                              *)

LEMMA HeldNext ==
  ASSUME NEW c, NEW k \in Nat \ {0}, NEW s
  PROVE  Held(c, k + 1, s) <=> StoresTo(c[k], s) \/ (Held(c, k, s) /\ ~TakesFrom(c[k], s))
<1>1. ASSUME Held(c, k + 1, s), ~StoresTo(c[k], s) PROVE Held(c, k, s) /\ ~TakesFrom(c[k], s)
  <2>1. PICK j \in 1 .. (k + 1) - 1 :
          StoresTo(c[j], s) /\ \A h \in j + 1 .. (k + 1) - 1 : ~TakesFrom(c[h], s)
    BY <1>1 DEF Held
  <2>2. j # k /\ j \in 1 .. k - 1 /\ k \in j + 1 .. (k + 1) - 1
    BY <1>1, <2>1
  <2>3. \A h \in j + 1 .. k - 1 : h \in j + 1 .. (k + 1) - 1
    OBVIOUS
  <2> QED
    BY <2>1, <2>2, <2>3 DEF Held
<1>2. ASSUME StoresTo(c[k], s) PROVE Held(c, k + 1, s)
  <2>1. k \in 1 .. (k + 1) - 1 /\ \A h \in k + 1 .. (k + 1) - 1 : FALSE
    OBVIOUS
  <2> QED
    BY <1>2, <2>1 DEF Held
<1>3. ASSUME Held(c, k, s), ~TakesFrom(c[k], s) PROVE Held(c, k + 1, s)
  <2>1. PICK j \in 1 .. k - 1 : StoresTo(c[j], s) /\ \A h \in j + 1 .. k - 1 : ~TakesFrom(c[h], s)
    BY <1>3 DEF Held
  <2>2. \A h \in j + 1 .. (k + 1) - 1 : h \in j + 1 .. k - 1 \/ h = k
    OBVIOUS
  <2>3. j \in 1 .. (k + 1) - 1 /\ \A h \in j + 1 .. (k + 1) - 1 : ~TakesFrom(c[h], s)
    BY <1>3, <2>1, <2>2
  <2> QED
    BY <2>1, <2>3 DEF Held
<1> QED
  BY <1>1, <1>2, <1>3

LEMMA HeldSame ==
  ASSUME NEW c, NEW b, NEW k \in Nat, \A j \in 1 .. k - 1 : b[j] = c[j], NEW s
  PROVE  Held(b, k, s) <=> Held(c, k, s)
<1>1. \A j \in 1 .. k - 1 : \A h \in j + 1 .. k - 1 : h \in 1 .. k - 1
  OBVIOUS
<1>2. \A j \in 1 .. k - 1 : StoresTo(b[j], s) <=> StoresTo(c[j], s)
  BY DEF StoresTo
<1>3. \A j \in 1 .. k - 1 : TakesFrom(b[j], s) <=> TakesFrom(c[j], s)
  BY DEF TakesFrom
<1> QED
  BY <1>1, <1>2, <1>3 DEF Held

LEMMA HeldAppend ==
  ASSUME NEW c \in Seq(Code), NEW i \in Code
  PROVE  LET b == Append(c, i)
         IN  /\ b \in Seq(Code) /\ Len(b) = Len(c) + 1 /\ b[Len(c) + 1] = i
             /\ \A j \in 1 .. Len(c) : b[j] = c[j]
             /\ \A k \in 1 .. Len(c) + 1 : \A s : Held(b, k, s) <=> Held(c, k, s)
             /\ \A s : Held(b, Len(b) + 1, s) <=>
                         StoresTo(i, s) \/ (Held(c, Len(c) + 1, s) /\ ~TakesFrom(i, s))
<1> DEFINE b == Append(c, i)
<1>1. /\ b \in Seq(Code) /\ Len(b) = Len(c) + 1 /\ b[Len(c) + 1] = i
      /\ \A j \in 1 .. Len(c) : b[j] = c[j]
      /\ Len(c) \in Nat
  OBVIOUS
<1> HIDE DEF b
<1>2. ASSUME NEW k \in 1 .. Len(c) + 1, NEW s PROVE Held(b, k, s) <=> Held(c, k, s)
  <2>1. k \in Nat /\ \A j \in 1 .. k - 1 : b[j] = c[j]
    BY <1>1
  <2> QED
    BY <2>1, HeldSame
<1>3. ASSUME NEW s
      PROVE  Held(b, Len(b) + 1, s) <=>
               StoresTo(i, s) \/ (Held(c, Len(c) + 1, s) /\ ~TakesFrom(i, s))
  <2>1. PICK k \in Nat \ {0} : k = Len(c) + 1
    BY <1>1
  <2>2. Held(b, k + 1, s) <=> StoresTo(b[k], s) \/ (Held(b, k, s) /\ ~TakesFrom(b[k], s))
    BY HeldNext
  <2>3. Held(b, k, s) <=> Held(c, k, s)
    BY <1>1, <1>2, <2>1
  <2> QED
    BY <1>1, <2>1, <2>2, <2>3
<1> QED
  BY <1>1, <1>2, <1>3 DEF b

-----------------------------------------------------------------------------
(* The steps.                                                              *)

LEMMA NextScope ==
  ASSUME OwnInv, scopes # << >>
  PROVE  /\ Len(scopes) = Len(frames) + 1 /\ Len(frames) \in Nat /\ Len(scopes) \in Nat \ {0}
         /\ Len(scopes) - 1 = Len(frames) /\ Len(scopes) - 1 \in Nat
         /\ Len(scopes) \in 1 .. Len(scopes) /\ Len(scopes) \in 0 .. Len(scopes)
         /\ Len(scopes) - 1 \in 0 .. Len(scopes)
         /\ scopes[Len(scopes)] \in ScopeSet /\ Last(scopes) = scopes[Len(scopes)]
         /\ scopes \in Seq(ScopeSet) /\ frames \in Seq(FrameSet)
         /\ frames # << >> => Top \in FrameSet /\ Last(frames) = Top /\ Len(frames) \in 1 .. Len(frames)
<1>1. scopes \in Seq(ScopeSet) /\ frames \in Seq(FrameSet) /\ Len(scopes) = Len(frames) + 1
  BY DEF OwnInv, OwnTypeOK, Shaped
<1>2. Len(frames) \in Nat
  BY <1>1
<1>3. frames # << >> => Len(frames) \in 1 .. Len(frames)
  BY <1>1
<1> QED
  BY <1>1, <1>2, <1>3 DEF Top, Last

\* On the path of the run no construct is skipped.
LEMMA PathTo ==
  ASSUME frames \in Seq(FrameSet), Pathed, ~over, NEW n \in 1 .. Len(frames), frames[n].wasOn
  PROVE  \A k \in 1 .. n - 1 : frames[k].wasOn /\ OnBranch(frames[k])
<1> DEFINE Good(k) == frames[k].wasOn /\ OnBranch(frames[k])
           Bad == {j \in Nat \ {0} : j < n /\ ~Good(n - j)}
<1>1. n \in Nat \ {0} /\ n <= Len(frames) /\ Len(frames) \in Nat
  OBVIOUS
<1>2. CASE Bad = {}
  <2>1. ASSUME NEW k \in 1 .. n - 1 PROVE Good(k)
    <3>1. n - k \in Nat \ {0} /\ n - k < n /\ n - (n - k) = k
      BY <1>1
    <3>2. n - k \notin Bad
      BY <1>2
    <3> QED
      BY <3>1, <3>2
  <2> QED
    BY <2>1
<1>3. CASE Bad # {}
  <2>1. PICK j \in Bad : \A x \in Bad : j <= x
    <3>1. Bad \subseteq Nat
      OBVIOUS
    <3> HIDE DEF Bad
    <3> QED
      BY <1>3, <3>1, Least
  <2>2. j \in Nat \ {0} /\ j < n /\ ~Good(n - j)
    BY <2>1
  <2>3. PICK k : k = n - j + 1
    OBVIOUS
  <2>4. k \in 1 .. Len(frames) /\ k # 1 /\ k - 1 = n - j /\ k <= n
    BY <1>1, <2>2, <2>3
  <2>5. frames[k].wasOn
    <3>1. CASE k = n
      BY <3>1
    <3>2. CASE k # n
      <4>1. j - 1 \in Nat \ {0} /\ j - 1 < n /\ n - (j - 1) = k
        BY <1>1, <2>2, <2>3, <2>4, <3>2
      <4>2. j - 1 \in Bad => j <= j - 1
        BY <2>1
      <4>3. Good(n - (j - 1))
        BY <2>2, <4>1, <4>2
      <4> QED
        BY <4>1, <4>3
    <3> QED
      BY <3>1, <3>2
  <2>6. frames[k - 1].wasOn /\ OnBranch(frames[k - 1])
    BY <2>4, <2>5 DEF Pathed
  <2> QED
    BY <2>2, <2>4, <2>6
<1> QED
  BY <1>2, <1>3

LEMMA OnPath ==
  ASSUME frames \in Seq(FrameSet), Pathed, on, ~over
  PROVE  \A k \in 1 .. Len(frames) : ~Skipped(frames[k])
<1>1. CASE frames = << >>
  BY <1>1
<1>2. CASE frames # << >>
  <2>1. Len(frames) \in 1 .. Len(frames) /\ Top.wasOn /\ OnBranch(Top) /\ Top = frames[Len(frames)]
    BY <1>2 DEF Pathed, Top
  <2>2. PICK n \in 1 .. Len(frames) : n = Len(frames)
    BY <2>1
  <2>3. \A k \in 1 .. n - 1 : frames[k].wasOn /\ OnBranch(frames[k])
    BY <2>1, <2>2, PathTo
  <2>4. \A k \in 1 .. Len(frames) : k \in 1 .. n - 1 \/ k = n
    BY <2>2
  <2> QED
    BY <2>1, <2>2, <2>3, <2>4 DEF Skipped
<1> QED
  BY <1>1, <1>2

\* What the generator accepts is there, and in a loop what it lets a body move
\* is the body's own.
LEMMA Accepted ==
  ASSUME OwnInv, scopes # << >>, ~term, NEW n \in Names, Accessible(n)
  PROVE  /\ ActiveSlot(n) \in Slots /\ ActiveSlot(n) # 0
         /\ ActiveSlot(n) \in SlotsOf(scopes, Len(scopes))
         /\ on => rt.flag[ActiveSlot(n)]
         /\ InLoop => \/ Held(Top.code, Len(Top.code) + 1, ActiveSlot(n))
                      \/ ActiveSlot(n) \in Base(scopes, Top.incoming)
         /\ InLoop /\ MayMove(n) /\ "loopMove" \notin Forms =>
              /\ ActiveSlot(n) \in Local(scopes)
              /\ Held(Top.code, Len(Top.code) + 1, ActiveSlot(n))
<1> DEFINE D == Len(scopes)
           s == ActiveSlot(n)
<1>1. /\ scopes \in Seq(ScopeSet) /\ D \in 1 .. D /\ D \in 0 .. D /\ D - 1 \in 0 .. D
      /\ Last(scopes) = scopes[D] /\ (frames # << >> => Last(frames) = Top)
  BY NextScope
<1>2. s = SlotAt(scopes, D, n) /\ s # 0 /\ n \notin moved
  BY DEF ActiveSlot, Accessible
<1>3. s \in SlotsOf(scopes, D) /\ s \in Slots
  BY <1>1, <1>2, SlotRegistered
<1>4. on => rt.flag[s]
  <2> SUFFICES ASSUME on PROVE rt.flag[s]
    OBVIOUS
  <2>1. ~over
    BY DEF OwnInv, Pathed
  <2>2. Certain(rt, scopes, moved, D)
    BY <2>1 DEF OwnInv, RunHolds
  <2>3. s \in Flags(rt)
    BY <1>2, <2>2 DEF Certain, Sees
  <2> QED
    BY <2>3 DEF Flags
<1>5. ASSUME InLoop
      PROVE  Held(Top.code, Len(Top.code) + 1, s) \/ s \in Base(scopes, Top.incoming)
  <2>1. frames # << >> /\ Top.kind = "while"
    BY <1>1, <1>5 DEF InLoop
  <2>2. Sure(Top.code, scopes, moved, Base(scopes, Top.incoming))
    BY <2>1 DEF OwnInv, LoopHolds, Loops
  <2> QED
    BY <1>2, <2>2 DEF Sure, Sees, HeldAt
<1>6. ASSUME InLoop, MayMove(n), "loopMove" \notin Forms
      PROVE  s \in Local(scopes) /\ Held(Top.code, Len(Top.code) + 1, s)
  <2>1. n \in NamesOf(scopes[D])
    BY <1>1, <1>6 DEF MayMove, NamesOf
  <2>2. Slotted(scopes, lets)
    BY DEF OwnInv
  <2>3. s \in CleanupOf(scopes[D])
    BY <1>1, <1>2, <2>1, <2>2, Here
  <2>4. s \notin SlotsOf(scopes, D - 1)
    BY <1>1, <2>2, <2>3, Apart
  <2>5. s \notin Base(scopes, Top.incoming)
    <3>1. \A m : SlotAt(scopes, D - 1, m) # 0 => SlotAt(scopes, D - 1, m) \in SlotsOf(scopes, D - 1)
      BY <1>1, SlotRegistered
    <3> QED
      BY <1>2, <2>4, <3>1 DEF Base
  <2> QED
    BY <1>5, <1>6, <2>3, <2>5 DEF Local
<1> QED
  BY <1>2, <1>3, <1>4, <1>5, <1>6

\* Frames that differ in nothing but their code.
Alike(f, g) ==
  /\ f.kind = g.kind /\ f.incoming = g.incoming /\ f.wasOn = g.wasOn /\ f.taken = g.taken
  /\ f.thenMoved = g.thenMoved /\ f.falls = g.falls /\ f.exits = g.exits /\ f.at = g.at

LEMMA Emitted ==
  ASSUME OwnInv, scopes # << >>, NEW i \in Code, Emit(i)
  PROVE  /\ frames' \in Seq(FrameSet) /\ Len(frames') = Len(frames)
         /\ \A k \in 1 .. Len(frames) : Alike(frames'[k], frames[k])
         /\ InLoop => frames # << >> /\ Top'.code = Append(Top.code, i)
         /\ rt' = IF on THEN Run(rt, i) ELSE rt
<1>1. /\ frames \in Seq(FrameSet) /\ Len(frames) \in Nat
      /\ frames # << >> => Top \in FrameSet /\ Last(frames) = Top /\ Len(frames) \in 1 .. Len(frames)
  BY NextScope
<1>2. rt' = IF on THEN Run(rt, i) ELSE rt
  BY DEF Emit
<1>3. CASE ~InLoop
  <2>1. frames' = frames
    BY <1>3 DEF Emit
  <2> QED
    BY <1>1, <1>2, <1>3, <2>1 DEF Alike
<1>4. CASE InLoop
  <2>1. frames # << >> /\ Len(frames) \in 1 .. Len(frames) /\ Top \in FrameSet
    BY <1>1, <1>4 DEF InLoop
  <2>2. PICK b \in Seq(Code) : b = Append(Top.code, i)
    <3>1. Top.code \in Seq(Code)
      BY <2>1 DEF FrameSet
    <3>2. \A c \in Seq(Code) : Append(c, i) \in Seq(Code)
      OBVIOUS
    <3> QED
      BY <3>1, <3>2
  <2>3. PICK g : g = [Top EXCEPT !.code = b]
    OBVIOUS
  <2>4. g \in FrameSet /\ Alike(g, Top) /\ g.code = b
    BY <2>1, <2>3 DEF FrameSet, Alike
  <2>5. frames' = [frames EXCEPT ![Len(frames)] = g]
    BY <1>4, <2>1, <2>2, <2>3 DEF Emit, Top
  <2>6. /\ frames' \in Seq(FrameSet) /\ Len(frames') = Len(frames) /\ frames'[Len(frames)] = g
        /\ \A k \in 1 .. Len(frames) : k # Len(frames) => frames'[k] = frames[k]
    BY <1>1, <2>1, <2>4, <2>5
  <2>7. \A k \in 1 .. Len(frames) : Alike(frames'[k], frames[k])
    BY <2>4, <2>6 DEF Alike, Top
  <2>8. Top' = g
    BY <2>6 DEF Top
  <2> QED
    BY <1>2, <2>1, <2>2, <2>4, <2>6, <2>7, <2>8
<1> QED
  BY <1>3, <1>4

\* The path is that of the constructs, whatever their code.
LEMMA PathKept ==
  ASSUME Shaped, Pathed, Ending, scopes # << >>, scopes' # << >>, Len(scopes') = Len(scopes),
         frames \in Seq(FrameSet), frames' \in Seq(FrameSet), Len(frames') = Len(frames),
         \A k \in 1 .. Len(frames) : Alike(frames'[k], frames[k]),
         term' = term, on' = on, over' = over
  PROVE  Shaped' /\ Pathed' /\ Ending'
<1>1. Len(frames) \in Nat /\ (frames' = << >> <=> frames = << >>)
  OBVIOUS
<1>2. frames # << >> => Len(frames) \in 1 .. Len(frames) /\ Alike(Top', Top)
  BY <1>1 DEF Top
<1>3. \A k \in 1 .. Len(frames) : OnBranch(frames'[k]) <=> OnBranch(frames[k])
  BY DEF Alike, OnBranch
<1>4. frames # << >> => (OnBranch(Top') <=> OnBranch(Top))
  BY <1>2 DEF Alike, OnBranch
<1>5. Shaped'
  <2>1. ASSUME NEW k \in 1 .. Len(frames)
        PROVE  /\ frames'[k].kind \in Loops => k = Len(frames) /\ frames'[k].taken \in Nat
               /\ frames'[k].kind = "block" => frames'[k].taken = ""
               /\ frames'[k].kind \in {"then", "else"} => frames'[k].taken \in {"then", "else"}
    <3>1. frames'[k].kind = frames[k].kind /\ frames'[k].taken = frames[k].taken
      BY DEF Alike
    <3> QED
      BY <3>1 DEF Shaped
  <2>2. Len(scopes') = Len(frames') + 1
    BY DEF Shaped
  <2> QED
    BY <2>1, <2>2 DEF Shaped
<1>6. Pathed'
  <2>1. \A k \in 1 .. Len(frames) : k # 1 => k - 1 \in 1 .. Len(frames)
    BY <1>1
  <2>2. ASSUME ~over, NEW k \in 1 .. Len(frames)
        PROVE  frames'[k].wasOn <=> k = 1 \/ (frames'[k - 1].wasOn /\ OnBranch(frames'[k - 1]))
    <3>1. frames[k].wasOn <=> k = 1 \/ (frames[k - 1].wasOn /\ OnBranch(frames[k - 1]))
      BY <2>2 DEF Pathed
    <3> QED
      BY <1>3, <2>1, <3>1 DEF Alike
  <2> QED
    BY <1>1, <1>2, <1>4, <2>2 DEF Pathed, Alike
<1>7. Ending'
  BY <1>1, <1>2 DEF Ending, Alike
<1> QED
  BY <1>5, <1>6, <1>7

\* A statement: how a step that emits one instruction keeps the invariant,
\* whatever it adds to the innermost scope (Grows) and to the moved names
\* (Follows on from what the instruction does to the slots).
Grows(ss, tt) ==
  /\ tt \in Seq(ScopeSet) /\ Len(tt) = Len(ss)
  /\ \A e \in 1 .. Len(ss) - 1 : tt[e] = ss[e]
  /\ SlotsOf(ss, Len(ss)) \subseteq SlotsOf(tt, Len(ss))
  /\ Local(ss) \subseteq Local(tt)

Tracks(i, ss, m, tt, w) ==
  \A A, G :
    (\A s \in Slots : StoresTo(i, s) \/ (s \in A /\ ~TakesFrom(i, s)) => s \in G) =>
      /\ Sees(A, ss, m, Len(ss)) => Sees(G, tt, w, Len(ss))
      /\ Sees(A, ss, m, Len(ss)) /\ Keeps(A, ss, Len(ss)) => Keeps(G, tt, Len(ss))

LEMMA StatementRun ==
  ASSUME OwnInv, scopes # << >>, ~term, NEW i \in Code, Emit(i), Grows(scopes, scopes'),
         term' = term, on' = on, over' = over,
         on => Ready(rt, i),
         i.op \in {"let", "assign"} => i.to \in Slots /\ i.to \in SlotsOf(scopes', Len(scopes)),
         Tracks(i, scopes, moved, scopes', moved')
  PROVE  RunHolds' /\ rt' \in Runtime
<1> DEFINE D == Len(scopes)
<1>1. /\ scopes \in Seq(ScopeSet) /\ frames \in Seq(FrameSet) /\ D = Len(frames) + 1
      /\ Len(frames) \in Nat /\ D \in Nat
  BY NextScope
<1>2. /\ Len(frames') = Len(frames) /\ \A k \in 1 .. Len(frames) : Alike(frames'[k], frames[k])
      /\ rt' = IF on THEN Run(rt, i) ELSE rt
  BY Emitted
<1>3. rt \in Runtime /\ RunHolds /\ (on => ~over)
  BY DEF OwnInv, OwnTypeOK, Pathed
<1>4. scopes' \in Seq(ScopeSet) /\ Len(scopes') = D /\ \A e \in 1 .. D - 1 : scopes'[e] = scopes[e]
  BY DEF Grows
<1>5. \A k \in 1 .. Len(frames) : Skipped(frames'[k]) <=> Skipped(frames[k])
  BY <1>2 DEF Alike, Skipped, OnBranch
<1>6. CASE on
  <2>1. Exact(rt, SlotsOf(scopes, D)) /\ ~rt.misused /\ Certain(rt, scopes, moved, D)
    BY <1>3, <1>6 DEF RunHolds
  <2>2. Exact(rt, SlotsOf(scopes', D))
    BY <2>1, ExactMore DEF Grows
  <2>3. rt' = Run(rt, i)
    BY <1>2, <1>6
  <2>4. /\ rt' \in Runtime /\ ~rt'.misused /\ Exact(rt', SlotsOf(scopes', D))
        /\ Changed(rt, rt', i)
    BY <1>3, <1>6, <2>1, <2>2, <2>3, RunExact
  <2>5. \A s \in Slots : StoresTo(i, s) \/ (s \in Flags(rt) /\ ~TakesFrom(i, s)) => s \in Flags(rt')
    BY <2>4 DEF Changed, Flags
  <2>6. Sees(Flags(rt), scopes, moved, D) /\ Keeps(Flags(rt), scopes, D)
    BY <2>1 DEF Certain
  <2>7. Sees(Flags(rt'), scopes', moved', D) /\ Keeps(Flags(rt'), scopes', D)
    BY <2>5, <2>6 DEF Tracks
  <2>8. Certain(rt', scopes', moved', D)
    BY <2>7 DEF Certain
  <2>9. \A k \in 1 .. Len(frames) : ~Skipped(frames'[k])
    BY <1>1, <1>3, <1>5, <1>6, OnPath DEF OwnInv
  <2> QED
    BY <1>2, <1>3, <1>4, <1>6, <2>4, <2>8, <2>9 DEF RunHolds
<1>7. CASE ~on
  <2>1. rt' = rt
    BY <1>2, <1>7
  <2>2. ASSUME ~over, NEW k \in 1 .. Len(frames), Skipped(frames'[k])
        PROVE  Exact(rt', SlotsOf(scopes', k)) /\ Certain(rt', scopes', View(frames'[k]), k)
    <3>1. Exact(rt, SlotsOf(scopes, k)) /\ Certain(rt, scopes, View(frames[k]), k)
      BY <1>3, <1>5, <2>2 DEF RunHolds
    <3>2. View(frames'[k]) = View(frames[k])
      BY <1>2 DEF Alike, View
    <3>3. k \in Nat /\ \A e \in 1 .. k : scopes'[e] = scopes[e]
      BY <1>1, <1>4
    <3>4. SlotsOf(scopes', k) = SlotsOf(scopes, k)
      BY <3>3, SameBelow
    <3>5. \A A, m : (Sees(A, scopes', m, k) <=> Sees(A, scopes, m, k))
                    /\ (Keeps(A, scopes', k) <=> Keeps(A, scopes, k))
      BY <3>3, Below
    <3> QED
      BY <2>1, <3>1, <3>2, <3>4, <3>5 DEF Certain
  <2> QED
    BY <1>2, <1>3, <1>7, <2>1, <2>2 DEF RunHolds
<1> QED
  BY <1>6, <1>7

\* What a body may move, use and declare.
Admits(i, ss, tt, c, base) ==
  /\ \A s \in Slots : TakesFrom(i, s) => s \in Local(ss) /\ Held(c, Len(c) + 1, s)
  /\ i.op \in {"use", "give"} => i.from # 0
  /\ i.op = "use" => Held(c, Len(c) + 1, i.from) \/ i.from \in base
  /\ i.op \in {"let", "assign"} => i.to \in SlotsOf(tt, Len(ss))
  /\ i.op = "let" => i.to \in Local(tt) /\ i.to \notin SlotsOf(ss, Len(ss))

\* The code of a body so far stays legal.
LEMMA LegalAppend ==
  ASSUME NEW c \in Seq(Code), NEW i \in Code,
         NEW ss, NEW tt, Grows(ss, tt), NEW base, Legal(c, ss, base), Admits(i, ss, tt, c, base)
  PROVE  Legal(Append(c, i), tt, base)
<1> DEFINE b == Append(c, i)
<1>1. /\ b \in Seq(Code) /\ Len(b) = Len(c) + 1 /\ b[Len(c) + 1] = i
      /\ \A j \in 1 .. Len(c) : b[j] = c[j]
      /\ \A k \in 1 .. Len(c) + 1 : \A s : Held(b, k, s) <=> Held(c, k, s)
      /\ Len(c) \in Nat
  BY HeldAppend
<1> HIDE DEF b
<1>2. /\ Len(tt) = Len(ss) /\ SlotsOf(ss, Len(ss)) \subseteq SlotsOf(tt, Len(ss))
      /\ Local(ss) \subseteq Local(tt)
  BY DEF Grows
<1>3. ASSUME NEW j \in 1 .. Len(c) PROVE LegalAt(b, tt, base, j)
  <2>1. LegalAt(c, ss, base, j)
    BY DEF Legal
  <2>2. b[j] = c[j] /\ j \in 1 .. Len(c) + 1 /\ \A h \in 1 .. j - 1 : b[h] = c[h]
    BY <1>1
  <2>3. \A s : Held(b, j, s) <=> Held(c, j, s)
    BY <1>1, <2>2
  <2> QED
    BY <1>2, <2>1, <2>2, <2>3 DEF LegalAt
<1>4. LegalAt(b, tt, base, Len(c) + 1)
  <2>1. PICK k : k = Len(c) + 1
    OBVIOUS
  <2>2. b[k] = i /\ \A s : Held(b, k, s) <=> Held(c, Len(c) + 1, s)
    BY <1>1, <2>1
  <2>3. ASSUME i.op = "let", NEW h \in 1 .. k - 1 PROVE ~StoresTo(b[h], i.to)
    <3>1. h \in 1 .. Len(c) /\ b[h] = c[h]
      BY <1>1, <2>1
    <3>2. LegalAt(c, ss, base, h)
      BY <3>1 DEF Legal
    <3>3. StoresTo(c[h], i.to) => i.to \in SlotsOf(ss, Len(ss))
      BY <3>2 DEF LegalAt, StoresTo
    <3> QED
      BY <2>3, <3>1, <3>3 DEF Admits
  <2>4. LegalAt(b, tt, base, k)
    BY <1>2, <2>2, <2>3 DEF LegalAt, Admits
  <2> QED
    BY <2>1, <2>4
<1>5. \A j \in 1 .. Len(b) : j \in 1 .. Len(c) \/ j = Len(c) + 1
  BY <1>1
<1> QED
  BY <1>3, <1>4, <1>5 DEF Legal, b

LEMMA StatementLoop ==
  ASSUME OwnInv, scopes # << >>, ~term, NEW i \in Code, Emit(i), Grows(scopes, scopes'),
         term' = term, on' = on, over' = over,
         on => Ready(rt, i),
         i.op \in {"let", "assign"} => i.to \in Slots /\ i.to \in SlotsOf(scopes', Len(scopes)),
         Tracks(i, scopes, moved, scopes', moved'),
         InLoop => Admits(i, scopes, scopes', Top.code, Base(scopes, Top.incoming))
  PROVE  LoopHolds'
<1> DEFINE D == Len(scopes)
           c == Top.code
           base == Base(scopes, Top.incoming)
<1> SUFFICES ASSUME frames' # << >>, Top'.kind \in Loops
             PROVE  /\ Top'.wasOn /\ ~over => Certain(rt', scopes', Top'.incoming, D - 1)
                    /\ Legal(Top'.code, scopes', Base(scopes', Top'.incoming))
                    /\ Top'.kind = "while" /\ Top'.at = 1
                    /\ Sure(Top'.code, scopes', moved', Base(scopes', Top'.incoming))
  <2>1. Len(scopes') = D
    BY DEF Grows
  <2> QED
    BY <2>1 DEF LoopHolds
<1>1. /\ scopes \in Seq(ScopeSet) /\ frames \in Seq(FrameSet) /\ D = Len(frames) + 1
      /\ Len(frames) \in Nat /\ D \in Nat /\ D - 1 \in Nat /\ D - 1 \in 0 .. D
      /\ D \in 1 .. D /\ D - 1 = Len(frames)
      /\ (frames # << >> => Last(frames) = Top /\ Top \in FrameSet /\ Len(frames) \in 1 .. Len(frames))
  BY NextScope
<1>2. /\ Len(frames') = Len(frames) /\ \A k \in 1 .. Len(frames) : Alike(frames'[k], frames[k])
      /\ rt' = IF on THEN Run(rt, i) ELSE rt
      /\ frames' \in Seq(FrameSet)
      /\ InLoop => Top'.code = Append(c, i)
  BY Emitted
<1>3. frames # << >> /\ Alike(Top', Top)
  <2>1. frames # << >>
    BY <1>1, <1>2
  <2> QED
    BY <1>1, <1>2, <2>1 DEF Top
<1>4. Top.kind = "while" /\ InLoop
  BY <1>1, <1>3 DEF OwnInv, Ending, Alike, Loops, InLoop
<1>5. /\ c \in Seq(Code) /\ Top.at = 1 /\ Legal(c, scopes, base) /\ Sure(c, scopes, moved, base)
      /\ Top.wasOn /\ ~over => Certain(rt, scopes, Top.incoming, D - 1)
  <2>1. c \in Seq(Code)
    BY <1>1, <1>3 DEF FrameSet
  <2> QED
    BY <1>3, <1>4, <2>1 DEF OwnInv, LoopHolds, Loops
<1>6. Admits(i, scopes, scopes', c, base) /\ Top'.code = Append(c, i)
  BY <1>2, <1>4
<1>7. scopes' \in Seq(ScopeSet) /\ Len(scopes') = D /\ \A e \in 1 .. D - 1 : scopes'[e] = scopes[e]
  BY DEF Grows
<1>8. Base(scopes', Top'.incoming) = base
  <2>1. \A n : SlotAt(scopes', D - 1, n) = SlotAt(scopes, D - 1, n)
    BY <1>1, <1>7, SameBelow
  <2>2. Top'.incoming = Top.incoming
    BY <1>3 DEF Alike
  <2> QED
    BY <1>7, <2>1, <2>2 DEF Base
<1>9. Legal(Top'.code, scopes', base)
  BY <1>5, <1>6, LegalAppend
<1>10. Sure(Top'.code, scopes', moved', base)
  <2> DEFINE b == Append(c, i)
  <2>1. b = Top'.code
    BY <1>6
  <2>2. \A s : Held(b, Len(b) + 1, s) <=>
                 StoresTo(i, s) \/ (Held(c, Len(c) + 1, s) /\ ~TakesFrom(i, s))
    BY <1>5, HeldAppend
  <2> HIDE DEF b
  <2>3. PICK A : A = HeldAt(c, Len(c) + 1) \cup base
    OBVIOUS
  <2>4. PICK G : G = HeldAt(b, Len(b) + 1) \cup base
    OBVIOUS
  <2>5. \A s \in Slots : StoresTo(i, s) \/ (s \in A /\ ~TakesFrom(i, s)) => s \in G
    BY <2>2, <2>3, <2>4 DEF HeldAt
  <2>6. Sees(A, scopes, moved, D)
    BY <1>5, <2>3 DEF Sure
  <2>7. Sees(G, scopes', moved', D)
    BY <2>5, <2>6 DEF Tracks
  <2> QED
    BY <1>7, <2>1, <2>4, <2>7 DEF Sure
<1>11. ASSUME Top'.wasOn, ~over PROVE Certain(rt', scopes', Top'.incoming, D - 1)
  <2>1. Certain(rt, scopes, Top.incoming, D - 1) /\ Top'.incoming = Top.incoming
    BY <1>3, <1>5, <1>11 DEF Alike
  <2>2. ASSUME NEW s \in SlotsOf(scopes, D - 1), s \in Flags(rt) PROVE s \in Flags(rt')
    <3>1. CASE on
      <4>1. Exact(rt, SlotsOf(scopes, D)) /\ ~rt.misused /\ rt \in Runtime
        BY <1>11, <3>1 DEF OwnInv, RunHolds, OwnTypeOK
      <4>2. Exact(rt, SlotsOf(scopes', D))
        BY <4>1, ExactMore DEF Grows
      <4>3. Changed(rt, Run(rt, i), i)
        BY <3>1, <4>1, <4>2, RunExact
      <4>4. s \in Slots /\ rt.flag[s]
        BY <2>2 DEF Flags
      <4>5. s \notin Local(scopes)
        BY <1>1, Apart DEF OwnInv, Local
      <4>6. ~TakesFrom(i, s)
        BY <1>6, <4>4, <4>5 DEF Admits
      <4> QED
        BY <1>2, <3>1, <4>3, <4>4, <4>6 DEF Changed, Flags
    <3>2. CASE ~on
      BY <1>2, <2>2, <3>2
    <3> QED
      BY <3>1, <3>2
  <2>3. Sees(Flags(rt'), scopes, Top.incoming, D - 1)
    BY <1>1, <2>1, <2>2, SeesMore DEF Certain
  <2>4. Keeps(Flags(rt'), scopes, D - 1)
    BY <1>1, <2>1, <2>2, KeepsMore DEF Certain
  <2> QED
    BY <1>1, <1>7, <2>1, <2>3, <2>4, Below DEF Certain
<1> QED
  BY <1>3, <1>4, <1>5, <1>8, <1>9, <1>10, <1>11 DEF Alike

LEMMA StatementInv ==
  ASSUME OwnInv, scopes # << >>, ~term, NEW i \in Code, Emit(i), Grows(scopes, scopes'),
         term' = term, on' = on, over' = over,
         on => Ready(rt, i),
         i.op \in {"let", "assign"} => i.to \in Slots /\ i.to \in SlotsOf(scopes', Len(scopes)),
         Tracks(i, scopes, moved, scopes', moved'),
         InLoop => Admits(i, scopes, scopes', Top.code, Base(scopes, Top.incoming)),
         Slotted(scopes', lets'), moved' \subseteq Names,
         size < MaxSize, size' = size + 1, lets' = lets \/ lets' = lets + 1
  PROVE  OwnInv'
<1>1. RunHolds' /\ rt' \in Runtime
  BY StatementRun
<1>2. LoopHolds'
  BY StatementLoop
<1>3. scopes' \in Seq(ScopeSet) /\ Len(scopes') = Len(scopes) /\ scopes' # << >>
  <2>1. Len(scopes) \in Nat \ {0}
    BY NextScope
  <2> QED
    BY <2>1 DEF Grows
<1>4. /\ frames \in Seq(FrameSet) /\ frames' \in Seq(FrameSet) /\ Len(frames') = Len(frames)
      /\ \A k \in 1 .. Len(frames) : Alike(frames'[k], frames[k])
  BY Emitted DEF OwnInv, OwnTypeOK
<1>5. Shaped' /\ Pathed' /\ Ending'
  BY <1>3, <1>4, PathKept DEF OwnInv
<1>6. size' \in 0 .. MaxSize /\ lets' \in 0 .. size'
  BY OwnershipAssumption DEF OwnInv, OwnTypeOK
<1>7. OwnTypeOK'
  BY <1>1, <1>3, <1>4, <1>6 DEF OwnInv, OwnTypeOK
<1> QED
  BY <1>1, <1>2, <1>5, <1>7 DEF OwnInv

LEMMA InScope ==
  ASSUME OwnInv, ~term
  PROVE  scopes # << >>
  BY DEF OwnInv, Shaped

LEMMA FromSource ==
  ASSUME OwnInv, ~term, NEW src \in Sources, NEW i, i.from = SlotOf(src), i.op # "use"
  PROVE  /\ i.from \in Slots \cup {0}
         /\ on /\ i.from # 0 => rt.flag[i.from]
         /\ InLoop /\ "loopMove" \notin Forms =>
              \A s \in Slots : TakesFrom(i, s) =>
                s \in Local(scopes) /\ Held(Top.code, Len(Top.code) + 1, s)
         /\ Consumed(src) \subseteq Names
         /\ Tracks(i, scopes, moved, scopes, Consumed(src))
<1> DEFINE D == Len(scopes)
<1>1. scopes # << >>
  BY InScope
<1>2. scopes \in Seq(ScopeSet) /\ D \in 1 .. D /\ D \in 0 .. D
  BY <1>1, NextScope
<1>3. moved \subseteq Names /\ Slotted(scopes, lets) /\ Fresh \notin Names /\ Fresh = 0 /\ 0 \notin Slots
  BY OwnershipAssumption DEF OwnInv, OwnTypeOK, Fresh, Slots
<1>4. SlotsOf(scopes, D) \subseteq Slots
  BY <1>2, RegisteredMember
<1>5. CASE src = Fresh
  <2>1. i.from = 0 /\ Consumed(src) = moved
    BY <1>3, <1>5 DEF SlotOf, Consumed
  <2>2. \A s \in Slots : ~TakesFrom(i, s)
    BY <1>3, <2>1 DEF TakesFrom
  <2>3. ASSUME NEW A, NEW G,
               \A s \in Slots : StoresTo(i, s) \/ (s \in A /\ ~TakesFrom(i, s)) => s \in G
        PROVE  /\ Sees(A, scopes, moved, D) => Sees(G, scopes, moved, D)
               /\ Keeps(A, scopes, D) => Keeps(G, scopes, D)
    <3>1. \A s \in SlotsOf(scopes, D) : s \in A => s \in G
      BY <1>4, <2>2, <2>3
    <3> QED
      BY <1>2, <3>1, SeesMore, KeepsMore
  <2>4. Tracks(i, scopes, moved, scopes, Consumed(src))
    BY <2>1, <2>3 DEF Tracks
  <2> QED
    BY <1>3, <2>1, <2>2, <2>4
<1>6. CASE src # Fresh
  <2>1. src \in Names /\ Accessible(src) /\ MayMove(src)
    BY <1>6 DEF Sources
  <2>2. i.from = ActiveSlot(src) /\ Consumed(src) = moved \cup {src}
    BY <1>6 DEF SlotOf, Consumed
  <2>3. /\ ActiveSlot(src) \in Slots /\ (on => rt.flag[ActiveSlot(src)])
        /\ InLoop /\ "loopMove" \notin Forms =>
             ActiveSlot(src) \in Local(scopes) /\ Held(Top.code, Len(Top.code) + 1, ActiveSlot(src))
    BY <1>1, <2>1, Accepted
  <2>4. \A s : TakesFrom(i, s) <=> s = ActiveSlot(src)
    BY <2>2 DEF TakesFrom
  <2>5. ActiveSlot(src) = SlotAt(scopes, D, src)
    BY DEF ActiveSlot
  <2>6. ASSUME NEW A, NEW G,
               \A s \in Slots : StoresTo(i, s) \/ (s \in A /\ ~TakesFrom(i, s)) => s \in G
        PROVE  /\ Sees(A, scopes, moved, D) => Sees(G, scopes, moved \cup {src}, D)
               /\ Keeps(A, scopes, D) => Keeps(G, scopes, D)
    <3>1. \A s \in SlotsOf(scopes, D) : s \in A /\ s # SlotAt(scopes, D, src) => s \in G
      BY <1>4, <2>4, <2>5, <2>6
    <3> QED
      BY <1>2, <1>3, <3>1, Consumes
  <2>7. Tracks(i, scopes, moved, scopes, Consumed(src))
    BY <2>2, <2>6 DEF Tracks
  <2> QED
    BY <1>3, <2>1, <2>2, <2>3, <2>4, <2>7
<1> QED
  BY <1>5, <1>6

\* A step that changes no scope.
LEMMA GrowsNot ==
  ASSUME OwnInv, scopes' = scopes
  PROVE  Grows(scopes, scopes')
  BY DEF Grows, OwnInv, OwnTypeOK

LEMMA GiveInv ==
  ASSUME OwnInv, "loopMove" \notin Forms, NEW n \in Names, Give(n)
  PROVE  OwnInv'
<1> DEFINE i == I("give", 0, ActiveSlot(n))
<1>1. ~term /\ size < MaxSize /\ size' = size + 1 /\ n \in Sources
  BY DEF Give, Statement
<1>2. scopes # << >> /\ n # Fresh
  BY <1>1, InScope, OwnershipAssumption
<1>3. Accessible(n) /\ SlotOf(n) = ActiveSlot(n)
  BY <1>1, <1>2 DEF Sources, SlotOf
<1>4. ActiveSlot(n) \in Slots /\ ActiveSlot(n) # 0
  BY <1>1, <1>2, <1>3, Accepted
<1>5. i \in Code /\ i.op = "give" /\ i.to = 0 /\ i.from = ActiveSlot(n)
  BY <1>4 DEF Code, I
<1>6. Emit(i) /\ scopes' = scopes /\ term' = term /\ lets' = lets /\ on' = on /\ over' = over
      /\ moved' = Consumed(n)
  BY DEF Give
<1> HIDE DEF i
<1>7. /\ on /\ i.from # 0 => rt.flag[i.from]
      /\ InLoop /\ "loopMove" \notin Forms =>
           \A s \in Slots : TakesFrom(i, s) =>
             s \in Local(scopes) /\ Held(Top.code, Len(Top.code) + 1, s)
      /\ Consumed(n) \subseteq Names /\ Tracks(i, scopes, moved, scopes, Consumed(n))
  BY <1>1, <1>3, <1>5, FromSource
<1>8. on => Ready(rt, i)
  BY <1>4, <1>5, <1>7 DEF Ready
<1>9. InLoop => Admits(i, scopes, scopes', Top.code, Base(scopes, Top.incoming))
  BY <1>4, <1>5, <1>7 DEF Admits
<1>10. Grows(scopes, scopes') /\ Slotted(scopes', lets')
  BY <1>6, GrowsNot DEF OwnInv
<1>11. Tracks(i, scopes, moved, scopes', moved') /\ moved' \subseteq Names
  BY <1>6, <1>7
<1>12. i.op \notin {"let", "assign"}
  BY <1>5
<1> QED
  BY <1>1, <1>2, <1>5, <1>6, <1>8, <1>9, <1>10, <1>11, <1>12, StatementInv

LEMMA UseInv ==
  ASSUME OwnInv, NEW n \in Names, Use(n)
  PROVE  OwnInv'
<1> DEFINE i == I("use", 0, ActiveSlot(n))
<1>1. ~term /\ size < MaxSize /\ size' = size + 1 /\ Accessible(n)
  BY DEF Use, Statement
<1>2. scopes # << >> /\ scopes \in Seq(ScopeSet) /\ Len(scopes) \in 0 .. Len(scopes)
  BY <1>1, InScope, NextScope
<1>3. /\ ActiveSlot(n) \in Slots /\ ActiveSlot(n) # 0 /\ (on => rt.flag[ActiveSlot(n)])
      /\ InLoop => \/ Held(Top.code, Len(Top.code) + 1, ActiveSlot(n))
                   \/ ActiveSlot(n) \in Base(scopes, Top.incoming)
  BY <1>1, <1>2, Accepted
<1>4. i \in Code /\ i.op = "use" /\ i.to = 0 /\ i.from = ActiveSlot(n)
  BY <1>3 DEF Code, I
<1>5. Emit(i) /\ scopes' = scopes /\ term' = term /\ lets' = lets /\ on' = on /\ over' = over
      /\ moved' = moved
  BY DEF Use
<1> HIDE DEF i
<1>6. \A s : ~TakesFrom(i, s)
  BY <1>4 DEF TakesFrom
<1>7. on => Ready(rt, i)
  BY <1>3, <1>4 DEF Ready
<1>8. InLoop => Admits(i, scopes, scopes', Top.code, Base(scopes, Top.incoming))
  BY <1>3, <1>4, <1>6 DEF Admits
<1>9. Grows(scopes, scopes') /\ Slotted(scopes', lets') /\ moved' \subseteq Names
  BY <1>5, GrowsNot DEF OwnInv, OwnTypeOK
<1>10. ASSUME NEW A, NEW G,
              \A s \in Slots : StoresTo(i, s) \/ (s \in A /\ ~TakesFrom(i, s)) => s \in G
       PROVE  /\ Sees(A, scopes, moved, Len(scopes)) => Sees(G, scopes, moved, Len(scopes))
              /\ Keeps(A, scopes, Len(scopes)) => Keeps(G, scopes, Len(scopes))
  <2>1. SlotsOf(scopes, Len(scopes)) \subseteq Slots
    BY <1>2, RegisteredMember
  <2>2. \A s \in SlotsOf(scopes, Len(scopes)) : s \in A => s \in G
    BY <1>6, <1>10, <2>1
  <2> QED
    BY <1>2, <2>2, SeesMore, KeepsMore
<1>11. Tracks(i, scopes, moved, scopes', moved')
  BY <1>5, <1>10 DEF Tracks
<1>12. i.op \notin {"let", "assign"}
  BY <1>4
<1> QED
  BY <1>1, <1>2, <1>4, <1>5, <1>7, <1>8, <1>9, <1>11, <1>12, StatementInv

LEMMA AssignInv ==
  ASSUME OwnInv, "loopMove" \notin Forms, NEW n \in Names, NEW src \in Sources, Assign(n, src)
  PROVE  OwnInv'
<1> DEFINE i == I("assign", ActiveSlot(n), SlotOf(src))
           D == Len(scopes)
<1>1. ~term /\ size < MaxSize /\ size' = size + 1 /\ ActiveSlot(n) # 0
  BY DEF Assign, Statement
<1>2. scopes # << >> /\ scopes \in Seq(ScopeSet) /\ D \in 0 .. D
  BY <1>1, InScope, NextScope
<1>3. ActiveSlot(n) = SlotAt(scopes, D, n) /\ ActiveSlot(n) \in Slots
      /\ ActiveSlot(n) \in SlotsOf(scopes, D)
  BY <1>1, <1>2, SlotRegistered DEF ActiveSlot
<1>4. i.op = "assign" /\ i.to = ActiveSlot(n) /\ i.from = SlotOf(src)
      /\ i = [op |-> "assign", to |-> ActiveSlot(n), from |-> SlotOf(src)]
  BY DEF I
<1>5. Emit(i) /\ scopes' = scopes /\ term' = term /\ lets' = lets /\ on' = on /\ over' = over
      /\ moved' = Consumed(src) \ {n}
  BY DEF Assign
<1> HIDE DEF i
<1>6. /\ i.from \in Slots \cup {0} /\ (on /\ i.from # 0 => rt.flag[i.from])
      /\ InLoop /\ "loopMove" \notin Forms =>
           \A s \in Slots : TakesFrom(i, s) =>
             s \in Local(scopes) /\ Held(Top.code, Len(Top.code) + 1, s)
      /\ Consumed(src) \subseteq Names /\ Tracks(i, scopes, moved, scopes, Consumed(src))
  BY <1>1, <1>4, FromSource
<1>7. i \in Code
  BY <1>3, <1>4, <1>6 DEF Code
<1>8. on => Ready(rt, i)
  BY <1>4, <1>6 DEF Ready
<1>9. InLoop => Admits(i, scopes, scopes', Top.code, Base(scopes, Top.incoming))
  BY <1>3, <1>4, <1>5, <1>6 DEF Admits
<1>10. Grows(scopes, scopes') /\ Slotted(scopes', lets') /\ moved' \subseteq Names
  BY <1>5, <1>6, GrowsNot DEF OwnInv
<1>11. ASSUME NEW A, NEW G,
              \A s \in Slots : StoresTo(i, s) \/ (s \in A /\ ~TakesFrom(i, s)) => s \in G
       PROVE  /\ Sees(A, scopes, moved, D) => Sees(G, scopes, Consumed(src) \ {n}, D)
              /\ Sees(A, scopes, moved, D) /\ Keeps(A, scopes, D) => Keeps(G, scopes, D)
  <2>1. /\ Sees(A, scopes, moved, D) => Sees(G, scopes, Consumed(src), D)
        /\ Sees(A, scopes, moved, D) /\ Keeps(A, scopes, D) => Keeps(G, scopes, D)
    BY <1>6, <1>11 DEF Tracks
  <2>2. SlotAt(scopes, D, n) \in G
    BY <1>3, <1>4, <1>11 DEF StoresTo
  <2> QED
    BY <2>1, <2>2, Fills
<1>12. Tracks(i, scopes, moved, scopes', moved')
  BY <1>5, <1>11 DEF Tracks
<1>13. i.op \in {"let", "assign"} => i.to \in Slots /\ i.to \in SlotsOf(scopes', D)
  BY <1>3, <1>4, <1>5
<1> QED
  BY <1>1, <1>2, <1>5, <1>7, <1>8, <1>9, <1>10, <1>12, <1>13, StatementInv

LEMMA LetInv ==
  ASSUME OwnInv, "loopMove" \notin Forms, NEW n \in Names, NEW src \in Sources, Let(n, src)
  PROVE  OwnInv'
<1> DEFINE i == I("let", lets + 1, SlotOf(src))
           D == Len(scopes)
           x == lets + 1
           now == Consumed(src)
           top == Last(scopes)
<1>1. ~term /\ size < MaxSize /\ size' = size + 1
  BY DEF Let, Statement
<1>2. scopes # << >> /\ scopes \in Seq(ScopeSet) /\ D \in 1 .. D /\ D \in 0 .. D /\ D - 1 \in 0 .. D
      /\ D > 0 /\ D \in Nat /\ top = scopes[D] /\ top \in ScopeSet
  <2>1. scopes # << >>
    BY <1>1, InScope
  <2> QED
    BY <2>1, NextScope
<1>3. x \in Slots /\ lets \in Nat /\ Slotted(scopes, lets)
  BY <1>1, OwnershipAssumption DEF OwnInv, OwnTypeOK, Slots
<1>4. i.op = "let" /\ i.to = x /\ i.from = SlotOf(src)
      /\ i = [op |-> "let", to |-> x, from |-> SlotOf(src)]
  BY DEF I
<1>5. Emit(i) /\ term' = term /\ lets' = lets + 1 /\ on' = on /\ over' = over /\ moved' = now \ {n}
  BY DEF Let
<1>6. PICK new \in Variable : new = [name |-> n, slot |-> x]
  BY <1>3 DEF Variable
<1>7. new.name = n /\ new.slot = x
  BY <1>6
<1>8. (\E v \in top.vars : v.name = n) <=> n \in NamesOf(scopes[D])
  BY <1>2 DEF NamesOf
<1>9. PICK before : before = IF n \in NamesOf(scopes[D]) THEN scopes[D].before
                             ELSE scopes[D].before \cup ({n} \cap now)
  OBVIOUS
<1>10. PICK sc : sc = [vars |-> scopes[D].vars \cup {new}, before |-> before]
  OBVIOUS
<1>11. sc \in ScopeSet /\ sc.vars = scopes[D].vars \cup {new} /\ sc.before = before
  BY <1>2, <1>6, <1>9, <1>10 DEF ScopeSet
<1>12. scopes' = [scopes EXCEPT ![D] = sc]
  BY <1>2, <1>6, <1>8, <1>9, <1>10 DEF Let
<1>13. scopes' \in Seq(ScopeSet) /\ Len(scopes') = D /\ scopes'[D] = sc
       /\ \A e \in 1 .. D - 1 : scopes'[e] = scopes[e]
  BY <1>2, <1>11, <1>12
<1> HIDE DEF i, now, top
<1>14. PICK tt : tt = scopes'
  OBVIOUS
<1>15. PICK y \in Slots : y = x
  BY <1>3
<1>16. /\ Slotted(tt, y) /\ (\A s : s \in SlotsOf(tt, D) <=> s \in SlotsOf(scopes, D) \/ s = y)
       /\ (\A s : s \in CleanupOf(tt[D]) <=> s \in CleanupOf(scopes[D]) \/ s = y) /\ y \notin SlotsOf(scopes, D)
       /\ \A A : /\ Sees(A, scopes, now, D) /\ y \in A => Sees(A, tt, now \ {n}, D)
                 /\ Sees(A, scopes, now, D) /\ Keeps(A, scopes, D) => Keeps(A, tt, D)
  <2>1. tt \in Seq(ScopeSet) /\ Len(tt) = D /\ tt[D] = sc /\ \A e \in 1 .. D - 1 : tt[e] = scopes[e]
    BY <1>13, <1>14
  <2>2. sc.before = IF n \in NamesOf(scopes[D]) THEN scopes[D].before
                    ELSE scopes[D].before \cup ({n} \cap now)
    BY <1>9, <1>11
  <2>3. new.name = n /\ new.slot = y /\ y = lets + 1 /\ new \in Variable /\ y \in Slots
    BY <1>7, <1>15
  <2> QED
    <3>1. PICK d : d = D
      OBVIOUS
    <3>2. PICK w : w = now
      OBVIOUS
    <3>3. PICK ss : ss = scopes
      OBVIOUS
    <3>4. PICK last : last = lets
      OBVIOUS
    <3>5. Declared(ss, last, d, n, w, y, new, sc, tt)
      BY <1>2, <1>3, <1>11, <2>1, <2>2, <2>3, <3>1, <3>2, <3>3, <3>4 DEF Declared
    <3>6. HasDeclared(ss, d, n, w, y, tt)
      BY <3>5, Declares
    <3> QED
      BY <3>1, <3>2, <3>3, <3>6 DEF HasDeclared
<1>17. /\ i.from \in Slots \cup {0} /\ (on /\ i.from # 0 => rt.flag[i.from])
       /\ InLoop /\ "loopMove" \notin Forms =>
            \A s \in Slots : TakesFrom(i, s) =>
              s \in Local(scopes) /\ Held(Top.code, Len(Top.code) + 1, s)
       /\ now \subseteq Names /\ Tracks(i, scopes, moved, scopes, now)
  BY <1>1, <1>4, FromSource DEF now
<1>18. i \in Code
  BY <1>3, <1>4, <1>17 DEF Code
<1>19. ASSUME on PROVE Ready(rt, i)
  <2>1. Exact(rt, SlotsOf(scopes, D))
    BY <1>19 DEF OwnInv, RunHolds, Pathed
  <2>2. ~rt.flag[x]
    BY <1>15, <1>16, <2>1 DEF Exact
  <2> QED
    BY <1>4, <1>17, <1>19, <2>2 DEF Ready
<1>20. Local(scopes) = CleanupOf(scopes[D]) /\ Local(scopes') = CleanupOf(tt[D])
  BY <1>13, <1>14 DEF Local
<1>21. Grows(scopes, scopes')
  BY <1>13, <1>14, <1>16, <1>20 DEF Grows
<1>22. InLoop => Admits(i, scopes, scopes', Top.code, Base(scopes, Top.incoming))
  BY <1>4, <1>14, <1>15, <1>16, <1>17, <1>20 DEF Admits
<1>23. ASSUME NEW A, NEW G,
              \A s \in Slots : StoresTo(i, s) \/ (s \in A /\ ~TakesFrom(i, s)) => s \in G
       PROVE  /\ Sees(A, scopes, moved, D) => Sees(G, tt, now \ {n}, D)
              /\ Sees(A, scopes, moved, D) /\ Keeps(A, scopes, D) => Keeps(G, tt, D)
  <2>1. /\ Sees(A, scopes, moved, D) => Sees(G, scopes, now, D)
        /\ Sees(A, scopes, moved, D) /\ Keeps(A, scopes, D) => Keeps(G, scopes, D)
    BY <1>17, <1>23 DEF Tracks
  <2>2. y \in G
    BY <1>4, <1>15, <1>23 DEF StoresTo
  <2> QED
    BY <1>16, <2>1, <2>2
<1>24. Tracks(i, scopes, moved, scopes', moved')
  BY <1>5, <1>14, <1>23 DEF Tracks
<1>25. i.op \in {"let", "assign"} => i.to \in Slots /\ i.to \in SlotsOf(scopes', D)
  BY <1>4, <1>14, <1>15, <1>16
<1>26. Slotted(scopes', lets') /\ moved' \subseteq Names
  BY <1>5, <1>14, <1>15, <1>16, <1>17
<1> QED
  BY <1>1, <1>2, <1>5, <1>18, <1>19, <1>21, <1>22, <1>24, <1>25, <1>26, StatementInv

-----------------------------------------------------------------------------
(* Constructs.                                                             *)

LEMMA FrontOf ==
  ASSUME NEW X, NEW s \in Seq(X), s # << >>
  PROVE  /\ Front(s) \in Seq(X) /\ Len(Front(s)) = Len(s) - 1
         /\ \A e \in 1 .. Len(s) - 1 : Front(s)[e] = s[e]
<1>1. PICK n \in Int : n = Len(s) - 1 /\ n \in Nat
  OBVIOUS
<1>2. \A i \in 1 .. n : s[i] \in X
  BY <1>1
<1>3. /\ SubSeq(s, 1, n) \in Seq(X) /\ Len(SubSeq(s, 1, n)) = IF 1 <= n THEN n - 1 + 1 ELSE 0
      /\ \A i \in 1 .. n - 1 + 1 : SubSeq(s, 1, n)[i] = s[1 + i - 1]
  BY <1>1, <1>2, SubSeqProperties
<1>4. Front(s) = SubSeq(s, 1, n)
  BY <1>1 DEF Front
<1> QED
  BY <1>1, <1>3, <1>4

LEMMA Closed1 ==
  ASSUME OwnInv, frames # << >>
  PROVE  /\ Len(frames) \in 1 .. Len(frames) /\ Len(frames) \in Nat \ {0}
         /\ scopes # << >> /\ Len(scopes) = Len(frames) + 1
         /\ Last(frames) = Top /\ Top = frames[Len(frames)] /\ Top \in FrameSet
         /\ Front(scopes) \in Seq(ScopeSet) /\ Len(Front(scopes)) = Len(frames)
         /\ \A e \in 1 .. Len(frames) : Front(scopes)[e] = scopes[e]
         /\ Front(frames) \in Seq(FrameSet) /\ Len(Front(frames)) = Len(frames) - 1
         /\ \A k \in 1 .. Len(frames) - 1 : Front(frames)[k] = frames[k]
<1>1. scopes \in Seq(ScopeSet) /\ frames \in Seq(FrameSet)
  BY DEF OwnInv, OwnTypeOK
<1>2. Len(frames) \in Nat \ {0} /\ Len(frames) \in 1 .. Len(frames)
  BY <1>1
<1>3. scopes # << >> /\ Len(scopes) = Len(frames) + 1
  BY <1>1, <1>2 DEF OwnInv, Shaped
<1>4. /\ Front(scopes) \in Seq(ScopeSet) /\ Len(Front(scopes)) = Len(scopes) - 1
      /\ \A e \in 1 .. Len(scopes) - 1 : Front(scopes)[e] = scopes[e]
  BY <1>1, <1>3, FrontOf
<1>5. /\ Front(frames) \in Seq(FrameSet) /\ Len(Front(frames)) = Len(frames) - 1
      /\ \A k \in 1 .. Len(frames) - 1 : Front(frames)[k] = frames[k]
  BY <1>1, FrontOf
<1>6. Top \in FrameSet /\ Last(frames) = Top
  BY <1>1, <1>2 DEF Top, Last
<1> QED
  BY <1>1, <1>2, <1>3, <1>4, <1>5, <1>6 DEF Top

LEMMA SlottedBelow ==
  ASSUME NEW ss, NEW tt, NEW last, Slotted(ss, last), Len(tt) \in Nat, Len(ss) \in Nat,
         Len(tt) <= Len(ss), \A e \in 1 .. Len(tt) : tt[e] = ss[e]
  PROVE  Slotted(tt, last)
<1>1. \A e \in 1 .. Len(tt) : e \in 1 .. Len(ss) /\ tt[e] = ss[e]
  OBVIOUS
<1> QED
  BY <1>1 DEF Slotted

\* The end of a scope on the path, where cleanups are emitted.
LEMMA ExitHolds ==
  ASSUME OwnInv, frames # << >>, on, ~term, rt' = Exited
  PROVE  /\ rt' \in Runtime /\ ~rt'.misused
         /\ Exact(rt', SlotsOf(scopes, Len(frames)))
         /\ Certain(rt', scopes, ExitScope, Len(frames))
         /\ \A s \in Local(scopes) : ~rt'.flag[s]
<1> DEFINE D == Len(scopes)
           T == CleanupOf(scopes[D])
           m == (moved \ NamesOf(scopes[D])) \cup scopes[D].before
<1>1. /\ scopes \in Seq(ScopeSet) /\ D \in 1 .. D /\ D - 1 = Len(frames) /\ D > 1 /\ D \in 0 .. D
      /\ D - 1 \in 0 .. D /\ Last(scopes) = scopes[D]
  BY Closed1, NextScope
<1>2. /\ rt \in Runtime /\ ~rt.misused /\ Exact(rt, SlotsOf(scopes, D))
      /\ Certain(rt, scopes, moved, D) /\ Slotted(scopes, lets)
  BY DEF OwnInv, OwnTypeOK, RunHolds, Pathed
<1>3. SlotsOf(scopes, D) = SlotsOf(scopes, D - 1) \cup T
  BY <1>1, OneMore
<1>4. SlotsOf(scopes, D) \subseteq Slots
  BY <1>1, RegisteredMember
<1>5. T \subseteq Slots
  BY <1>3, <1>4
<1>6. rt' = Dropped(rt, T)
  BY <1>1 DEF Exited
<1>7. ExitScope = m
  BY <1>1 DEF ExitScope, NamesOf
<1> HIDE DEF T
<1>8. /\ rt' \in Runtime /\ ~rt'.misused /\ Exact(rt', SlotsOf(scopes, D) \ T)
      /\ \A s \in Slots : rt'.flag[s] <=> rt.flag[s] /\ s \notin T
  <2>1. PICK S : S = SlotsOf(scopes, D)
    OBVIOUS
  <2>2. Exact(rt, S)
    BY <1>2, <2>1
  <2>3. /\ Dropped(rt, T) \in Runtime /\ ~Dropped(rt, T).misused
        /\ Exact(Dropped(rt, T), S \ T)
        /\ \A s \in Slots : Dropped(rt, T).flag[s] <=> rt.flag[s] /\ s \notin T
    BY <1>2, <1>5, <2>2, DropExact
  <2> QED
    BY <1>6, <2>1, <2>3
<1>9. Exact(rt', SlotsOf(scopes, D - 1))
  <2>1. SlotsOf(scopes, D) \ T \subseteq SlotsOf(scopes, D - 1)
    BY <1>3
  <2> QED
    BY <1>8, <2>1, ExactMore
<1>10. \A s \in SlotsOf(scopes, D - 1) : s \in Flags(rt) /\ s \notin T => s \in Flags(rt')
  BY <1>8 DEF Flags
<1>11. Sees(Flags(rt'), scopes, m, D - 1) /\ Keeps(Flags(rt'), scopes, D - 1)
  BY <1>1, <1>2, <1>10, LeaveScope DEF Certain, T
<1>12. \A s \in Local(scopes) : ~rt'.flag[s]
  BY <1>5, <1>8 DEF Local, T
<1> QED
  BY <1>1, <1>7, <1>8, <1>9, <1>11, <1>12 DEF Certain

\* The end of a construct, if the run is known to hold there what is needed.
LEMMA CloseInv ==
  ASSUME OwnInv, frames # << >>,
         scopes' = Front(scopes), frames' = Front(frames), over' = over,
         size' = size, lets' = lets, moved' \subseteq Names, term' \in BOOLEAN,
         on' = (Top.wasOn /\ ~over),
         rt' \in Runtime, ~rt'.misused, over \/ ~Top.wasOn => rt' = rt,
         Top.wasOn /\ ~over =>
           /\ Exact(rt', SlotsOf(scopes, Len(frames)))
           /\ Certain(rt', scopes, moved', Len(frames)) /\ ~term'
  PROVE  OwnInv'
<1> DEFINE K == Len(frames)
<1>1. /\ K \in 1 .. K /\ K \in Nat \ {0} /\ Len(scopes) = K + 1 /\ Top = frames[K] /\ Top \in FrameSet
      /\ scopes' \in Seq(ScopeSet) /\ Len(scopes') = K
      /\ \A e \in 1 .. K : scopes'[e] = scopes[e]
      /\ frames' \in Seq(FrameSet) /\ Len(frames') = K - 1
      /\ \A k \in 1 .. K - 1 : frames'[k] = frames[k]
  BY Closed1
<1>2. frames \in Seq(FrameSet) /\ scopes \in Seq(ScopeSet) /\ Pathed /\ Shaped
  BY DEF OwnInv, OwnTypeOK
<1>3. \A k \in 1 .. K - 1 : k \in 1 .. K /\ frames[k].kind \notin Loops
  <2>1. ASSUME NEW k \in 1 .. K - 1 PROVE k \in 1 .. K /\ k # K
    BY <1>1
  <2>2. \A k \in 1 .. K : frames[k].kind \in Loops => k = K
    BY <1>2 DEF Shaped
  <2> QED
    BY <2>1, <2>2
<1>4. (frames' = << >> <=> K = 1) /\ (K # 1 => K - 1 \in 1 .. K - 1 /\ Top' = frames[K - 1])
  BY <1>1 DEF Top
<1>5. scopes' # << >>
  BY <1>1
<1>6. OwnTypeOK'
  <2>1. Top.wasOn \in BOOLEAN
    BY <1>1 DEF FrameSet
  <2>2. on' \in BOOLEAN /\ over' \in BOOLEAN
    BY <2>1 DEF OwnInv, OwnTypeOK
  <2> QED
    BY <1>1, <2>2 DEF OwnInv, OwnTypeOK
<1>7. Shaped'
  <2>1. ASSUME NEW k \in 1 .. K - 1
        PROVE  /\ frames'[k].kind \notin Loops
               /\ frames'[k].kind = "block" => frames'[k].taken = ""
               /\ frames'[k].kind \in {"then", "else"} => frames'[k].taken \in {"then", "else"}
    BY <1>1, <1>2, <1>3 DEF Shaped
  <2>2. Len(scopes') = Len(frames') + 1
    BY <1>1
  <2> QED
    BY <1>1, <1>5, <2>1, <2>2 DEF Shaped
<1>8. Slotted(scopes', lets')
  BY <1>1, SlottedBelow DEF OwnInv
<1>9. Pathed'
  <2>1. ASSUME ~over, NEW k \in 1 .. K - 1
        PROVE  frames'[k].wasOn <=> k = 1 \/ (frames'[k - 1].wasOn /\ OnBranch(frames'[k - 1]))
    <3>1. k # 1 => k - 1 \in 1 .. K - 1
      BY <1>1
    <3>2. k \in 1 .. K /\ frames'[k] = frames[k]
      BY <1>1, <1>3
    <3>3. frames[k].wasOn <=> k = 1 \/ (frames[k - 1].wasOn /\ OnBranch(frames[k - 1]))
      BY <1>1, <2>1, <3>2 DEF OwnInv, Pathed
    <3> QED
      BY <1>1, <3>1, <3>2, <3>3
  <2>2. ~over => (on' <=> K = 1 \/ (frames[K - 1].wasOn /\ OnBranch(frames[K - 1])))
    BY <1>1, <1>2 DEF Pathed
  <2>3. ~over => (on' <=> frames' = << >> \/ (Top'.wasOn /\ OnBranch(Top')))
    BY <1>4, <2>2
  <2>4. frames' # << >> => Top'.kind \notin Loops
    BY <1>3, <1>4
  <2>5. over' => ~on'
    OBVIOUS
  <2> QED
    BY <1>1, <2>1, <2>3, <2>4, <2>5 DEF Pathed
<1>10. Ending'
  <2>1. on' => ~term'
    BY <1>2 DEF Pathed
  <2>2. frames' # << >> => Top'.kind # "again"
    BY <1>3, <1>4 DEF Loops
  <2>3. \A k \in 1 .. K - 1 :
          frames'[k].kind = "else" /\ frames'[k].wasOn /\ frames'[k].taken = "then" /\ ~frames'[k].falls
            => over
    BY <1>1, <1>3 DEF OwnInv, Ending
  <2> QED
    BY <1>1, <2>1, <2>2, <2>3 DEF Ending
<1>11. RunHolds'
  <2>1. over => \A v \in 1 .. Len(rt'.fate) : rt'.fate[v] # "live"
    BY DEF OwnInv, RunHolds
  <2>2. ASSUME on', ~over
        PROVE  Exact(rt', SlotsOf(scopes', K)) /\ Certain(rt', scopes', moved', K)
    <3>1. SlotsOf(scopes', K) = SlotsOf(scopes, K)
      BY <1>1, SameBelow
    <3>2. \A A, m : (Sees(A, scopes', m, K) <=> Sees(A, scopes, m, K))
                    /\ (Keeps(A, scopes', K) <=> Keeps(A, scopes, K))
      BY <1>1, Below
    <3> QED
      BY <2>2, <3>1, <3>2 DEF Certain
  <2>3. ASSUME ~over, NEW k \in 1 .. K - 1, Skipped(frames'[k])
        PROVE  Exact(rt', SlotsOf(scopes', k)) /\ Certain(rt', scopes', View(frames'[k]), k)
    <3>1. frames'[k] = frames[k] /\ k \in 1 .. K
      BY <1>1, <1>3
    <3>2. ~Top.wasOn
      <4> SUFFICES ASSUME Top.wasOn PROVE FALSE
        OBVIOUS
      <4>1. PICK n \in 1 .. Len(frames) : n = K /\ frames[n].wasOn
        BY <1>1
      <4>2. frames[k].wasOn /\ OnBranch(frames[k])
        BY <1>2, <2>3, <4>1, PathTo
      <4> QED
        BY <2>3, <3>1, <4>2 DEF Skipped
    <3>3. rt' = rt
      BY <3>2
    <3>4. Exact(rt, SlotsOf(scopes, k)) /\ Certain(rt, scopes, View(frames[k]), k)
      BY <2>3, <3>1 DEF OwnInv, RunHolds
    <3>5. k \in Nat /\ \A e \in 1 .. k : scopes'[e] = scopes[e]
      BY <1>1
    <3>6. SlotsOf(scopes', k) = SlotsOf(scopes, k)
      BY <3>5, SameBelow
    <3>7. \A A, m : (Sees(A, scopes', m, k) <=> Sees(A, scopes, m, k))
                    /\ (Keeps(A, scopes', k) <=> Keeps(A, scopes, k))
      BY <3>5, Below
    <3> QED
      BY <3>1, <3>3, <3>4, <3>6, <3>7 DEF Certain
  <2> QED
    BY <1>1, <2>1, <2>2, <2>3 DEF RunHolds
<1>12. LoopHolds'
  BY <1>3, <1>4 DEF LoopHolds
<1> QED
  BY <1>6, <1>7, <1>8, <1>9, <1>10, <1>11, <1>12 DEF OwnInv

\* What holds at the end of a branch or block, on the path or off it.
LEMMA ExitFacts ==
  ASSUME OwnInv, frames # << >>, rt' = Exited, Top.kind \notin Loops
  PROVE  /\ rt' \in Runtime /\ ~rt'.misused /\ moved \subseteq Names /\ ExitScope \subseteq Names
         /\ Top \in FrameSet /\ Last(frames) = Top
         /\ over \/ ~Top.wasOn => rt' = rt
         /\ on = (Top.wasOn /\ OnBranch(Top) /\ ~over)
         /\ on => /\ ~term /\ Exact(rt', SlotsOf(scopes, Len(frames)))
                  /\ Certain(rt', scopes, ExitScope, Len(frames))
         /\ Top.wasOn /\ ~over /\ ~on =>
              /\ Skipped(Top) /\ rt' = rt /\ Exact(rt', SlotsOf(scopes, Len(frames)))
              /\ Certain(rt', scopes, View(Top), Len(frames))
<1>1. /\ Len(frames) \in 1 .. Len(frames) /\ Top = frames[Len(frames)] /\ Top \in FrameSet
      /\ Last(frames) = Top /\ scopes # << >>
  BY Closed1
<1>2. /\ moved \subseteq Names /\ rt \in Runtime /\ on \in BOOLEAN /\ over \in BOOLEAN
      /\ Top.wasOn \in BOOLEAN
  BY <1>1 DEF OwnInv, OwnTypeOK, FrameSet
<1>3. ExitScope \subseteq Names
  <2>1. scopes[Len(scopes)] \in ScopeSet /\ Last(scopes) = scopes[Len(scopes)]
    BY <1>1, NextScope
  <2> QED
    BY <1>2, <2>1 DEF ExitScope, ScopeSet
<1>4. on = (Top.wasOn /\ OnBranch(Top) /\ ~over)
  BY <1>1, <1>2 DEF OwnInv, Pathed, OnBranch
<1>5. ~on => rt' = rt
  BY DEF Exited
<1>6. on => ~term
  BY DEF OwnInv, Ending
<1>7. on => /\ rt' \in Runtime /\ ~rt'.misused /\ Exact(rt', SlotsOf(scopes, Len(frames)))
            /\ Certain(rt', scopes, ExitScope, Len(frames))
  BY <1>6, ExitHolds
<1>8. ~rt.misused
  BY DEF OwnInv, RunHolds
<1>9. ASSUME Top.wasOn, ~over, ~on
      PROVE  /\ Skipped(Top) /\ Exact(rt, SlotsOf(scopes, Len(frames)))
             /\ Certain(rt, scopes, View(Top), Len(frames))
  <2>1. Skipped(Top)
    BY <1>4, <1>9 DEF Skipped
  <2> QED
    BY <1>1, <1>9, <2>1 DEF OwnInv, RunHolds
<1>10. rt' \in Runtime /\ ~rt'.misused
  BY <1>2, <1>5, <1>7, <1>8
<1>11. over \/ ~Top.wasOn => rt' = rt
  BY <1>4, <1>5
<1>12. on => /\ ~term /\ Exact(rt', SlotsOf(scopes, Len(frames)))
             /\ Certain(rt', scopes, ExitScope, Len(frames))
  BY <1>6, <1>7
<1>13. Top.wasOn /\ ~over /\ ~on =>
         /\ Skipped(Top) /\ rt' = rt /\ Exact(rt', SlotsOf(scopes, Len(frames)))
         /\ Certain(rt', scopes, View(Top), Len(frames))
  BY <1>5, <1>9
<1> QED
  BY <1>1, <1>2, <1>3, <1>4, <1>10, <1>11, <1>12, <1>13

LEMMA CertainMore ==
  ASSUME NEW ss \in Seq(ScopeSet), NEW d \in 0 .. Len(ss), NEW r, NEW m, NEW w,
         Certain(r, ss, m, d), m \subseteq w
  PROVE  Certain(r, ss, w, d)
  BY SeesMore DEF Certain

LEMMA EndBlockInv ==
  ASSUME OwnInv, EndBlock
  PROVE  OwnInv'
<1>1. /\ frames # << >> /\ Last(frames).kind = "block" /\ rt' = Exited
      /\ size' = size /\ lets' = lets /\ over' = over /\ moved' = ExitScope
      /\ scopes' = Front(scopes) /\ frames' = Front(frames) /\ term' = term /\ on' = on
  BY DEF EndBlock, Closing
<1>2. Top.kind = "block" /\ Top.kind \notin Loops /\ OnBranch(Top)
  BY <1>1, Closed1 DEF Loops, OnBranch
<1>3. /\ rt' \in Runtime /\ ~rt'.misused /\ ExitScope \subseteq Names
      /\ (over \/ ~Top.wasOn => rt' = rt) /\ on = (Top.wasOn /\ OnBranch(Top) /\ ~over)
      /\ on => /\ ~term /\ Exact(rt', SlotsOf(scopes, Len(frames)))
               /\ Certain(rt', scopes, ExitScope, Len(frames))
  BY <1>1, <1>2, ExitFacts
<1>4. on' = (Top.wasOn /\ ~over) /\ term' \in BOOLEAN
  BY <1>1, <1>2, <1>3 DEF OwnInv, OwnTypeOK
<1> QED
  BY <1>1, <1>2, <1>3, <1>4, CloseInv

LEMMA EndThenInv ==
  ASSUME OwnInv, EndThen
  PROVE  OwnInv'
<1>1. /\ frames # << >> /\ Last(frames).kind = "then" /\ rt' = Exited
      /\ size' = size /\ lets' = lets /\ over' = over
      /\ scopes' = Front(scopes) /\ frames' = Front(frames) /\ term' = FALSE
  BY DEF EndThen, Closing
<1>2. Top.kind = "then" /\ Top.kind \notin Loops /\ Last(frames) = Top
  BY <1>1, Closed1 DEF Loops
<1>3. /\ rt' \in Runtime /\ ~rt'.misused /\ ExitScope \subseteq Names /\ Top \in FrameSet
      /\ over \/ ~Top.wasOn => rt' = rt
  BY <1>1, <1>2, ExitFacts
<1>4. /\ moved' = (IF ~term THEN ExitScope ELSE {}) \cup Top.incoming
      /\ on' = (Top.wasOn /\ ~over)
  BY <1>2 DEF EndThen, Merged
<1>5. moved' \subseteq Names
  BY <1>3, <1>4 DEF FrameSet
<1>6. scopes \in Seq(ScopeSet) /\ Len(frames) \in 0 .. Len(scopes)
  BY <1>1, Closed1 DEF OwnInv, OwnTypeOK
<1>7. ASSUME Top.wasOn, ~over
      PROVE  Exact(rt', SlotsOf(scopes, Len(frames))) /\ Certain(rt', scopes, moved', Len(frames))
  <2>1. CASE on
    <3>1. /\ ~term /\ Exact(rt', SlotsOf(scopes, Len(frames)))
          /\ Certain(rt', scopes, ExitScope, Len(frames))
      BY <1>1, <1>2, <2>1, ExitFacts
    <3>2. ExitScope \subseteq moved'
      BY <1>4, <3>1
    <3> QED
      BY <1>6, <3>1, <3>2, CertainMore
  <2>2. CASE ~on
    <3>1. Exact(rt', SlotsOf(scopes, Len(frames))) /\ Certain(rt', scopes, View(Top), Len(frames))
      BY <1>1, <1>2, <1>7, <2>2, ExitFacts
    <3>2. View(Top) \subseteq moved'
      BY <1>2, <1>4 DEF View
    <3> QED
      BY <1>6, <3>1, <3>2, CertainMore
  <2> QED
    BY <2>1, <2>2
<1> QED
  BY <1>1, <1>3, <1>4, <1>5, <1>7, CloseInv

LEMMA EndElseInv ==
  ASSUME OwnInv, EndElse
  PROVE  OwnInv'
<1>1. /\ frames # << >> /\ Last(frames).kind = "else" /\ rt' = Exited
      /\ size' = size /\ lets' = lets /\ over' = over
      /\ scopes' = Front(scopes) /\ frames' = Front(frames)
  BY DEF EndElse, Closing
<1>2. Top.kind = "else" /\ Top.kind \notin Loops /\ Last(frames) = Top
      /\ Len(frames) \in 1 .. Len(frames) /\ Top = frames[Len(frames)]
  BY <1>1, Closed1 DEF Loops
<1>3. /\ rt' \in Runtime /\ ~rt'.misused /\ ExitScope \subseteq Names /\ Top \in FrameSet
      /\ over \/ ~Top.wasOn => rt' = rt
  BY <1>1, <1>2, ExitFacts
<1>4. /\ moved' = Merged(Top.thenMoved, Top.falls, ExitScope, ~term, Top.incoming)
      /\ on' = (Top.wasOn /\ ~over) /\ term' = (term /\ ~Top.falls)
  BY <1>2 DEF EndElse
<1>5. moved' \subseteq Names /\ term' \in BOOLEAN
  BY <1>3, <1>4 DEF FrameSet, Merged
<1>6. scopes \in Seq(ScopeSet) /\ Len(frames) \in 0 .. Len(scopes)
  BY <1>1, Closed1 DEF OwnInv, OwnTypeOK
<1>7. ASSUME Top.wasOn, ~over
      PROVE  /\ Exact(rt', SlotsOf(scopes, Len(frames)))
             /\ Certain(rt', scopes, moved', Len(frames)) /\ ~term'
  <2>1. CASE on
    <3>1. /\ ~term /\ Exact(rt', SlotsOf(scopes, Len(frames)))
          /\ Certain(rt', scopes, ExitScope, Len(frames))
      BY <1>1, <1>2, <2>1, ExitFacts
    <3>2. ExitScope \subseteq moved' /\ ~term'
      BY <1>4, <3>1 DEF Merged
    <3> QED
      BY <1>6, <3>1, <3>2, CertainMore
  <2>2. CASE ~on
    <3>1. /\ Exact(rt', SlotsOf(scopes, Len(frames))) /\ Skipped(Top)
          /\ Certain(rt', scopes, View(Top), Len(frames))
      BY <1>1, <1>2, <1>7, <2>2, ExitFacts
    <3>2. Top.taken \in {"then", "else"}
      BY <1>2 DEF OwnInv, Shaped
    <3>3. Top.taken = "then"
      BY <1>2, <3>1, <3>2 DEF Skipped, OnBranch
    <3>4. Top.falls
      BY <1>2, <1>7, <3>3 DEF OwnInv, Ending
    <3>5. View(Top) \subseteq moved' /\ ~term'
      BY <1>2, <1>4, <3>4 DEF View, Merged
    <3> QED
      BY <1>6, <3>1, <3>5, CertainMore
  <2> QED
    BY <2>1, <2>2
<1> QED
  BY <1>1, <1>3, <1>4, <1>5, <1>7, CloseInv

LEMMA EndWhileInv ==
  ASSUME OwnInv, EndWhile
  PROVE  OwnInv'
<1> DEFINE K == Len(frames)
<1>1. /\ frames # << >> /\ Last(frames).kind = "again" /\ rt' = rt
      /\ size' = size /\ lets' = lets /\ over' = over
      /\ scopes' = Front(scopes) /\ frames' = Front(frames) /\ term' = FALSE
      /\ on => Last(frames).taken = 1
  BY DEF EndWhile
<1>2. /\ Top.kind = "again" /\ Top.kind \in Loops /\ Last(frames) = Top
      /\ K \in 1 .. K /\ Top = frames[K] /\ Top \in FrameSet
      /\ Len(scopes) = K + 1 /\ scopes # << >> /\ K \in Nat
  BY <1>1, Closed1 DEF Loops
<1>3. /\ moved' = Top.incoming \cup Top.exits \cup (IF Top.falls THEN ExitScope ELSE {})
      /\ on' = Top.wasOn
  BY <1>2 DEF EndWhile
<1>4. /\ scopes \in Seq(ScopeSet) /\ K \in 0 .. Len(scopes) /\ moved \subseteq Names
      /\ rt \in Runtime /\ ~rt.misused /\ over \in BOOLEAN /\ Top.wasOn \in BOOLEAN
  <2>1. scopes \in Seq(ScopeSet) /\ moved \subseteq Names /\ rt \in Runtime /\ over \in BOOLEAN
    BY DEF OwnInv, OwnTypeOK
  <2>2. ~rt.misused
    BY DEF OwnInv, RunHolds
  <2>3. Top.wasOn \in BOOLEAN
    BY <1>2 DEF FrameSet
  <2>4. K \in 0 .. Len(scopes)
    BY <1>2
  <2> QED
    BY <2>1, <2>2, <2>3, <2>4
<1>5. ExitScope \subseteq Names
  <2>1. scopes[Len(scopes)] \in ScopeSet /\ Last(scopes) = scopes[Len(scopes)]
    BY <1>2, NextScope
  <2> QED
    BY <1>4, <2>1 DEF ExitScope, ScopeSet
<1>6. moved' \subseteq Names
  BY <1>2, <1>3, <1>5 DEF FrameSet
<1>7. on' = (Top.wasOn /\ ~over)
  BY <1>1, <1>2, <1>3, <1>4 DEF OwnInv, Pathed
<1>8. ASSUME Top.wasOn, ~over
      PROVE  Exact(rt, SlotsOf(scopes, K)) /\ Certain(rt, scopes, moved', K)
  <2>1. Certain(rt, scopes, Top.incoming, Len(scopes) - 1)
    BY <1>1, <1>2, <1>8 DEF OwnInv, LoopHolds
  <2>2. Len(scopes) - 1 = K
    BY <1>2
  <2>3. Certain(rt, scopes, moved', K)
    BY <1>3, <1>4, <2>1, <2>2, CertainMore
  <2>4. CASE on
    <3>1. Top.taken = 1
      BY <1>1, <1>2, <2>4
    <3>2. Top.at = 1 /\ Replays(rt, Top.code, Top.at, Local(scopes))
      BY <1>1, <1>2, <2>4, <3>1 DEF OwnInv, LoopHolds
    <3>3. \A s \in Local(scopes) : ~rt.flag[s]
      BY <3>2 DEF Replays
    <3>4. Exact(rt, SlotsOf(scopes, Len(scopes)))
      BY <1>8, <2>4 DEF OwnInv, RunHolds
    <3>5. SlotsOf(scopes, Len(scopes)) = SlotsOf(scopes, K) \cup Local(scopes)
      <4>1. Len(scopes) \in 1 .. Len(scopes)
        BY <1>2
      <4> QED
        BY <1>4, <2>2, <4>1, OneMore DEF Local
    <3>6. Exact(rt, SlotsOf(scopes, K))
      BY <3>3, <3>4, <3>5 DEF Exact
    <3> QED
      BY <2>3, <3>6
  <2>5. CASE ~on
    <3>1. Skipped(Top)
      BY <1>1, <1>8, <2>5 DEF OwnInv, Pathed, Skipped
    <3> QED
      BY <1>2, <1>8, <2>3, <3>1 DEF OwnInv, RunHolds
  <2> QED
    BY <2>4, <2>5
<1> QED
  BY <1>1, <1>4, <1>6, <1>7, <1>8, CloseInv

\* Nothing but a loop is open after its loop.
LEMMA NoLoop ==
  ASSUME OwnInv, ~term, MayNest
  PROVE  /\ \A k \in 1 .. Len(frames) : frames[k].kind \notin Loops
         /\ frames # << >> => Top.kind \notin Loops
<1>1. frames # << >> => Top.kind \notin Loops
  <2>1. frames # << >> => Last(frames) = Top
    BY Closed1
  <2> QED
    BY <2>1 DEF MayNest, InLoop, OwnInv, Ending, Loops
<1>2. ASSUME NEW k \in 1 .. Len(frames), frames[k].kind \in Loops PROVE FALSE
  <2>1. k = Len(frames)
    BY <1>2 DEF OwnInv, Shaped
  <2>2. frames # << >> /\ Top = frames[k]
    BY <1>2, <2>1 DEF OwnInv, OwnTypeOK, Top
  <2> QED
    BY <1>1, <1>2, <2>2
<1> QED
  BY <1>1, <1>2

\* A construct g is opened in an empty scope.
Opened(g) ==
  /\ g \in FrameSet /\ g.kind \in {"block", "then", "while"}
  /\ g.kind = "block" => g.taken = ""
  /\ g.kind = "then" => g.taken \in {"then", "else"}
  /\ g.kind = "while" => g.taken \in Nat
  /\ g.incoming = moved /\ g.wasOn = on /\ g.code = << >> /\ g.at = 1
  /\ frames' = Append(frames, g) /\ scopes' = Append(scopes, EmptyScope)
  /\ on' = (on /\ OnBranch(g))

LEMMA OpenInv ==
  ASSUME OwnInv, ~term, MayNest, size < MaxSize, size' = size + 1, NEW g, Opened(g),
         moved' = moved, term' = term, lets' = lets, over' = over, rt' = rt
  PROVE  OwnInv'
<1>a. /\ g \in FrameSet /\ g.kind \in {"block", "then", "while"}
      /\ g.kind = "block" => g.taken = ""
      /\ g.kind = "then" => g.taken \in {"then", "else"}
      /\ g.kind = "while" => g.taken \in Nat
      /\ g.incoming = moved /\ g.wasOn = on /\ g.code = << >> /\ g.at = 1
      /\ on' = (on /\ OnBranch(g))
  BY DEF Opened
<1>b. scopes # << >> /\ scopes \in Seq(ScopeSet) /\ frames \in Seq(FrameSet)
  <2>1. scopes # << >>
    BY InScope
  <2> QED
    BY <2>1, NextScope
<1>c. PICK K \in Nat : K = Len(frames)
  BY <1>b
<1>d. PICK D \in Nat : D = K + 1
  BY <1>c
<1>1. K \in Nat /\ D \in Nat /\ K = Len(frames) /\ D = K + 1 /\ D = Len(scopes)
  BY <1>b, <1>c, <1>d, NextScope
<1>2. /\ frames' \in Seq(FrameSet) /\ Len(frames') = D /\ frames'[D] = g
      /\ \A k \in 1 .. K : frames'[k] = frames[k]
  <2>1. frames' = Append(frames, g)
    BY DEF Opened
  <2>2. /\ Append(frames, g) \in Seq(FrameSet) /\ Len(Append(frames, g)) = Len(frames) + 1
        /\ Append(frames, g)[Len(frames) + 1] = g
        /\ \A k \in 1 .. Len(frames) : Append(frames, g)[k] = frames[k]
    <3>1. g \in FrameSet
      BY <1>a
    <3> QED
      BY <1>b, <3>1, AppendProperties
  <2>3. Len(frames) + 1 = D /\ Len(frames) = K
    BY <1>1
  <2> QED
    BY <2>1, <2>2, <2>3, Zenon
<1>3. EmptyScope \in ScopeSet
  BY DEF EmptyScope, ScopeSet
<1>4. /\ scopes' \in Seq(ScopeSet) /\ Len(scopes') = D + 1 /\ scopes'[D + 1] = EmptyScope
      /\ \A e \in 1 .. D : scopes'[e] = scopes[e]
  <2>1. scopes' = Append(scopes, EmptyScope)
    BY DEF Opened
  <2>2. /\ Append(scopes, EmptyScope) \in Seq(ScopeSet)
        /\ Len(Append(scopes, EmptyScope)) = Len(scopes) + 1
        /\ Append(scopes, EmptyScope)[Len(scopes) + 1] = EmptyScope
        /\ \A k \in 1 .. Len(scopes) : Append(scopes, EmptyScope)[k] = scopes[k]
    BY <1>b, <1>3, AppendProperties
  <2>3. Len(scopes) = D
    BY <1>1
  <2> QED
    BY <2>1, <2>2, <2>3, Zenon
<1>5. frames' # << >> /\ scopes' # << >> /\ Top' = g /\ Len(scopes') - 1 = D
  BY <1>1, <1>2, <1>4 DEF Top
<1>6. \A k \in 1 .. D : k = D \/ k \in 1 .. K
  BY <1>1
<1>7. \A k \in 1 .. K : frames[k].kind \notin Loops
  BY <1>1, NoLoop
<1>8. /\ SlotsOf(scopes', D + 1) = SlotsOf(scopes, D)
      /\ \A n : SlotAt(scopes', D + 1, n) = SlotAt(scopes, D, n)
      /\ \A A, m : /\ Sees(A, scopes, m, D) => Sees(A, scopes', m, D + 1)
                   /\ Keeps(A, scopes, D) => Keeps(A, scopes', D + 1)
      /\ \A last : Slotted(scopes, last) => Slotted(scopes', last)
  <2>1. D <= Len(scopes) /\ \A e \in 1 .. D : scopes[e] = scopes'[e]
    BY <1>1, <1>4
  <2> QED
    BY <1>b, <1>1, <1>4, <2>1, AddEmpty
<1>9. /\ moved \subseteq Names /\ on \in BOOLEAN /\ over \in BOOLEAN /\ term' = FALSE
      /\ rt \in Runtime /\ size' \in 0 .. MaxSize /\ lets' \in 0 .. size'
  <2>1. size' \in 0 .. MaxSize /\ lets' \in 0 .. size'
    BY OwnershipAssumption DEF OwnInv, OwnTypeOK
  <2> QED
    BY <2>1 DEF OwnInv, OwnTypeOK
<1>10. on' \in BOOLEAN /\ (on' <=> on /\ OnBranch(g))
  BY <1>a
<1>11. OwnTypeOK'
  <2>1. on' \in BOOLEAN
    BY <1>a, <1>9, <1>10
  <2> QED
    BY <1>2, <1>4, <1>9, <2>1 DEF OwnTypeOK
<1>12. Shaped'
  <2>1. ASSUME NEW k \in 1 .. D
        PROVE  /\ frames'[k].kind \in Loops => k = D /\ frames'[k].taken \in Nat
               /\ frames'[k].kind = "block" => frames'[k].taken = ""
               /\ frames'[k].kind \in {"then", "else"} => frames'[k].taken \in {"then", "else"}
    <3>1. CASE k = D
      BY <1>a, <1>2, <3>1 DEF Loops
    <3>2. CASE k \in 1 .. K
      BY <1>1, <1>2, <1>7, <3>2 DEF OwnInv, Shaped
    <3> QED
      BY <1>6, <3>1, <3>2
  <2>2. Len(scopes') = Len(frames') + 1
    BY <1>1, <1>2, <1>4
  <2> QED
    BY <1>2, <1>5, <2>1, <2>2 DEF Shaped
<1>13. Slotted(scopes', lets')
  BY <1>8 DEF OwnInv
<1>14. over => ~on
  BY DEF OwnInv, Pathed
<1>15. Pathed'
  <2>1. ASSUME ~over, NEW k \in 1 .. D
        PROVE  frames'[k].wasOn <=> k = 1 \/ (frames'[k - 1].wasOn /\ OnBranch(frames'[k - 1]))
    <3>1. CASE k = D
      <4>1. on <=> frames = << >> \/ (Top.wasOn /\ OnBranch(Top))
        BY <2>1 DEF OwnInv, Pathed
      <4>2. CASE K = 0
        <5>1. Len(frames) = 0 /\ k = 1
          BY <1>1, <3>1, <4>2
        <5>2. frames = << >>
          BY <1>b, <5>1
        <5> QED
          BY <1>a, <1>2, <3>1, <4>1, <5>1, <5>2
      <4>3. CASE K # 0
        <5>1. K \in 1 .. K /\ k - 1 = K /\ k # 1 /\ frames # << >>
          BY <1>b, <1>1, <3>1, <4>3
        <5>2. frames'[k - 1] = Top
          BY <1>1, <1>2, <5>1 DEF Top
        <5> QED
          BY <1>a, <1>2, <3>1, <4>1, <5>1, <5>2
      <4> QED
        BY <4>2, <4>3
    <3>2. CASE k \in 1 .. K
      <4>1. k # 1 => k - 1 \in 1 .. K
        BY <1>1, <3>2
      <4>2. frames[k].wasOn <=> k = 1 \/ (frames[k - 1].wasOn /\ OnBranch(frames[k - 1]))
        BY <1>1, <2>1, <3>2 DEF OwnInv, Pathed
      <4> QED
        BY <1>2, <3>2, <4>1, <4>2
    <3> QED
      BY <1>6, <3>1, <3>2
  <2>2. over => ~on' /\ ~Top'.wasOn
    BY <1>a, <1>5, <1>14
  <2>3. on' <=> frames' = << >> \/ (Top'.wasOn /\ OnBranch(Top'))
    BY <1>a, <1>5, <1>9, <1>10
  <2> QED
    BY <1>2, <2>1, <2>2, <2>3 DEF Pathed
<1>16. Ending'
  <2>1. ASSUME NEW k \in 1 .. D, frames'[k].kind = "else", frames'[k].wasOn,
               frames'[k].taken = "then", ~frames'[k].falls
        PROVE  over
    <3>1. k \in 1 .. K
      BY <1>a, <1>2, <1>6, <2>1
    <3> QED
      BY <1>1, <1>2, <2>1, <3>1 DEF OwnInv, Ending
  <2>2. Top'.kind # "again"
    BY <1>a, <1>5
  <2> QED
    BY <1>2, <1>9, <2>1, <2>2 DEF Ending
<1>17. \A k \in Nat : k <= D =>
         /\ SlotsOf(scopes', k) = SlotsOf(scopes, k)
         /\ \A n : SlotAt(scopes', k, n) = SlotAt(scopes, k, n)
         /\ \A r, m : Certain(r, scopes', m, k) <=> Certain(r, scopes, m, k)
  <2>1. ASSUME NEW k \in Nat, k <= D
        PROVE  /\ SlotsOf(scopes', k) = SlotsOf(scopes, k)
               /\ \A n : SlotAt(scopes', k, n) = SlotAt(scopes, k, n)
               /\ \A r, m : Certain(r, scopes', m, k) <=> Certain(r, scopes, m, k)
    <3>1. \A e \in 1 .. k : scopes'[e] = scopes[e]
      BY <1>1, <1>4, <2>1
    <3>2. /\ SlotsOf(scopes', k) = SlotsOf(scopes, k)
          /\ \A n : SlotAt(scopes', k, n) = SlotAt(scopes, k, n)
      BY <3>1, SameBelow
    <3>3. \A A, m : (Sees(A, scopes', m, k) <=> Sees(A, scopes, m, k))
                    /\ (Keeps(A, scopes', k) <=> Keeps(A, scopes, k))
      BY <3>1, Below
    <3> QED
      BY <3>2, <3>3 DEF Certain
  <2> QED
    BY <2>1
<1>18. on => ~over /\ Exact(rt, SlotsOf(scopes, D)) /\ Certain(rt, scopes, moved, D)
  BY <1>1, <1>14 DEF OwnInv, RunHolds
<1>19. RunHolds'
  <2>1. ~rt.misused /\ (over => \A v \in 1 .. Len(rt.fate) : rt.fate[v] # "live")
    BY DEF OwnInv, RunHolds
  <2>2. on' => Exact(rt, SlotsOf(scopes', D + 1)) /\ Certain(rt, scopes', moved, D + 1)
    BY <1>a, <1>8, <1>18 DEF Certain
  <2>3. ASSUME ~over, NEW k \in 1 .. D, Skipped(frames'[k])
        PROVE  Exact(rt, SlotsOf(scopes', k)) /\ Certain(rt, scopes', View(frames'[k]), k)
    <3>1. k \in Nat /\ k <= D
      BY <1>1
    <3>2. CASE k = D
      <4>1. on /\ View(g) = moved 
        BY <1>a, <1>2, <2>3, <3>2 DEF Skipped, View
      <4> QED
        BY <1>2, <1>17, <1>18, <3>1, <3>2, <4>1
    <3>3. CASE k \in 1 .. K
      <4>1. Skipped(frames[k]) /\ frames'[k] = frames[k]
        BY <1>2, <2>3, <3>3
      <4>2. Exact(rt, SlotsOf(scopes, k)) /\ Certain(rt, scopes, View(frames[k]), k)
        BY <1>1, <2>3, <3>3, <4>1 DEF OwnInv, RunHolds
      <4> QED
        BY <1>17, <3>1, <4>1, <4>2
    <3> QED
      BY <1>6, <3>2, <3>3
  <2> QED
    BY <1>2, <1>4, <2>1, <2>2, <2>3 DEF RunHolds
<1>20. LoopHolds'
  <2> SUFFICES ASSUME g.kind = "while"
               PROVE  /\ g.wasOn /\ ~over => Certain(rt, scopes', g.incoming, D)
                      /\ Legal(g.code, scopes', Base(scopes', g.incoming))
                      /\ g.at = 1
                      /\ Sure(g.code, scopes', moved, Base(scopes', g.incoming))
    <3>1. g.kind \in Loops => g.kind = "while"
      BY <1>a DEF Loops
    <3>2. ~term'
      BY <1>9
    <3> QED
      BY <1>5, <3>1, <3>2 DEF LoopHolds
  <2>1. g.wasOn => Certain(rt, scopes', g.incoming, D)
    BY <1>a, <1>1, <1>17, <1>18
  <2>2. Legal(g.code, scopes', Base(scopes', g.incoming))
    BY <1>a DEF Legal
  <2>3. ASSUME NEW n \in Names \ moved, SlotAt(scopes', D + 1, n) # 0
        PROVE  SlotAt(scopes', D + 1, n) \in Base(scopes', moved)
    <3>1. SlotAt(scopes', D + 1, n) = SlotAt(scopes', D, n)
      BY <1>1, <1>8, <1>17
    <3> QED
      BY <1>5, <2>3, <3>1 DEF Base
  <2>4. Sure(g.code, scopes', moved, Base(scopes', g.incoming))
    BY <1>a, <1>4, <2>3 DEF Sure, Sees
  <2> QED
    BY <1>a, <2>1, <2>2, <2>4
<1> QED
  BY <1>11, <1>12, <1>13, <1>15, <1>16, <1>19, <1>20 DEF OwnInv

LEMMA OneFirst == 1 \in Nat \ {0}
  OBVIOUS

LEMMA NewFrame ==
  ASSUME OwnInv, NEW kind \in {"block", "then", "else"} \cup Loops,
         NEW taken \in Nat \cup {"", "then", "else"}
  PROVE  LET g == Frame(kind, taken)
         IN  /\ g \in FrameSet /\ g.kind = kind /\ g.taken = taken /\ g.incoming = moved
             /\ g.wasOn = on /\ g.code = << >> /\ g.at = 1
<1>1. moved \in SUBSET Names /\ on \in BOOLEAN
  BY DEF OwnInv, OwnTypeOK
<1>2. /\ << >> \in Seq(Code) /\ {} \in SUBSET Names /\ 1 \in Nat \ {0}
      /\ FALSE \in BOOLEAN
  <2>1. << >> \in Seq(Code)
    BY EmptySeq
  <2>2. {} \in SUBSET Names
    OBVIOUS
  <2>3. 1 \in Nat \ {0}
    BY OneFirst
  <2>4. FALSE \in BOOLEAN
    BY Zenon
  <2> QED
    BY <2>1, <2>2, <2>3, <2>4
<1> QED
  BY <1>1, <1>2 DEF Frame, FrameSet

LEMMA BlockInv ==
  ASSUME OwnInv, Block
  PROVE  OwnInv'
<1>1. /\ ~term /\ size < MaxSize /\ size' = size + 1 /\ MayNest
      /\ frames' = Append(frames, Frame("block", "")) /\ scopes' = Append(scopes, EmptyScope)
      /\ moved' = moved /\ term' = term /\ lets' = lets /\ over' = over /\ rt' = rt /\ on' = on
  BY DEF Block, Open, Statement
<1>2. PICK g : g = Frame("block", "")
  OBVIOUS
<1>3. /\ g \in FrameSet /\ g.kind = "block" /\ g.taken = "" /\ g.incoming = moved
      /\ g.wasOn = on /\ g.code = << >> /\ g.at = 1
  <2>1. "block" \in {"block", "then", "else"} \cup Loops
    BY DEF Loops
  <2>2. "" \in Nat \cup {"", "then", "else"}
    OBVIOUS
  <2> QED
    BY <1>2, <2>1, <2>2, NewFrame, Zenon
<1>4. on' = (on /\ OnBranch(g))
  BY <1>1, <1>3 DEF OnBranch, Loops, OwnInv, OwnTypeOK
<1>5. Opened(g)
  BY <1>1, <1>2, <1>3, <1>4 DEF Opened
<1> QED
  BY <1>1, <1>5, OpenInv

LEMMA IfInv ==
  ASSUME OwnInv, NEW taken \in {"then", "else"}, If(taken)
  PROVE  OwnInv'
<1>1. /\ ~term /\ size < MaxSize /\ size' = size + 1 /\ MayNest
      /\ frames' = Append(frames, Frame("then", taken)) /\ scopes' = Append(scopes, EmptyScope)
      /\ moved' = moved /\ term' = term /\ lets' = lets /\ over' = over /\ rt' = rt
      /\ on' = (on /\ taken = "then")
  BY DEF If, Open, Statement
<1>2. PICK g : g = Frame("then", taken)
  OBVIOUS
<1>3. /\ g \in FrameSet /\ g.kind = "then" /\ g.taken = taken /\ g.incoming = moved
      /\ g.wasOn = on /\ g.code = << >> /\ g.at = 1
  <2>1. "then" \in {"block", "then", "else"} \cup Loops
    BY DEF Loops
  <2>2. taken \in Nat \cup {"", "then", "else"}
    OBVIOUS
  <2> QED
    BY <1>2, <2>1, <2>2, NewFrame, Zenon
<1>4. on' = (on /\ OnBranch(g))
  BY <1>1, <1>3 DEF OnBranch, Loops, OwnInv, OwnTypeOK
<1>5. Opened(g)
  BY <1>1, <1>2, <1>3, <1>4 DEF Opened
<1> QED
  BY <1>1, <1>5, OpenInv

LEMMA WhileInv ==
  ASSUME OwnInv, NEW rounds \in Nat, While(rounds)
  PROVE  OwnInv'
<1>1. /\ ~term /\ size < MaxSize /\ size' = size + 1 /\ MayNest
      /\ frames' = Append(frames, Frame("while", rounds)) /\ scopes' = Append(scopes, EmptyScope)
      /\ moved' = moved /\ term' = term /\ lets' = lets /\ over' = over /\ rt' = rt
      /\ on' = (on /\ rounds > 0)
  BY DEF While, Open, Statement
<1>2. PICK g : g = Frame("while", rounds)
  OBVIOUS
<1>3. /\ g \in FrameSet /\ g.kind = "while" /\ g.taken = rounds /\ g.incoming = moved
      /\ g.wasOn = on /\ g.code = << >> /\ g.at = 1
  <2>1. "while" \in {"block", "then", "else"} \cup Loops
    BY DEF Loops
  <2>2. rounds \in Nat \cup {"", "then", "else"}
    OBVIOUS
  <2> QED
    BY <1>2, <2>1, <2>2, NewFrame, Zenon
<1>4. on' = (on /\ OnBranch(g))
  BY <1>1, <1>3 DEF OnBranch, Loops, OwnInv, OwnTypeOK
<1>5. Opened(g)
  BY <1>1, <1>2, <1>3, <1>4 DEF Opened
<1> QED
  BY <1>1, <1>5, OpenInv

\* The frame and the scope of the second branch take the place of the first's.
ElseFrame(f, m, t) == [f EXCEPT !.kind = "else", !.thenMoved = m, !.falls = ~t]

LEMMA ElseFacts ==
  ASSUME NEW f \in FrameSet, NEW m \in SUBSET Names, NEW t \in BOOLEAN
  PROVE  LET g == ElseFrame(f, m, t)
         IN  /\ g \in FrameSet /\ g.kind = "else" /\ g.thenMoved = m /\ g.falls = ~t
             /\ g.taken = f.taken /\ g.wasOn = f.wasOn
<1> QED
  BY DEF ElseFrame, FrameSet

LEMMA ElseInv ==
  ASSUME OwnInv, Else
  PROVE  OwnInv'
<1>a. /\ frames # << >> /\ Last(frames).kind = "then" /\ rt' = Exited
      /\ size' = size /\ lets' = lets /\ over' = over /\ term' = FALSE
  BY DEF Else, Closing
<1>b. /\ Len(frames) \in 1 .. Len(frames) /\ Len(frames) \in Nat \ {0}
      /\ scopes # << >> /\ Len(scopes) = Len(frames) + 1
      /\ Last(frames) = Top /\ Top = frames[Len(frames)] /\ Top \in FrameSet
      /\ Front(scopes) \in Seq(ScopeSet) /\ Len(Front(scopes)) = Len(frames)
      /\ \A e \in 1 .. Len(frames) : Front(scopes)[e] = scopes[e]
      /\ Front(frames) \in Seq(FrameSet) /\ Len(Front(frames)) = Len(frames) - 1
      /\ \A k \in 1 .. Len(frames) - 1 : Front(frames)[k] = frames[k]
  BY <1>a, Closed1
<1>c. PICK K \in Nat \ {0} : K = Len(frames)
  BY <1>b
<1>d. PICK B \in Nat : K = B + 1
  BY <1>c
<1>e. PICK D \in Nat : D = K + 1
  BY <1>c
<1>1. /\ K \in Nat /\ D \in Nat /\ B \in Nat /\ K = Len(frames) /\ D = Len(scopes)
      /\ K \in 1 .. K /\ Top = frames[K] /\ D - 1 = K /\ K - 1 = B /\ D = K + 1 /\ K = B + 1
  BY <1>b, <1>c, <1>d, <1>e
<1>2. Top.kind = "then" /\ Top.kind \notin Loops /\ Last(frames) = Top
  BY <1>a, <1>b DEF Loops
<1>3. /\ rt' \in Runtime /\ ~rt'.misused /\ ExitScope \subseteq Names /\ Top \in FrameSet
      /\ over \/ ~Top.wasOn => rt' = rt
      /\ on = (Top.wasOn /\ OnBranch(Top) /\ ~over)
  BY <1>a, <1>2, ExitFacts
<1>f. PICK g : g = ElseFrame(Top, ExitScope, term)
  OBVIOUS
<1>4. /\ g \in FrameSet /\ g.kind = "else" /\ g.thenMoved = ExitScope /\ g.falls = ~term
      /\ g.taken = Top.taken /\ g.wasOn = Top.wasOn
  <2>1. term \in BOOLEAN /\ ExitScope \in SUBSET Names
    BY <1>3 DEF OwnInv, OwnTypeOK
  <2> QED
    BY <1>3, <1>f, <2>1, ElseFacts
<1>5. /\ frames' \in Seq(FrameSet) /\ Len(frames') = K /\ frames'[K] = g
      /\ \A k \in 1 .. B : frames'[k] = frames[k]
  <2>1. frames' = Append(Front(frames), g)
    BY <1>2, <1>f DEF Else, ElseFrame
  <2>2. g \in FrameSet /\ Front(frames) \in Seq(FrameSet)
    BY <1>b, <1>4
  <2>3. /\ Append(Front(frames), g) \in Seq(FrameSet)
        /\ Len(Append(Front(frames), g)) = Len(Front(frames)) + 1
        /\ Append(Front(frames), g)[Len(Front(frames)) + 1] = g
        /\ \A k \in 1 .. Len(Front(frames)) : Append(Front(frames), g)[k] = Front(frames)[k]
    BY <2>2, AppendProperties
  <2>4. Len(Front(frames)) + 1 = K /\ Len(Front(frames)) = B
    BY <1>b, <1>1
  <2>5. \A k \in 1 .. B : Front(frames)[k] = frames[k]
    BY <1>b, <1>1
  <2> QED
    BY <2>1, <2>3, <2>4, <2>5, Zenon
<1>6. /\ scopes' \in Seq(ScopeSet) /\ Len(scopes') = K + 1 /\ scopes'[K + 1] = EmptyScope
      /\ \A e \in 1 .. K : scopes'[e] = scopes[e]
      /\ \A e \in 1 .. K : scopes'[e] = Front(scopes)[e]
  <2>1. scopes' = Append(Front(scopes), EmptyScope)
    BY DEF Else
  <2>2. EmptyScope \in ScopeSet /\ Front(scopes) \in Seq(ScopeSet)
    BY <1>b DEF EmptyScope, ScopeSet
  <2>3. /\ Append(Front(scopes), EmptyScope) \in Seq(ScopeSet)
        /\ Len(Append(Front(scopes), EmptyScope)) = Len(Front(scopes)) + 1
        /\ Append(Front(scopes), EmptyScope)[Len(Front(scopes)) + 1] = EmptyScope
        /\ \A k \in 1 .. Len(Front(scopes)) :
             Append(Front(scopes), EmptyScope)[k] = Front(scopes)[k]
    BY <2>2, AppendProperties
  <2>4. Len(Front(scopes)) = K
    BY <1>b, <1>1
  <2>5. \A e \in 1 .. K : Front(scopes)[e] = scopes[e]
    BY <1>b, <1>1
  <2> QED
    BY <2>1, <2>3, <2>4, <2>5, Zenon
<1>7. /\ moved' = Top.incoming /\ on' = (Top.wasOn /\ Top.taken = "else" /\ ~over)
  BY <1>2 DEF Else
<1>8. frames' # << >> /\ scopes' # << >> /\ Top' = g
  BY <1>1, <1>5, <1>6 DEF Top
<1>9. \A k \in 1 .. K : k = K \/ k \in 1 .. B
  BY <1>1
<1>10. \A k \in 1 .. B : k \in 1 .. K /\ k # K /\ frames[k].kind \notin Loops
  <2>1. ASSUME NEW k \in 1 .. B PROVE k \in 1 .. K /\ k # K
    BY <1>1
  <2>2. \A k \in 1 .. K : frames[k].kind \in Loops => k = K
    BY <1>1 DEF OwnInv, Shaped
  <2> QED
    BY <2>1, <2>2
<1>11. Top.taken \in {"then", "else"} /\ Top.incoming \subseteq Names /\ Top.wasOn \in BOOLEAN
  <2>1. Top.taken \in {"then", "else"}
    BY <1>1, <1>2 DEF OwnInv, Shaped
  <2> QED
    BY <1>3, <2>1 DEF FrameSet
<1>12. OwnTypeOK'
  <2>1. on' \in BOOLEAN /\ moved' \subseteq Names /\ term' \in BOOLEAN
    BY <1>a, <1>7, <1>11
  <2>2. size' \in 0 .. MaxSize /\ lets' \in 0 .. size' /\ over' \in BOOLEAN
    BY <1>a DEF OwnInv, OwnTypeOK
  <2> QED
    BY <1>3, <1>5, <1>6, <2>1, <2>2 DEF OwnTypeOK
<1>13. Shaped'
  <2>1. ASSUME NEW k \in 1 .. K
        PROVE  /\ frames'[k].kind \notin Loops
               /\ frames'[k].kind = "block" => frames'[k].taken = ""
               /\ frames'[k].kind \in {"then", "else"} => frames'[k].taken \in {"then", "else"}
    <3>1. CASE k = K
      BY <1>4, <1>5, <1>11, <3>1 DEF Loops
    <3>2. CASE k \in 1 .. B
      BY <1>1, <1>5, <1>10, <3>2 DEF OwnInv, Shaped
    <3> QED
      BY <1>9, <3>1, <3>2
  <2>2. Len(scopes') = Len(frames') + 1
    BY <1>1, <1>5, <1>6
  <2> QED
    BY <1>5, <1>8, <2>1, <2>2 DEF Shaped
<1>14. /\ SlotsOf(scopes', K + 1) = SlotsOf(scopes, K)
       /\ \A r, m : Certain(r, scopes, m, K) => Certain(r, scopes', m, K + 1)
       /\ Slotted(scopes', lets')
  <2>1. PICK ss \in Seq(ScopeSet) : ss = Front(scopes)
    BY <1>b
  <2>2. Len(ss) = K /\ \A e \in 1 .. K : ss[e] = scopes[e] /\ ss[e] = scopes'[e]
    BY <1>b, <1>1, <1>6, <2>1
  <2>3. /\ SlotsOf(scopes', K + 1) = SlotsOf(ss, K)
        /\ \A A, m : /\ Sees(A, ss, m, K) => Sees(A, scopes', m, K + 1)
                     /\ Keeps(A, ss, K) => Keeps(A, scopes', K + 1)
        /\ \A last : Slotted(ss, last) => Slotted(scopes', last)
    <3>1. PICK tt \in Seq(ScopeSet) : tt = scopes'
      BY <1>6
    <3>2. Len(tt) = K + 1 /\ tt[K + 1] = EmptyScope /\ \A e \in 1 .. K : ss[e] = tt[e]
      BY <1>6, <2>2, <3>1
    <3>3. K <= Len(ss) /\ K \in Nat
      BY <1>1, <2>2
    <3>4. /\ SlotsOf(tt, K + 1) = SlotsOf(ss, K)
          /\ \A A, m : /\ Sees(A, ss, m, K) => Sees(A, tt, m, K + 1)
                       /\ Keeps(A, ss, K) => Keeps(A, tt, K + 1)
          /\ \A last : Slotted(ss, last) => Slotted(tt, last)
      BY <3>2, <3>3, AddEmpty
    <3> QED
      BY <3>1, <3>4
  <2>4. SlotsOf(ss, K) = SlotsOf(scopes, K)
    BY <1>1, <2>2, SameBelow
  <2>5. \A A, m : (Sees(A, ss, m, K) <=> Sees(A, scopes, m, K))
                  /\ (Keeps(A, ss, K) <=> Keeps(A, scopes, K))
    BY <1>1, <2>2, Below
  <2>6. Slotted(ss, lets)
    <3>1. /\ Len(ss) \in Nat /\ Len(scopes) \in Nat /\ Len(ss) <= Len(scopes)
          /\ \A e \in 1 .. Len(ss) : ss[e] = scopes[e]
      BY <1>1, <2>2
    <3>2. Slotted(scopes, lets)
      BY DEF OwnInv
    <3> QED
      BY <3>1, <3>2, SlottedBelow
  <2> QED
    BY <1>a, <2>3, <2>4, <2>5, <2>6 DEF Certain
<1>15. Pathed'
  <2>1. ASSUME ~over, NEW k \in 1 .. K
        PROVE  frames'[k].wasOn <=> k = 1 \/ (frames'[k - 1].wasOn /\ OnBranch(frames'[k - 1]))
    <3>1. k # 1 => k - 1 \in 1 .. B
      BY <1>1
    <3>2. frames[k].wasOn <=> k = 1 \/ (frames[k - 1].wasOn /\ OnBranch(frames[k - 1]))
      BY <1>1, <2>1 DEF OwnInv, Pathed
    <3>3. frames'[k].wasOn = frames[k].wasOn
      BY <1>1, <1>4, <1>5, <1>9
    <3> QED
      BY <1>5, <3>1, <3>2, <3>3
  <2>2. OnBranch(g) <=> g.taken = "else"
    BY <1>4 DEF OnBranch, Loops
  <2>3. ~over => (on' <=> frames' = << >> \/ (Top'.wasOn /\ OnBranch(Top')))
    BY <1>4, <1>7, <1>8, <2>2
  <2>4. Top'.kind \notin Loops
    BY <1>4, <1>8 DEF Loops
  <2>5. over' => ~on'
    BY <1>a, <1>7
  <2> QED
    BY <1>a, <1>5, <2>1, <2>3, <2>4, <2>5 DEF Pathed
<1>16. OnBranch(Top) <=> Top.taken = "then"
  BY <1>2, <1>11 DEF OnBranch, Loops
<1>17. Ending'
  <2>1. ASSUME NEW k \in 1 .. K, frames'[k].kind = "else", frames'[k].wasOn,
               frames'[k].taken = "then", ~frames'[k].falls
        PROVE  over
    <3>1. CASE k = K
      <4>1. term /\ Top.wasOn /\ Top.taken = "then"
        BY <1>4, <1>5, <2>1, <3>1 DEF OwnInv, OwnTypeOK
      <4> QED
        BY <1>2, <1>3, <1>16, <4>1 DEF OwnInv, Ending
    <3>2. CASE k \in 1 .. B
      BY <1>1, <1>5, <1>10, <2>1, <3>2 DEF OwnInv, Ending
    <3> QED
      BY <1>9, <3>1, <3>2
  <2>2. Top'.kind # "again"
    BY <1>4, <1>8
  <2> QED
    BY <1>a, <1>5, <2>1, <2>2 DEF Ending
<1>18. \A k \in Nat : k <= K =>
         /\ SlotsOf(scopes', k) = SlotsOf(scopes, k)
         /\ \A r, m : Certain(r, scopes', m, k) <=> Certain(r, scopes, m, k)
  <2>1. ASSUME NEW k \in Nat, k <= K
        PROVE  /\ SlotsOf(scopes', k) = SlotsOf(scopes, k)
               /\ \A r, m : Certain(r, scopes', m, k) <=> Certain(r, scopes, m, k)
    <3>1. \A e \in 1 .. k : scopes'[e] = scopes[e]
      BY <1>1, <1>6, <2>1
    <3>2. SlotsOf(scopes', k) = SlotsOf(scopes, k)
      BY <3>1, SameBelow
    <3>3. \A A, m : (Sees(A, scopes', m, k) <=> Sees(A, scopes, m, k))
                    /\ (Keeps(A, scopes', k) <=> Keeps(A, scopes, k))
      BY <3>1, Below
    <3> QED
      BY <3>2, <3>3 DEF Certain
  <2> QED
    BY <2>1
<1>19. RunHolds'
  <2>1. over => \A v \in 1 .. Len(rt'.fate) : rt'.fate[v] # "live"
    BY <1>3 DEF OwnInv, RunHolds
  <2>2. ASSUME on'
        PROVE  Exact(rt', SlotsOf(scopes', K + 1)) /\ Certain(rt', scopes', moved', K + 1)
    <3>1. Top.wasOn /\ ~over /\ ~on
      BY <1>3, <1>7, <1>16, <2>2
    <3>2. View(Top) = moved'
      BY <1>2, <1>7 DEF View
    <3>3. Exact(rt', SlotsOf(scopes, K)) /\ Certain(rt', scopes, View(Top), K)
      BY <1>a, <1>1, <1>2, <3>1, ExitFacts
    <3> QED
      BY <1>14, <3>2, <3>3
  <2>3. ASSUME ~over, NEW k \in 1 .. K, Skipped(frames'[k])
        PROVE  Exact(rt', SlotsOf(scopes', k)) /\ Certain(rt', scopes', View(frames'[k]), k)
    <3>1. k \in Nat /\ k <= K
      BY <1>1
    <3>2. CASE k = K
      <4>1. g.wasOn /\ ~OnBranch(g)
        BY <1>5, <2>3, <3>2 DEF Skipped
      <4>2. Top.wasOn /\ Top.taken = "then"
        BY <1>4, <1>11, <4>1 DEF OnBranch, Loops
      <4>3. on
        BY <1>3, <1>16, <2>3, <4>2
      <4>4. Exact(rt', SlotsOf(scopes, K)) /\ Certain(rt', scopes, ExitScope, K)
        BY <1>a, <1>1, <1>2, <4>3, ExitFacts
      <4>5. View(g) = ExitScope
        BY <1>4 DEF View
      <4> QED
        BY <1>5, <1>18, <3>1, <3>2, <4>4, <4>5
    <3>3. CASE k \in 1 .. B
      <4>1. frames'[k] = frames[k] /\ k \in 1 .. K
        BY <1>5, <1>10, <3>3
      <4>2. ~Top.wasOn
        <5> SUFFICES ASSUME Top.wasOn PROVE FALSE
          OBVIOUS
        <5>1. PICK n \in 1 .. Len(frames) : n = K /\ frames[n].wasOn
          BY <1>1
        <5>2. k \in 1 .. n - 1
          BY <1>1, <3>3, <5>1
        <5>3. frames[k].wasOn /\ OnBranch(frames[k])
          BY <2>3, <5>1, <5>2, PathTo DEF OwnInv, OwnTypeOK
        <5> QED
          BY <2>3, <4>1, <5>3 DEF Skipped
      <4>3. rt' = rt
        BY <1>3, <4>2
      <4>4. Exact(rt, SlotsOf(scopes, k)) /\ Certain(rt, scopes, View(frames[k]), k)
        BY <1>1, <2>3, <4>1 DEF OwnInv, RunHolds
      <4> QED
        BY <1>18, <3>1, <4>1, <4>3, <4>4
    <3> QED
      BY <1>9, <3>2, <3>3
  <2> QED
    BY <1>a, <1>3, <1>5, <1>6, <2>1, <2>2, <2>3 DEF RunHolds
<1>20. LoopHolds'
  BY <1>4, <1>8 DEF LoopHolds, Loops
<1> QED
  BY <1>12, <1>13, <1>14, <1>15, <1>17, <1>19, <1>20 DEF OwnInv

LEMMA ReturnInv ==
  ASSUME OwnInv, NEW src \in Sources, Return(src)
  PROVE  OwnInv'
<1> DEFINE D == Len(scopes)
<1>1. /\ ~term /\ size < MaxSize /\ size' = size + 1 /\ MayNest
      /\ moved' = Consumed(src) /\ term' = TRUE /\ on' = FALSE /\ over' = (over \/ on)
      /\ scopes' = scopes /\ frames' = frames /\ lets' = lets
      /\ ~on => rt' = rt
  BY DEF Return, Statement
<1>2. scopes # << >> /\ scopes \in Seq(ScopeSet) /\ D \in 0 .. D
  <2>1. scopes # << >>
    BY <1>1, InScope
  <2> QED
    BY <2>1, NextScope
<1>3. frames # << >> => Top.kind \notin Loops
  BY <1>1, NoLoop
<1>4. PICK i : i = [op |-> "give", to |-> 0, from |-> SlotOf(src)]
  OBVIOUS
<1>5. i = I("give", 0, SlotOf(src)) /\ i.op = "give" /\ i.to = 0 /\ i.from = SlotOf(src)
  BY <1>4 DEF I
<1>6. /\ i.from \in Slots \cup {0} /\ (on /\ i.from # 0 => rt.flag[i.from])
      /\ Consumed(src) \subseteq Names
  BY <1>1, <1>5, FromSource
<1>7. i \in Code
  BY <1>4, <1>6 DEF Code
<1>8. /\ rt \in Runtime /\ ~rt.misused /\ on \in BOOLEAN /\ over \in BOOLEAN
      /\ size' \in 0 .. MaxSize /\ lets' \in 0 .. size'
  <2>1. size' \in 0 .. MaxSize /\ lets' \in 0 .. size'
    BY <1>1, OwnershipAssumption DEF OwnInv, OwnTypeOK
  <2> QED
    BY <2>1 DEF OwnInv, OwnTypeOK, RunHolds
<1>9. ASSUME on
      PROVE  rt' \in Runtime /\ ~rt'.misused /\ \A v \in 1 .. Len(rt'.fate) : rt'.fate[v] # "live"
  <2>1. PICK given : given = IF src = Fresh THEN rt ELSE Run(rt, i)
    OBVIOUS
  <2>2. PICK T : T = Active
    OBVIOUS
  <2>3. T = SlotsOf(scopes, D) /\ T \subseteq Slots
    BY <1>2, <2>2, RegisteredMember DEF Active, SlotsOf
  <2>4. rt' = Dropped(given, T)
    BY <1>5, <1>9, <2>1, <2>2 DEF Return
  <2>5. Exact(rt, T)
    BY <1>9, <2>3 DEF OwnInv, RunHolds, Pathed
  <2>6. given \in Runtime /\ ~given.misused /\ Exact(given, T)
    <3>1. CASE src = Fresh
      BY <1>8, <2>1, <2>5, <3>1
    <3>2. CASE src # Fresh
      <4>1. i.from # 0
        <5>1. src \in Names /\ Accessible(src)
          BY <3>2 DEF Sources
        <5> QED
          BY <1>5, <3>2, <5>1 DEF SlotOf, Accessible
      <4>2. Ready(rt, i)
        BY <1>5, <1>6, <1>9, <4>1 DEF Ready
      <4>3. i.op \notin {"let", "assign"}
        BY <1>5
      <4>4. Run(rt, i) \in Runtime /\ ~Run(rt, i).misused /\ Exact(Run(rt, i), T)
        BY <1>7, <1>8, <2>5, <4>2, <4>3, RunExact
      <4> QED
        BY <2>1, <3>2, <4>4
    <3> QED
      BY <3>1, <3>2
  <2>7. Dropped(given, T) \in Runtime /\ ~Dropped(given, T).misused /\ Exact(Dropped(given, T), T \ T)
    BY <2>3, <2>6, DropExact
  <2>8. T \ T = {}
    OBVIOUS
  <2>9. Exact(rt', {})
    BY <2>4, <2>7, <2>8
  <2> QED
    BY <2>4, <2>7, <2>9, NoneLive
<1>10. OwnTypeOK'
  <2>1. rt' \in Runtime
    BY <1>1, <1>8, <1>9
  <2>2. moved' \subseteq Names /\ term' \in BOOLEAN /\ on' \in BOOLEAN /\ over' \in BOOLEAN
    BY <1>1, <1>6, <1>8
  <2> QED
    BY <1>1, <1>8, <2>1, <2>2 DEF OwnInv, OwnTypeOK
<1>11. Shaped' /\ Slotted(scopes', lets')
  BY <1>1, <1>2 DEF OwnInv, Shaped
<1>12. Top' = Top
  BY <1>1 DEF Top
<1>13. Pathed'
  <2>1. over' => ~on' /\ (frames' # << >> /\ Top'.kind \in Loops => ~Top'.wasOn)
    BY <1>1, <1>3, <1>12
  <2>2. ASSUME ~over' PROVE ~over /\ ~on /\ on' = on
    BY <1>1, <1>8, <2>2
  <2> QED
    BY <1>1, <1>12, <2>1, <2>2 DEF OwnInv, Pathed
<1>14. Ending'
  <2>1. over => over'
    BY <1>1
  <2>2. frames # << >> => Top.kind # "again"
    BY <1>3 DEF Loops
  <2> QED
    BY <1>1, <1>12, <2>1, <2>2 DEF OwnInv, Ending
<1>15. RunHolds'
  <2>1. ~rt'.misused
    BY <1>1, <1>8, <1>9
  <2>2. over' => \A v \in 1 .. Len(rt'.fate) : rt'.fate[v] # "live"
    BY <1>1, <1>9 DEF OwnInv, RunHolds
  <2>3. ASSUME ~over', NEW k \in 1 .. Len(frames), Skipped(frames[k])
        PROVE  Exact(rt', SlotsOf(scopes, k)) /\ Certain(rt', scopes, View(frames[k]), k)
    <3>1. ~over /\ ~on /\ rt' = rt
      BY <1>1, <1>8, <2>3
    <3> QED
      BY <2>3, <3>1 DEF OwnInv, RunHolds
  <2> QED
    BY <1>1, <2>1, <2>2, <2>3 DEF RunHolds
<1>16. LoopHolds'
  BY <1>1, <1>3, <1>12 DEF LoopHolds
<1> QED
  BY <1>10, <1>11, <1>13, <1>14, <1>15, <1>16 DEF OwnInv

LEMMA EndFunctionInv ==
  ASSUME OwnInv, EndFunction
  PROVE  OwnInv'
<1>1. /\ frames = << >> /\ scopes # << >> /\ rt' = Exited
      /\ moved' = {} /\ scopes' = << >> /\ term' = TRUE /\ on' = FALSE /\ over' = TRUE
      /\ frames' = frames /\ size' = size /\ lets' = lets
  BY DEF EndFunction
<1>2. /\ scopes \in Seq(ScopeSet) /\ Len(scopes) = 1 /\ Last(scopes) = scopes[1]
  <2>1. Len(scopes) = Len(frames) + 1 /\ scopes \in Seq(ScopeSet) /\ Last(scopes) = scopes[Len(scopes)]
    BY <1>1, NextScope
  <2>2. Len(frames) = 0
    BY <1>1
  <2> QED
    BY <2>1, <2>2
<1>3. rt \in Runtime /\ ~rt.misused
  BY DEF OwnInv, OwnTypeOK, RunHolds
<1>4. rt' \in Runtime /\ ~rt'.misused /\ \A v \in 1 .. Len(rt'.fate) : rt'.fate[v] # "live"
  <2>1. CASE on
    <3>1. ~term /\ Exact(rt, SlotsOf(scopes, 1))
      BY <1>1, <1>2, <2>1 DEF OwnInv, Ending, RunHolds, Pathed
    <3>2. PICK T : T = CleanupOf(scopes[1])
      OBVIOUS
    <3>3. SlotsOf(scopes, 1) = T /\ T \subseteq Slots
      <4>1. SlotsOf(scopes, 1) = SlotsOf(scopes, 1 - 1) \cup T /\ 1 \in 0 .. Len(scopes)
        BY <1>2, <3>2, OneMore
      <4>2. SlotsOf(scopes, 1 - 1) = {}
        BY DEF SlotsOf, Registered
      <4>3. SlotsOf(scopes, 1) \subseteq Slots
        BY <1>2, <4>1, RegisteredMember
      <4> QED
        BY <4>1, <4>2, <4>3
    <3>4. rt' = Dropped(rt, T)
      BY <1>1, <1>2, <2>1, <3>1, <3>2 DEF Exited
    <3>5. Exact(rt, T)
      BY <3>1, <3>3
    <3>6. Dropped(rt, T) \in Runtime /\ ~Dropped(rt, T).misused /\ Exact(Dropped(rt, T), T \ T)
      BY <1>3, <3>3, <3>5, DropExact
    <3>7. T \ T = {}
      OBVIOUS
    <3>8. Exact(rt', {})
      BY <3>4, <3>6, <3>7
    <3> QED
      BY <3>4, <3>6, <3>8, NoneLive
  <2>2. CASE ~on
    <3>1. rt' = rt
      BY <1>1, <2>2 DEF Exited
    <3>2. over
      BY <1>1, <2>2 DEF OwnInv, Pathed
    <3> QED
      BY <1>3, <3>1, <3>2 DEF OwnInv, RunHolds
  <2> QED
    BY <2>1, <2>2
<1>5. frames' = << >> /\ Len(frames') = 0 /\ Len(scopes') = 0
  BY <1>1
<1>6. OwnTypeOK'
  <2>1. scopes' \in Seq(ScopeSet)
    BY <1>1, EmptySeq
  <2>2. moved' \subseteq Names /\ term' \in BOOLEAN /\ on' \in BOOLEAN /\ over' \in BOOLEAN
    BY <1>1
  <2> QED
    BY <1>1, <1>4, <2>1, <2>2 DEF OwnInv, OwnTypeOK
<1>7. Shaped' /\ Slotted(scopes', lets') /\ Pathed' /\ Ending' /\ LoopHolds'
  <2>1. \A k : k \notin 1 .. 0
    OBVIOUS
  <2>2. Shaped'
    BY <1>1, <1>5, <2>1 DEF Shaped
  <2>3. Slotted(scopes', lets')
    BY <1>5, <2>1 DEF Slotted
  <2>4. Pathed'
    BY <1>1, <1>5 DEF Pathed
  <2>5. Ending'
    BY <1>1, <1>5, <2>1 DEF Ending
  <2>6. LoopHolds'
    BY <1>5 DEF LoopHolds
  <2> QED
    BY <2>2, <2>3, <2>4, <2>5, <2>6
<1>8. RunHolds'
  BY <1>1, <1>4 DEF RunHolds
<1> QED
  BY <1>6, <1>7, <1>8 DEF OwnInv

LEMMA OwnInit == Init => OwnInv
<1> SUFFICES ASSUME Init PROVE OwnInv
  OBVIOUS
<1>1. /\ moved = {} /\ scopes = <<EmptyScope>> /\ frames = << >> /\ term = FALSE /\ size = 0
      /\ lets = 0 /\ on = TRUE /\ over = FALSE
      /\ rt = [val |-> [s \in Slots |-> 0], flag |-> [s \in Slots |-> FALSE],
               fate |-> << >>, misused |-> FALSE]
  BY DEF Init
<1>2. /\ rt.flag = [s \in Slots |-> FALSE] /\ rt.fate = << >> /\ ~rt.misused /\ Len(rt.fate) = 0
      /\ rt.val = [s \in Slots |-> 0]
  BY <1>1
<1>3. EmptyScope \in ScopeSet /\ EmptyScope.vars = {} /\ EmptyScope.before = {}
  BY DEF EmptyScope, ScopeSet
<1>4. scopes \in Seq(ScopeSet) /\ Len(scopes) = 1 /\ scopes[1] = EmptyScope /\ scopes # << >>
  BY <1>1, <1>3
<1>5. frames \in Seq(FrameSet) /\ Len(frames) = 0
  BY <1>1, EmptySeq
<1>6. rt \in Runtime
  <2>1. rt.fate \in Seq(Fates)
    BY <1>2, EmptySeq
  <2>2. rt.val \in [Slots -> Nat] /\ rt.flag \in [Slots -> BOOLEAN]
    BY <1>2
  <2> QED
    BY <1>1, <2>1, <2>2 DEF Runtime
<1>7. OwnTypeOK
  <2>1. size \in 0 .. MaxSize /\ lets \in 0 .. size
    BY <1>1, OwnershipAssumption
  <2>2. moved \subseteq Names /\ term \in BOOLEAN /\ on \in BOOLEAN /\ over \in BOOLEAN
    BY <1>1
  <2> QED
    BY <1>4, <1>5, <1>6, <2>1, <2>2 DEF OwnTypeOK
<1>8. \A k : k \notin 1 .. 0
  OBVIOUS
<1>9. Shaped /\ Pathed /\ Ending /\ LoopHolds
  <2>1. Shaped
    BY <1>1, <1>4, <1>5, <1>8 DEF Shaped
  <2>2. Pathed
    BY <1>1, <1>5, <1>8 DEF Pathed
  <2>3. Ending
    BY <1>1, <1>5, <1>8 DEF Ending
  <2>4. LoopHolds
    BY <1>1 DEF LoopHolds
  <2> QED
    BY <2>1, <2>2, <2>3, <2>4
<1>10. Registered(scopes, 1) = {}
  BY <1>3, <1>4 DEF Registered
<1>11. \A n : SlotAt(scopes, 1, n) = 0
  BY <1>10 DEF SlotAt
<1>12. Slotted(scopes, lets)
  <2>1. \A d \in 1 .. 1 : scopes[d].vars = {} /\ scopes[d].before = {}
    BY <1>3, <1>4
  <2> QED
    BY <1>4, <2>1 DEF Slotted
<1>13. RunHolds
  <2>1. Exact(rt, SlotsOf(scopes, 1))
    BY <1>2 DEF Exact
  <2>2. Certain(rt, scopes, moved, 1)
    BY <1>11 DEF Certain, Sees, Keeps
  <2> QED
    BY <1>1, <1>2, <1>4, <1>5, <1>8, <2>1, <2>2 DEF RunHolds
<1> QED
  BY <1>7, <1>9, <1>12, <1>13 DEF OwnInv

\* A step at the end of a loop's body or of an iteration: the frame of the loop becomes g.
InLoopStep(g) ==
  /\ frames # << >> /\ Top.kind \in Loops
  /\ g \in FrameSet /\ g.kind \in Loops /\ g.taken \in Nat
  /\ g.wasOn = Top.wasOn /\ g.incoming = Top.incoming /\ (g.taken > 0 <=> Top.taken > 0)
  /\ frames' = [frames EXCEPT ![Len(frames)] = g]
  /\ scopes' = scopes /\ moved' = moved /\ term' = TRUE /\ lets' = lets
  /\ on' = on /\ over' = over /\ size' \in size .. MaxSize
  /\ rt' \in Runtime /\ ~rt'.misused /\ (~on => rt' = rt)
  /\ on => Exact(rt', SlotsOf(scopes, Len(scopes)))

LEMMA LoopStep ==
  ASSUME OwnInv, NEW g, InLoopStep(g)
  PROVE  Top' = g /\ frames' # << >> /\ (LoopHolds' => OwnInv')
<1>1. /\ frames # << >> /\ Top.kind \in Loops
      /\ g \in FrameSet /\ g.kind \in Loops /\ g.taken \in Nat
      /\ g.wasOn = Top.wasOn /\ g.incoming = Top.incoming /\ (g.taken > 0 <=> Top.taken > 0)
      /\ scopes' = scopes /\ moved' = moved /\ term' = TRUE /\ lets' = lets
      /\ on' = on /\ over' = over /\ size' \in size .. MaxSize
      /\ rt' \in Runtime /\ ~rt'.misused /\ (~on => rt' = rt)
      /\ on => Exact(rt', SlotsOf(scopes, Len(scopes)))
  BY DEF InLoopStep
<1>2. /\ frames \in Seq(FrameSet) /\ Len(scopes) = Len(frames) + 1 /\ scopes # << >>
      /\ Len(frames) \in 1 .. Len(frames) /\ Top = frames[Len(frames)]
  BY <1>1, Closed1 DEF OwnInv, OwnTypeOK
<1>3. PICK K \in Nat : K = Len(frames)
  BY <1>2
<1>4. K \in 1 .. K /\ Top = frames[K] /\ Len(scopes) = K + 1 /\ K = Len(frames)
  BY <1>2, <1>3
<1>5. /\ frames' \in Seq(FrameSet) /\ Len(frames') = K /\ frames'[K] = g
      /\ \A k \in 1 .. K : k # K => frames'[k] = frames[k]
  <2>1. frames' = [frames EXCEPT ![K] = g]
    BY <1>3 DEF InLoopStep
  <2> QED
    BY <1>1, <1>2, <1>4, <2>1, ExceptSeq
<1>6. Top' = g /\ frames' # << >>
  BY <1>4, <1>5 DEF Top
<1>7. OnBranch(g) <=> OnBranch(Top)
  BY <1>1 DEF OnBranch
<1>8. \A k \in 1 .. K :
        /\ frames'[k].wasOn = frames[k].wasOn
        /\ OnBranch(frames'[k]) <=> OnBranch(frames[k])
        /\ Skipped(frames'[k]) <=> Skipped(frames[k])
        /\ View(frames'[k]) = View(frames[k])
  <2>1. ASSUME NEW k \in 1 .. K, k # K
        PROVE  frames'[k] = frames[k]
    BY <1>5, <2>1
  <2>2. View(g) = View(Top) /\ (Skipped(g) <=> Skipped(Top))
    BY <1>1, <1>7 DEF View, Skipped, Loops
  <2>3. ASSUME NEW k \in 1 .. K, k = K
        PROVE  frames'[k] = g /\ frames[k] = Top
    BY <1>4, <1>5, <2>3
  <2> QED
    BY <1>1, <1>7, <2>1, <2>2, <2>3
<1>9. OwnTypeOK'
  BY <1>1, <1>5 DEF OwnInv, OwnTypeOK
<1>10. Shaped'
  <2>1. ASSUME NEW k \in 1 .. K
        PROVE  /\ frames'[k].kind \in Loops => k = K /\ frames'[k].taken \in Nat
               /\ frames'[k].kind = "block" => frames'[k].taken = ""
               /\ frames'[k].kind \in {"then", "else"} => frames'[k].taken \in {"then", "else"}
    <3>1. CASE k = K
      BY <1>1, <1>5, <3>1 DEF Loops
    <3>2. CASE k # K
      BY <1>4, <1>5, <3>2 DEF OwnInv, Shaped
    <3> QED
      BY <3>1, <3>2
  <2>2. scopes' # << >> /\ Len(scopes') = Len(frames') + 1
    BY <1>1, <1>2, <1>4, <1>5
  <2> QED
    BY <1>5, <2>1, <2>2 DEF Shaped
<1>11. Slotted(scopes', lets')
  BY <1>1 DEF OwnInv
<1>12. Pathed'
  <2>1. ASSUME ~over, NEW k \in 1 .. K
        PROVE  frames'[k].wasOn <=> k = 1 \/ (frames'[k - 1].wasOn /\ OnBranch(frames'[k - 1]))
    <3>1. k # 1 => k - 1 \in 1 .. K
      BY <1>4
    <3>2. frames[k].wasOn <=> k = 1 \/ (frames[k - 1].wasOn /\ OnBranch(frames[k - 1]))
      BY <1>4, <2>1 DEF OwnInv, Pathed
    <3> QED
      BY <1>8, <3>1, <3>2
  <2>2. ~over => (on' <=> frames' = << >> \/ (Top'.wasOn /\ OnBranch(Top')))
    BY <1>1, <1>6, <1>7 DEF OwnInv, Pathed
  <2>3. over => ~on' /\ ~Top'.wasOn
    BY <1>1, <1>6 DEF OwnInv, Pathed
  <2> QED
    BY <1>1, <1>5, <2>1, <2>2, <2>3 DEF Pathed
<1>13. Ending'
  <2>1. ASSUME NEW k \in 1 .. K, frames'[k].kind = "else", frames'[k].wasOn,
               frames'[k].taken = "then", ~frames'[k].falls
        PROVE  over
    <3>1. k # K
      BY <1>1, <1>5, <2>1 DEF Loops
    <3> QED
      BY <1>4, <1>5, <2>1, <3>1 DEF OwnInv, Ending
  <2> QED
    BY <1>1, <1>5, <1>6, <2>1 DEF Ending
<1>14. RunHolds'
  <2>1. over => \A v \in 1 .. Len(rt'.fate) : rt'.fate[v] # "live"
    BY <1>1 DEF OwnInv, RunHolds, Pathed
  <2>2. ASSUME ~over, NEW k \in 1 .. K, Skipped(frames[k])
        PROVE  Exact(rt', SlotsOf(scopes, k)) /\ Certain(rt', scopes, View(frames[k]), k)
    <3>1. ~on
      BY <1>2, <1>4, <2>2, OnPath DEF OwnInv
    <3>2. rt' = rt
      BY <1>1, <3>1
    <3> QED
      BY <1>4, <2>2, <3>2 DEF OwnInv, RunHolds
  <2> QED
    BY <1>1, <1>5, <1>8, <2>1, <2>2 DEF RunHolds
<1> QED
  BY <1>6, <1>9, <1>10, <1>11, <1>12, <1>13, <1>14 DEF OwnInv

LEMMA LeaveInv ==
  ASSUME OwnInv, "leaveLocals" \notin Forms, NEW how, Leave(how)
  PROVE  OwnInv'
<1>1. /\ InLoop /\ ~term /\ size < MaxSize /\ size' = size + 1 /\ Last(scopes).vars = {}
      /\ moved' = moved /\ scopes' = scopes /\ lets' = lets /\ on' = on /\ over' = over /\ rt' = rt
      /\ term' = TRUE
  BY DEF Leave, Statement
<1>2. frames # << >> /\ Last(frames).kind = "while"
  BY <1>1 DEF InLoop
<1>3. /\ frames \in Seq(FrameSet) /\ Len(frames) \in 1 .. Len(frames) /\ Top = frames[Len(frames)]
      /\ Top \in FrameSet /\ Last(frames) = Top /\ scopes # << >>
  BY <1>2, Closed1 DEF OwnInv, OwnTypeOK
<1>4. Last(scopes) = scopes[Len(scopes)]
  BY <1>3, NextScope
<1>5. Top.kind = "while" /\ Top.kind \in Loops /\ Top.taken \in Nat
  BY <1>2, <1>3 DEF Loops, OwnInv, Shaped
<1>6. PICK t : t = IF how = "break" /\ Top.taken > 1 THEN 1 ELSE Top.taken
  OBVIOUS
<1>7. t \in Nat /\ (t > 0 <=> Top.taken > 0)
  BY <1>5, <1>6
<1>8. PICK g : g = [Top EXCEPT !.exits = moved, !.taken = t]
  OBVIOUS
<1>9. /\ g \in FrameSet /\ g.kind = "while" /\ g.taken = t /\ g.wasOn = Top.wasOn
      /\ g.incoming = Top.incoming /\ g.code = Top.code /\ g.at = Top.at
  <2>1. moved \in SUBSET Names /\ t \in Nat \cup {"", "then", "else"}
    BY <1>7 DEF OwnInv, OwnTypeOK
  <2> QED
    BY <1>3, <1>5, <1>8, <2>1 DEF FrameSet
<1>10. frames' = [frames EXCEPT ![Len(frames)] = g]
  BY <1>3, <1>6, <1>8 DEF Leave
<1>11. InLoopStep(g)
  <2>1. g.kind \in Loops
    BY <1>9 DEF Loops
  <2>2. size' \in size .. MaxSize
    BY <1>1, OwnershipAssumption DEF OwnInv, OwnTypeOK
  <2>3. rt \in Runtime /\ ~rt.misused /\ (on => Exact(rt, SlotsOf(scopes, Len(scopes))))
    BY DEF OwnInv, OwnTypeOK, RunHolds, Pathed
  <2> QED
    BY <1>1, <1>2, <1>5, <1>7, <1>9, <1>10, <2>1, <2>2, <2>3 DEF InLoopStep
<1>12. Top' = g /\ frames' # << >>
  BY <1>11, LoopStep
<1>13. LoopHolds'
  <2>1. Top.wasOn /\ ~over => Certain(rt, scopes, Top.incoming, Len(scopes) - 1)
    BY <1>2, <1>5 DEF OwnInv, LoopHolds
  <2>2. Legal(Top.code, scopes, Base(scopes, Top.incoming)) /\ Top.at = 1
    BY <1>2, <1>5 DEF OwnInv, LoopHolds
  <2>3. Local(scopes) = {}
    BY <1>1, <1>4 DEF Local, CleanupOf
  <2> QED
    BY <1>1, <1>9, <1>12, <2>1, <2>2, <2>3 DEF LoopHolds
<1> QED
  BY <1>11, <1>13, LoopStep

\* Cleaning up a body's variables leaves the others.
LEMMA KeptBelow ==
  ASSUME OwnInv, scopes # << >>, NEW r, NEW z, NEW m, Certain(r, scopes, m, Len(scopes) - 1),
         \A s \in Slots : r.flag[s] /\ s \notin Local(scopes) => z.flag[s]
  PROVE  Certain(z, scopes, m, Len(scopes) - 1)
<1>1. /\ scopes \in Seq(ScopeSet) /\ Len(scopes) \in 1 .. Len(scopes)
      /\ Len(scopes) - 1 \in 0 .. Len(scopes)
  BY NextScope
<1>2. SlotsOf(scopes, Len(scopes) - 1) \subseteq Slots
  BY <1>1, RegisteredMember
<1>3. \A s \in SlotsOf(scopes, Len(scopes) - 1) : s \notin Local(scopes)
  BY <1>1, Apart DEF OwnInv, Local
<1>4. \A s \in SlotsOf(scopes, Len(scopes) - 1) : s \in Flags(r) => s \in Flags(z)
  BY <1>2, <1>3 DEF Flags
<1> QED
  BY <1>1, <1>4, SeesMore, KeepsMore DEF Certain

LEMMA NothingHeld ==
  ASSUME NEW c, NEW s
  PROVE  ~Held(c, 1, s)
  BY DEF Held

\* The first instruction of an iteration comes when no variable of the body is live.
LEMMA StartOver ==
  ASSUME NEW r, NEW c, NEW ss, NEW base, Legal(c, ss, base), \A s \in Local(ss) : ~r.flag[s]
  PROVE  Replays(r, c, 1, Local(ss))
<1>1. ASSUME NEW j \in 1 .. Len(c), c[j].op = "let" PROVE ~r.flag[c[j].to]
  BY <1>1 DEF Legal, LegalAt
<1>2. \A s \in Slots : Held(c, 1, s) => r.flag[s]
  BY NothingHeld
<1> QED
  BY <1>1, <1>2 DEF Replays

\* The cleanups of a body, where they are emitted or there is nothing to clean up.
LEMMA BodyCleaned ==
  ASSUME OwnInv, frames # << >>, on, NEW T, T = Local(scopes),
         rt' = Dropped(rt, T) \/ (rt' = rt /\ T = {})
  PROVE  /\ rt' \in Runtime /\ ~rt'.misused /\ Exact(rt', SlotsOf(scopes, Len(scopes)))
         /\ \A s \in Slots : rt.flag[s] /\ s \notin T => rt'.flag[s]
         /\ \A s \in T : ~rt'.flag[s]
<1>1. /\ rt \in Runtime /\ ~rt.misused /\ Exact(rt, SlotsOf(scopes, Len(scopes)))
  BY DEF OwnInv, OwnTypeOK, RunHolds, Pathed
<1>2. PICK S : S = SlotsOf(scopes, Len(scopes))
  OBVIOUS
<1>3. T \subseteq Slots
  <2>1. scopes # << >>
    BY Closed1
  <2>2. /\ scopes \in Seq(ScopeSet) /\ Len(scopes) \in 1 .. Len(scopes)
        /\ Len(scopes) \in 0 .. Len(scopes)
    BY <2>1, NextScope
  <2>3. T \subseteq SlotsOf(scopes, Len(scopes))
    BY <2>2, OneMore DEF Local
  <2> QED
    BY <2>2, <2>3, RegisteredMember
<1>4. CASE rt' = Dropped(rt, T)
  <2>1. Exact(rt, S)
    BY <1>1, <1>2
  <2>2. /\ Dropped(rt, T) \in Runtime /\ ~Dropped(rt, T).misused /\ Exact(Dropped(rt, T), S \ T)
        /\ \A s \in Slots : Dropped(rt, T).flag[s] <=> rt.flag[s] /\ s \notin T
    BY <1>1, <1>3, <2>1, DropExact
  <2>3. S \ T \subseteq S
    OBVIOUS
  <2>4. Exact(Dropped(rt, T), S)
    BY <2>2, <2>3, ExactMore
  <2>5. \A s \in T : ~Dropped(rt, T).flag[s]
    BY <1>3, <2>2
  <2> QED
    BY <1>2, <1>4, <2>2, <2>4, <2>5
<1>5. CASE rt' = rt /\ T = {}
  BY <1>1, <1>5
<1> QED
  BY <1>4, <1>5

LEMMA EndBodyInv ==
  ASSUME OwnInv, EndBody
  PROVE  OwnInv'
<1>1. /\ frames # << >> /\ Last(frames).kind = "while" /\ rt' = Exited
      /\ size' = size /\ lets' = lets /\ over' = over
      /\ term' = TRUE /\ moved' = moved /\ scopes' = scopes /\ on' = on
  BY DEF EndBody, Closing
<1>2. /\ frames \in Seq(FrameSet) /\ Len(frames) \in 1 .. Len(frames) /\ Top = frames[Len(frames)]
      /\ Top \in FrameSet /\ Last(frames) = Top /\ scopes # << >>
  BY <1>1, Closed1 DEF OwnInv, OwnTypeOK
<1>3. Top.kind = "while" /\ Top.kind \in Loops /\ Top.taken \in Nat
  BY <1>1, <1>2 DEF Loops, OwnInv, Shaped
<1>4. /\ Top.wasOn /\ ~over => Certain(rt, scopes, Top.incoming, Len(scopes) - 1)
      /\ Legal(Top.code, scopes, Base(scopes, Top.incoming))
      /\ Top.at = 1 /\ (term => Local(scopes) = {})
  BY <1>1, <1>3 DEF OwnInv, LoopHolds
<1>5. PICK g : g = [Top EXCEPT !.kind = "again", !.falls = ~term]
  OBVIOUS
<1>6. /\ g \in FrameSet /\ g.kind = "again" /\ g.taken = Top.taken /\ g.wasOn = Top.wasOn
      /\ g.incoming = Top.incoming /\ g.code = Top.code /\ g.at = Top.at /\ g.falls = ~term
  <2>1. PICK b \in BOOLEAN : b = ~term
    OBVIOUS
  <2>2. g = [Top EXCEPT !.kind = "again", !.falls = b]
    BY <1>5, <2>1
  <2>3. /\ g \in FrameSet /\ g.kind = "again" /\ g.taken = Top.taken /\ g.wasOn = Top.wasOn
        /\ g.incoming = Top.incoming /\ g.code = Top.code /\ g.at = Top.at /\ g.falls = b
    BY <1>2, <2>2 DEF FrameSet, Loops
  <2> QED
    BY <2>1, <2>3
<1>7. frames' = [frames EXCEPT ![Len(frames)] = g]
  BY <1>2, <1>5 DEF EndBody
<1>8. PICK T : T = Local(scopes)
  OBVIOUS
<1>9. on => rt' = Dropped(rt, T) \/ (rt' = rt /\ T = {})
  <2>1. Last(scopes) = scopes[Len(scopes)]
    BY <1>2, NextScope
  <2> QED
    BY <1>1, <1>4, <1>8, <2>1 DEF Exited, Local
<1>10. on => /\ rt' \in Runtime /\ ~rt'.misused /\ Exact(rt', SlotsOf(scopes, Len(scopes)))
             /\ \A s \in Slots : rt.flag[s] /\ s \notin T => rt'.flag[s]
             /\ \A s \in T : ~rt'.flag[s]
  BY <1>1, <1>8, <1>9, BodyCleaned
<1>11. ~on => rt' = rt
  BY <1>1 DEF Exited
<1>12. InLoopStep(g)
  <2>1. g.kind \in Loops
    BY <1>6 DEF Loops
  <2>2. size' \in size .. MaxSize
    BY <1>1, OwnershipAssumption DEF OwnInv, OwnTypeOK
  <2>3. rt' \in Runtime /\ ~rt'.misused
    BY <1>10, <1>11 DEF OwnInv, OwnTypeOK, RunHolds
  <2> QED
    BY <1>1, <1>3, <1>6, <1>7, <1>10, <1>11, <2>1, <2>2, <2>3 DEF InLoopStep
<1>13. Top' = g /\ frames' # << >>
  BY <1>12, LoopStep
<1>14. LoopHolds'
  <2>1. Top.wasOn /\ ~over => Certain(rt', scopes, Top.incoming, Len(scopes) - 1)
    <3>1. CASE on
      BY <1>2, <1>4, <1>8, <1>10, <3>1, KeptBelow
    <3>2. CASE ~on
      BY <1>4, <1>11, <3>2
    <3> QED
      BY <3>1, <3>2
  <2>2. on => Replays(rt', Top.code, 1, Local(scopes))
    BY <1>4, <1>8, <1>10, StartOver
  <2>3. 1 <= Len(g.code) + 1
    <3>1. g.code \in Seq(Code)
      BY <1>6 DEF FrameSet
    <3>2. Len(g.code) \in Nat
      BY <3>1
    <3> QED
      BY <3>2
  <2>4. ~g.falls => Local(scopes) = {}
    BY <1>4, <1>6 DEF OwnInv, OwnTypeOK
  <2> QED
    BY <1>1, <1>4, <1>6, <1>13, <2>1, <2>2, <2>3, <2>4 DEF LoopHolds
<1> QED
  BY <1>12, <1>14, LoopStep

LEMMA AgainInv ==
  ASSUME OwnInv, Again
  PROVE  OwnInv'
<1>1. /\ frames # << >> /\ Last(frames).kind = "again" /\ on /\ Last(frames).taken > 1
      /\ moved' = moved /\ scopes' = scopes /\ term' = term /\ size' = size /\ lets' = lets
      /\ on' = on /\ over' = over
  BY DEF Again
<1>2. /\ frames \in Seq(FrameSet) /\ Len(frames) \in 1 .. Len(frames) /\ Top = frames[Len(frames)]
      /\ Top \in FrameSet /\ Last(frames) = Top /\ scopes # << >>
  BY <1>1, Closed1 DEF OwnInv, OwnTypeOK
<1>3. Top.kind = "again" /\ Top.kind \in Loops /\ Top.taken \in Nat /\ Top.taken > 1
  BY <1>1, <1>2 DEF Loops, OwnInv, Shaped
<1>4. ~over /\ Top.wasOn /\ term
  BY <1>1, <1>3 DEF OwnInv, Pathed, Ending, OwnTypeOK
<1>5. PICK c \in Seq(Code) : c = Top.code
  BY <1>2 DEF FrameSet
<1>6. PICK at \in Nat \ {0} : at = Top.at
  BY <1>2 DEF FrameSet
<1>7. /\ Certain(rt, scopes, Top.incoming, Len(scopes) - 1)
      /\ Legal(c, scopes, Base(scopes, Top.incoming))
      /\ at <= Len(c) + 1 /\ (~Top.falls => Local(scopes) = {})
      /\ Replays(rt, c, at, Local(scopes))
  BY <1>1, <1>3, <1>4, <1>5, <1>6 DEF OwnInv, LoopHolds
<1>8. PICK T : T = Local(scopes)
  OBVIOUS
<1>9. /\ rt \in Runtime /\ ~rt.misused /\ Exact(rt, SlotsOf(scopes, Len(scopes)))
      /\ size \in size .. MaxSize /\ term = TRUE
  <2>1. size \in size .. MaxSize
    BY OwnershipAssumption DEF OwnInv, OwnTypeOK
  <2> QED
    BY <1>1, <1>4, <2>1 DEF OwnInv, OwnTypeOK, RunHolds
<1>10. Last(scopes) = scopes[Len(scopes)]
  BY <1>2, NextScope
<1>11. CASE at > Len(c)
  <2>1. PICK g : g = [Top EXCEPT !.at = 1, !.taken = Top.taken - 1]
    OBVIOUS
  <2>2. Top.taken - 1 \in Nat /\ Top.taken - 1 > 0
    BY <1>3
  <2>3. /\ g \in FrameSet /\ g.kind = "again" /\ g.taken = Top.taken - 1 /\ g.wasOn = Top.wasOn
        /\ g.incoming = Top.incoming /\ g.code = c /\ g.at = 1 /\ g.falls = Top.falls
    <3>1. PICK t \in Nat : t = Top.taken - 1
      BY <2>2
    <3>2. t \in Nat \cup {"", "then", "else"} /\ 1 \in Nat \ {0}
      BY OneFirst
    <3>3. g = [Top EXCEPT !.at = 1, !.taken = t]
      BY <2>1, <3>1
    <3>4. /\ g \in FrameSet /\ g.kind = "again" /\ g.taken = t /\ g.wasOn = Top.wasOn
          /\ g.incoming = Top.incoming /\ g.code = Top.code /\ g.at = 1 /\ g.falls = Top.falls
      BY <1>2, <1>3, <3>2, <3>3 DEF FrameSet
    <3> QED
      BY <1>5, <3>1, <3>4
  <2>4. frames' = [frames EXCEPT ![Len(frames)] = g]
    BY <1>2, <1>5, <1>6, <1>11, <2>1 DEF Again
  <2>5. rt' = Dropped(rt, T) \/ (rt' = rt /\ T = {})
    BY <1>2, <1>5, <1>6, <1>7, <1>8, <1>10, <1>11 DEF Again, Local
  <2>6. /\ rt' \in Runtime /\ ~rt'.misused /\ Exact(rt', SlotsOf(scopes, Len(scopes)))
        /\ \A s \in Slots : rt.flag[s] /\ s \notin T => rt'.flag[s]
        /\ \A s \in T : ~rt'.flag[s]
    BY <1>1, <1>8, <2>5, BodyCleaned
  <2>7. InLoopStep(g)
    <3>1. g.kind \in Loops /\ g.taken \in Nat /\ (g.taken > 0 <=> Top.taken > 0)
      BY <1>3, <2>2, <2>3 DEF Loops
    <3> QED
      BY <1>1, <1>3, <1>9, <2>3, <2>4, <2>6, <3>1 DEF InLoopStep
  <2>8. Top' = g /\ frames' # << >>
    BY <2>7, LoopStep
  <2>9. Certain(rt', scopes, Top.incoming, Len(scopes) - 1)
    BY <1>2, <1>7, <1>8, <2>6, KeptBelow
  <2>10. Replays(rt', c, 1, Local(scopes))
    BY <1>7, <1>8, <2>6, StartOver
  <2>11. 1 <= Len(c) + 1
    BY <1>5
  <2>12. LoopHolds'
    BY <1>1, <1>7, <2>3, <2>8, <2>9, <2>10, <2>11 DEF LoopHolds
  <2> QED
    BY <2>7, <2>12, LoopStep
<1>12. CASE ~(at > Len(c))
  <2>1. at \in 1 .. Len(c) /\ at \in Nat \ {0} /\ at + 1 \in Nat \ {0} /\ at + 1 <= Len(c) + 1
        /\ at + 1 # 1
    BY <1>5, <1>6, <1>12
  <2>2. PICK i \in Code : i = c[at]
    BY <1>5, <2>1
  <2>3. PICK g : g = [Top EXCEPT !.at = at + 1]
    OBVIOUS
  <2>4. /\ g \in FrameSet /\ g.kind = "again" /\ g.taken = Top.taken /\ g.wasOn = Top.wasOn
        /\ g.incoming = Top.incoming /\ g.code = c /\ g.at = at + 1 /\ g.falls = Top.falls
    <3>1. PICK x \in Nat \ {0} : x = at + 1
      BY <2>1
    <3>2. g = [Top EXCEPT !.at = x]
      BY <2>3, <3>1
    <3>3. /\ g \in FrameSet /\ g.kind = "again" /\ g.taken = Top.taken /\ g.wasOn = Top.wasOn
          /\ g.incoming = Top.incoming /\ g.code = Top.code /\ g.at = x /\ g.falls = Top.falls
      BY <1>2, <1>3, <3>2 DEF FrameSet
    <3> QED
      BY <1>5, <3>1, <3>3
  <2>5. frames' = [frames EXCEPT ![Len(frames)] = g]
    <3>1. frames' = [frames EXCEPT ![Len(frames)].at = at + 1,
                                   ![Len(frames)].taken = Top.taken]
      BY <1>2, <1>5, <1>6, <1>12 DEF Again
    <3> QED
      BY <1>2, <2>3, <3>1 DEF FrameSet
  <2>6. rt' = Run(rt, i)
    BY <1>2, <1>5, <1>6, <1>12, <2>2 DEF Again
  <2>7. LegalAt(c, scopes, Base(scopes, Top.incoming), at)
    BY <1>7, <2>1 DEF Legal
  <2>8. \A s \in Slots : TakesFrom(i, s) => s \in Local(scopes) /\ rt.flag[s]
    BY <1>7, <2>2, <2>7 DEF LegalAt, Replays
  <2>9. i.from \in Slots \cup {0} /\ i.op \in {"let", "assign", "use", "give"}
    BY DEF Code
  <2>10. Ready(rt, i)
    <3>1. ASSUME i.from # 0 PROVE rt.flag[i.from]
      <4>1. CASE i.op # "use"
        BY <2>8, <2>9, <3>1, <4>1 DEF TakesFrom
      <4>2. CASE i.op = "use"
        <5>1. Held(c, at, i.from) \/ i.from \in Base(scopes, Top.incoming)
          BY <2>2, <2>7, <4>2 DEF LegalAt
        <5>2. CASE Held(c, at, i.from)
          BY <1>7, <2>9, <3>1, <5>2 DEF Replays
        <5>3. CASE i.from \in Base(scopes, Top.incoming)
          BY <1>7, <5>3 DEF Base, Certain, Sees, Flags
        <5> QED
          BY <5>1, <5>2, <5>3
      <4> QED
        BY <4>1, <4>2
    <3>2. i.op \in {"use", "give"} => i.from # 0
      BY <2>2, <2>7 DEF LegalAt
    <3>3. i.op = "let" => ~rt.flag[i.to]
      <4>1. at \in at .. Len(c)
        BY <2>1
      <4> QED
        BY <1>7, <2>2, <4>1 DEF Replays
    <3> QED
      BY <3>1, <3>2, <3>3 DEF Ready
  <2>11. i.op \in {"let", "assign"} => i.to \in SlotsOf(scopes, Len(scopes)) /\ i.to \in Slots
    <3>1. SlotsOf(scopes, Len(scopes)) \subseteq Slots
      BY <1>2, NextScope, RegisteredMember
    <3> QED
      BY <2>2, <2>7, <3>1 DEF LegalAt
  <2>12. /\ rt' \in Runtime /\ ~rt'.misused /\ Exact(rt', SlotsOf(scopes, Len(scopes)))
         /\ Changed(rt, rt', i)
    BY <1>9, <2>6, <2>10, <2>11, RunExact
  <2>13. InLoopStep(g)
    <3>1. g.kind \in Loops /\ g.taken \in Nat
      BY <1>3, <2>4 DEF Loops
    <3> QED
      BY <1>1, <1>3, <1>9, <2>4, <2>5, <2>12, <3>1 DEF InLoopStep
  <2>14. Top' = g /\ frames' # << >>
    BY <2>13, LoopStep
  <2>15. \A s \in Slots : rt.flag[s] /\ s \notin Local(scopes) => rt'.flag[s]
    BY <2>8, <2>12 DEF Changed
  <2>16. Certain(rt', scopes, Top.incoming, Len(scopes) - 1)
    BY <1>2, <1>7, <2>15, KeptBelow
  <2>17. Replays(rt', c, at + 1, Local(scopes))
    <3>1. ASSUME NEW s \in Slots, Held(c, at + 1, s) PROVE rt'.flag[s]
      <4>1. StoresTo(c[at], s) \/ (Held(c, at, s) /\ ~TakesFrom(c[at], s))
        BY <2>1, <3>1, HeldNext
      <4>2. Held(c, at, s) => rt.flag[s]
        BY <1>7 DEF Replays
      <4> QED
        BY <2>2, <2>12, <4>1, <4>2 DEF Changed
    <3>2. ASSUME NEW j \in at + 1 .. Len(c), c[j].op = "let" PROVE ~rt'.flag[c[j].to]
      <4>1. j \in at .. Len(c) /\ j \in 1 .. Len(c) /\ at \in 1 .. j - 1
        BY <2>1, <3>2
      <4>2. ~rt.flag[c[j].to]
        BY <1>7, <3>2, <4>1 DEF Replays
      <4>3. LegalAt(c, scopes, Base(scopes, Top.incoming), j)
        BY <1>7, <4>1 DEF Legal
      <4>4. ~StoresTo(i, c[j].to) /\ c[j].to \in Local(scopes)
        BY <2>2, <3>2, <4>1, <4>3 DEF LegalAt
      <4>5. c[j].to \in Slots
        <5>1. SlotsOf(scopes, Len(scopes)) \subseteq Slots
          BY <1>2, NextScope, RegisteredMember
        <5>2. c[j].to \in SlotsOf(scopes, Len(scopes))
          BY <3>2, <4>3 DEF LegalAt
        <5> QED
          BY <5>1, <5>2
      <4> QED
        BY <2>12, <4>2, <4>4, <4>5 DEF Changed
    <3> QED
      BY <2>1, <3>1, <3>2 DEF Replays
  <2>18. LoopHolds'
    BY <1>1, <1>3, <1>7, <2>1, <2>4, <2>14, <2>16, <2>17 DEF LoopHolds
  <2> QED
    BY <2>13, <2>18, LoopStep
<1> QED
  BY <1>11, <1>12

LEMMA OwnNext ==
  ASSUME OwnInv, "loopMove" \notin Forms, "leaveLocals" \notin Forms, Next
  PROVE  OwnInv'
<1>1. ASSUME NEW n \in Names, NEW src \in Sources, Let(n, src) PROVE OwnInv'
  BY <1>1, LetInv
<1>2. ASSUME NEW n \in Names, NEW src \in Sources, Assign(n, src) PROVE OwnInv'
  BY <1>2, AssignInv
<1>3. ASSUME NEW n \in Names, Use(n) PROVE OwnInv'
  BY <1>3, UseInv
<1>4. ASSUME NEW n \in Names, Give(n) PROVE OwnInv'
  BY <1>4, GiveInv
<1>5. ASSUME NEW src \in Sources, Return(src) PROVE OwnInv'
  BY <1>5, ReturnInv
<1>6. ASSUME Block PROVE OwnInv'
  BY <1>6, BlockInv
<1>7. ASSUME EndBlock PROVE OwnInv'
  BY <1>7, EndBlockInv
<1>8. ASSUME NEW taken \in {"then", "else"}, If(taken) PROVE OwnInv'
  BY <1>8, IfInv
<1>9. ASSUME Else PROVE OwnInv'
  BY <1>9, ElseInv
<1>10. ASSUME EndThen PROVE OwnInv'
  BY <1>10, EndThenInv
<1>11. ASSUME EndElse PROVE OwnInv'
  BY <1>11, EndElseInv
<1>12. ASSUME NEW rounds \in 0 .. MaxRounds, While(rounds) PROVE OwnInv'
  <2>1. rounds \in Nat
    BY OwnershipAssumption
  <2> QED
    BY <1>12, <2>1, WhileInv
<1>13. ASSUME NEW how \in {"break", "continue"}, Leave(how) PROVE OwnInv'
  BY <1>13, LeaveInv
<1>14. ASSUME EndBody PROVE OwnInv'
  BY <1>14, EndBodyInv
<1>15. ASSUME Again PROVE OwnInv'
  BY <1>15, AgainInv
<1>16. ASSUME EndWhile PROVE OwnInv'
  BY <1>16, EndWhileInv
<1>17. ASSUME EndFunction PROVE OwnInv'
  BY <1>17, EndFunctionInv
<1>18. If("then") => OwnInv'
  BY <1>8
<1>19. If("else") => OwnInv'
  BY <1>8
<1>20. Leave("break") => OwnInv'
  BY <1>13
<1>21. Leave("continue") => OwnInv'
  BY <1>13
<1> QED
  BY <1>1, <1>2, <1>3, <1>4, <1>5, <1>6, <1>7, <1>9, <1>10, <1>11, <1>12, <1>14, <1>15,
     <1>16, <1>17, <1>18, <1>19, <1>20, <1>21, Zenon DEF Next

LEMMA OwnStays ==
  ASSUME OwnInv, UNCHANGED vars
  PROVE  OwnInv'
<1>1. /\ moved' = moved /\ scopes' = scopes /\ frames' = frames /\ term' = term /\ size' = size
      /\ lets' = lets /\ on' = on /\ over' = over /\ rt' = rt
  BY DEF vars, comp
<1>2. Top' = Top
  BY <1>1 DEF Top
<1>3. OwnTypeOK' /\ Shaped' /\ Slotted(scopes', lets') /\ Pathed' /\ Ending'
  BY <1>1, <1>2 DEF OwnInv, OwnTypeOK, Shaped, Pathed, Ending
<1>4. RunHolds'
  BY <1>1 DEF OwnInv, RunHolds
<1>5. LoopHolds'
  BY <1>1, <1>2 DEF OwnInv, LoopHolds
<1> QED
  BY <1>3, <1>4, <1>5 DEF OwnInv

LEMMA OwnAlways ==
  ASSUME "loopMove" \notin Forms, "leaveLocals" \notin Forms
  PROVE  CSpec => []OwnInv
<1>1. CInit => OwnInv
  BY OwnInit DEF CInit
<1>2. OwnInv /\ [CNext]_<<part, vars, lvars>> => OwnInv'
  <2> SUFFICES ASSUME OwnInv, [CNext]_<<part, vars, lvars>> PROVE OwnInv'
    OBVIOUS
  <2>1. Next \/ UNCHANGED vars
    BY DEF CNext, GeneratorStep, ServerStep
  <2> QED
    BY <2>1, OwnNext, OwnStays
<1> QED
  BY <1>1, <1>2, PTL DEF CSpec

\* A variable that the generator lets a program use, move or read holds a live
\* value, and nothing it let through has touched a dead one (isVariableMoved,
\* validateVariableAccessible), in programs whose loops neither move a variable
\* declared outside nor are left while variables of the body are in scope: code
\* of the one form runs on dead values, code of the other leaks.
THEOREM CodeAcceptedIsLive ==
  ASSUME "loopMove" \notin Forms, "leaveLocals" \notin Forms
  PROVE  CSpec => []AcceptedIsLive
<1>1. OwnInv => AcceptedIsLive
  <2> SUFFICES ASSUME OwnInv PROVE AcceptedIsLive
    OBVIOUS
  <2>1. ~rt.misused
    BY DEF OwnInv, RunHolds
  <2>2. ASSUME on, ~term, NEW n \in Names, Accessible(n)
        PROVE  rt.flag[ActiveSlot(n)] /\ rt.fate[rt.val[ActiveSlot(n)]] = "live"
    <3>1. scopes # << >>
      BY <2>2, InScope
    <3>2. ActiveSlot(n) \in Slots /\ rt.flag[ActiveSlot(n)]
      BY <2>2, <3>1, Accepted
    <3>3. Exact(rt, SlotsOf(scopes, Len(scopes)))
      BY <2>2 DEF OwnInv, RunHolds, Pathed
    <3> QED
      BY <3>2, <3>3 DEF Exact
  <2> QED
    BY <2>1, <2>2 DEF AcceptedIsLive
<1> QED
  BY <1>1, OwnAlways, PTL

\* Along every path each value is cleaned up or handed over exactly once: what
\* is live has one flagged owner in scope (emitScopeCleanup, drop flags), and
\* nothing is live after the return; the same programs.
THEOREM CodeCleanedUpOnce ==
  ASSUME "loopMove" \notin Forms, "leaveLocals" \notin Forms
  PROVE  CSpec => []CleanedUpOnce
<1>1. OwnInv => CleanedUpOnce
  <2> SUFFICES ASSUME OwnInv, NEW v \in 1 .. Len(rt.fate), rt.fate[v] = "live"
               PROVE  /\ ~over
                      /\ on /\ ~term => \E s \in Active : rt.flag[s] /\ rt.val[s] = v /\
                                           \A u \in Active : rt.flag[u] /\ rt.val[u] = v => u = s
    BY DEF CleanedUpOnce
  <2>1. ~over
    BY DEF OwnInv, RunHolds
  <2>2. ASSUME on, ~term
        PROVE  \E s \in Active : rt.flag[s] /\ rt.val[s] = v /\
                 \A u \in Active : rt.flag[u] /\ rt.val[u] = v => u = s
    <3>1. scopes # << >>
      BY <2>2, InScope
    <3>2. scopes \in Seq(ScopeSet) /\ Len(scopes) \in 0 .. Len(scopes)
      BY <3>1, NextScope
    <3>3. Active = SlotsOf(scopes, Len(scopes)) /\ Active \subseteq Slots
      BY <3>2, RegisteredMember DEF Active, SlotsOf
    <3>4. Exact(rt, Active)
      BY <2>1, <2>2, <3>3 DEF OwnInv, RunHolds
    <3>5. PICK s \in Slots : rt.flag[s] /\ rt.val[s] = v
      BY <3>4 DEF Exact
    <3>6. s \in Active
      BY <3>4, <3>5 DEF Exact
    <3>7. \A u \in Active : rt.flag[u] /\ rt.val[u] = v => u = s
      BY <3>3, <3>4, <3>5 DEF Exact
    <3> QED
      BY <3>5, <3>6, <3>7
  <2> QED
    BY <2>1, <2>2
<1> QED
  BY <1>1, OwnAlways, PTL
=============================================================================
