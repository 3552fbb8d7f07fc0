------------------------------ MODULE Knowledge ------------------------------
(***************************************************************************)
(* The index of documents (knowledge.py).  Every process keeps the parsed  *)
(* file, tagged with the modification time and size it was read at, and    *)
(* reads again only when they differ; a change drops the copy, reads,        *)
(* changes what it read in place and writes.  An operation holds the       *)
(* lock of the file for its whole length, so it is one step: what can go   *)
(* wrong is what it leaves behind when its write fails half way.           *)
(***************************************************************************)
EXTENDS Naturals, FiniteSets

CONSTANTS
  Readers,     \* processes: the web server, the command line
  Indexed,     \* sources of documents the user indexed
  Generated,   \* sources of documents the assistant wrote, of one kind
  Cap,         \* generated documents kept
  MaxWrites    \* bound: writes of the file, and documents

ASSUME KnowledgeAssumption == Cap \in Nat /\ MaxWrites \in Nat /\ Indexed \cap Generated = {}

VARIABLES
  index,   \* the file: when it was written (0: there is none) and what it holds
  parsed,  \* per process, its copy of the file and what it was tagged with
  added    \* ghost: the documents added and neither replaced, dropped nor forgotten since

knowvars == <<index, parsed, added>>

Sources == Indexed \cup Generated
Document == [source: Sources, id: 1..MaxWrites, vector: BOOLEAN]
Store == [next: 1..(MaxWrites + 1), docs: SUBSET Document]
Tagged == [tag: 0..MaxWrites, store: Store]
Nothing == [next |-> 1, docs |-> {}]
NoCopy == [tag |-> 0, store |-> Nothing]

KnowledgeTypeOK ==
  /\ index \in Tagged /\ parsed \in [Readers -> Tagged]
  /\ added \subseteq [source: Sources, id: 1..MaxWrites]

KnowledgeInit ==
  /\ index = NoCopy /\ parsed = [p \in Readers |-> NoCopy] /\ added = {}
-----------------------------------------------------------------------------
IsCurrent(p) == parsed[p].tag # 0 /\ parsed[p].tag = index.tag

\* _load: the copy, or the file, which becomes the copy when it exists.
Loaded(p) == IF IsCurrent(p) THEN parsed[p] ELSE index

\* _invalidate and _load, before every mutation.
Reread(p) == index.store

\* _prune_generated: the newest of the generated documents stay.
Pruned(docs) ==
  LET generated == {d \in docs : d.source \in Generated} IN
    docs \ {d \in generated : Cardinality({e \in generated : e.id > d.id}) >= Cap}

\* _save: the file is replaced and the copy dropped; when it raises, the copy
\* that was changed in place stays, tagged as it was read.  A store that was
\* read from no file is nobody's copy.
Change(p, store, documents) ==
  \/ /\ index.tag < MaxWrites
     /\ index' = [tag |-> index.tag + 1, store |-> store]
     /\ parsed' = [parsed EXCEPT ![p] = NoCopy]
     /\ added' = documents
  \/ /\ parsed' = [parsed EXCEPT ![p] = IF index.tag = 0 THEN NoCopy ELSE [tag |-> index.tag, store |-> store]]
     /\ UNCHANGED <<index, added>>

\* A mutator that finds nothing to write.
LeaveIndex(p) == parsed' = [parsed EXCEPT ![p] = index] /\ UNCHANGED <<index, added>>
-----------------------------------------------------------------------------
\* add: the document of this source is replaced, with a vector when there is an embedder.
AddDocument(p) ==
  LET store == Reread(p)
      id == store.next
      With(docs, new) == Pruned({d \in docs : d.source # new.source} \cup {new}) IN
    /\ id <= MaxWrites
    /\ \E source \in Sources, vector \in BOOLEAN :
         Change(p, [next |-> id + 1, docs |-> With(store.docs, [source |-> source, id |-> id, vector |-> vector])],
                With(added, [source |-> source, id |-> id]))

\* forget, for an id that may not be there.
Forget(p) ==
  LET store == Reread(p)
      Without(docs, id) == {d \in docs : d.id # id} IN
    \E id \in 1..MaxWrites :
      IF Without(store.docs, id) = store.docs THEN LeaveIndex(p)
      ELSE Change(p, [store EXCEPT !.docs = Without(store.docs, id)], Without(added, id))

Clear(p) == Change(p, [Reread(p) EXCEPT !.docs = {}], {})

\* prune, which finds nothing to drop as long as every add prunes.
Prune(p) == Pruned(Reread(p).docs) = Reread(p).docs /\ LeaveIndex(p)

\* backfill_vectors: the batches the embedder answered are embedded; Stop in
\* between leaves what was embedded in the copy alone.
Backfill(p) ==
  LET store == Reread(p) IN
    \E embedded \in SUBSET {d \in store.docs : ~d.vector} :
      IF embedded = {} THEN LeaveIndex(p)
      ELSE Change(p, [store EXCEPT !.docs = {[d EXCEPT !.vector = d.vector \/ d \in embedded] : d \in store.docs}],
                  added)

\* search, answer, list_documents, stats and export_markdown.
ReadIndex(p) ==
  /\ parsed' = [parsed EXCEPT ![p] = Loaded(p)]
  /\ UNCHANGED <<index, added>>

KnowledgeNext ==
  \E p \in Readers : \/ AddDocument(p) \/ Forget(p) \/ Clear(p) \/ Prune(p) \/ Backfill(p)
                     \/ ReadIndex(p)

KnowledgeSpec == KnowledgeInit /\ [][KnowledgeNext]_knowvars
-----------------------------------------------------------------------------
\* The file holds what was added, less what was replaced, forgotten, cleared or
\* pruned, whichever process each change was made in and whichever failed.
IndexKeepsWhatWasAdded == {[source |-> d.source, id |-> d.id] : d \in index.store.docs} = added

\* "A mutator that fails part way through can never leave a dirty store behind
\* for a reader to see": whoever reads next is shown what the file holds.  The code does
\* otherwise: _invalidate runs before _load, which keeps the very store that is
\* then changed in place, and a write that raises leaves it there.
ReadersSeeTheFile == \A p \in Readers : Loaded(p).store = index.store
=============================================================================
