---------------------------- MODULE KnowledgeBase ----------------------------
(***************************************************************************)
(* The tenants' knowledge bases.  Indexing a report writes its chunks to   *)
(* Chroma, one collection per tenant, and then one row per chunk to        *)
(* knowledge_base_entries; the two stores share no transaction.  Reports   *)
(* and the API search Chroma, the summary counts rows, and the agent       *)
(* domain_knowledge searches a collection of its own.                      *)
(*                                                                         *)
(* A text is its number of words, a chunk a range of words; similarities   *)
(* are whatever the embedding says, so a search returns any hits.          *)
(***************************************************************************)
EXTENDS Integers, FiniteSets, FiniteSetsExt

CONSTANTS
  Tenants, Briefs,
  Owner,          \* [Briefs -> Tenants]
  Consenting,     \* briefs created with consent_store
  Runs,           \* executions of run_research_brief
  CHUNK_WORDS, CHUNK_OVERLAP_WORDS,
  RELATED_TOP_K,  \* hits get_related_briefs asks for
  RELATED_LIMIT   \* briefs it returns

ASSUME TenantsAssumption == /\ Owner \in [Briefs -> Tenants]
                            /\ Consenting \subseteq Briefs
ASSUME ChunkAssumption == /\ CHUNK_WORDS \in Nat \ {0}
                          /\ CHUNK_OVERLAP_WORDS \in Nat

VARIABLES
  vectors,  \* documents in Chroma, over all collections
  entries   \* committed rows of knowledge_base_entries

kbVars == <<vectors, entries>>

\* Mutant: one collection for all tenants.
KbCollectionShared(t) == <<"kb">>
\* memory._kb_collection.
KbCollection(t) == <<"kb", t>>
\* chroma_tool.COLLECTION_NAME.
COLLECTION_NAME == <<"knowledge_base">>

\* Mutant: the loop stops before the chunk that reaches the end.
ChunksShort(n) ==
  LET step == Max({CHUNK_WORDS - CHUNK_OVERLAP_WORDS, 1})
      starts == {s \in 0..(n - 1) : s % step = 0 /\ s + CHUNK_WORDS < n}
  IN  {[from |-> s + 1, to |-> s + CHUNK_WORDS] : s \in starts}
\* _chunk_text of n words: a chunk starts every step words, until one reaches
\* the end.
Chunks(n) ==
  LET step == Max({CHUNK_WORDS - CHUNK_OVERLAP_WORDS, 1})
      starts == {s \in 0..(n - 1) :
                   s % step = 0 /\ (s = 0 \/ s - step + CHUNK_WORDS < n)}
  IN  {[from |-> s + 1, to |-> Min({s + CHUNK_WORDS, n})] : s \in starts}

\* The documents and the rows run r makes of n words for brief b; every pass
\* draws new ids, so that two passes over a brief never coincide.
Documents(r, b, n) ==
  {[collection |-> KbCollection(Owner[b]), brief |-> b, by |-> r,
    chunk |-> c] : c \in Chunks(n)}
Rows(r, b, n) ==
  {[tenant |-> Owner[b], brief |-> b, by |-> r, chunk |-> c] : c \in Chunks(n)}

KbInit == vectors = {} /\ entries = {}

\* memory.write_semantic: one call of collection.add.
WriteSemantic(r, b, n) ==
  /\ vectors' = vectors \cup Documents(r, b, n)
  /\ UNCHANGED entries

\* The commit that ends index_brief.
CommitEntries(r, b, n) ==
  /\ entries' = entries \cup Rows(r, b, n)
  /\ UNCHANGED vectors

\* memory.search_semantic: the top_k nearest documents, any documents here.
SearchSemantic(t, k) ==
  LET docs == {v \in vectors : v.collection = KbCollection(t)}
  IN  kSubset(Min({k, Cardinality(docs)}), docs)

\* get_related_briefs: hits grouped by brief, the best briefs first.  The brief
\* that asks is not excluded.
RelatedAnswers(t) ==
  UNION {LET found == {v.brief : v \in hits}
         IN  kSubset(Min({RELATED_LIMIT, Cardinality(found)}), found) :
         hits \in SearchSemantic(t, RELATED_TOP_K)}

\* What domain_knowledge can be given: the documents of the tool's collection
\* with the tenant's id.  add_knowledge_entry, which would fill the collection,
\* has no caller.
SearchKnowledgeBase(t) ==
  {v \in vectors : v.collection = COLLECTION_NAME /\ Owner[v.brief] = t}

\* total_briefs_indexed of GET /v1/knowledge.
BriefsIndexed(t) == {e.brief : e \in {x \in entries : x.tenant = t}}

-----------------------------------------------------------------------------
(* Properties *)

ChunkRanges == [from : Nat, to : Nat]
KbTypeOK ==
  /\ \A v \in vectors : /\ DOMAIN v = {"collection", "brief", "by", "chunk"}
                        /\ v.brief \in Briefs /\ v.by \in Runs
                        /\ v.collection = KbCollection(Owner[v.brief])
                        /\ v.chunk \in ChunkRanges
  /\ \A e \in entries : /\ DOMAIN e = {"tenant", "brief", "by", "chunk"}
                        /\ e.brief \in Briefs /\ e.by \in Runs
                        /\ e.tenant = Owner[e.brief]
                        /\ e.chunk \in ChunkRanges

\* Whatever fails between the two stores, every chunk the summary counts for a
\* tenant is a document a search of that tenant can return.
EntriesAreSearchable ==
  \A e \in entries :
    [collection |-> KbCollection(e.tenant), brief |-> e.brief, by |-> e.by,
     chunk |-> e.chunk] \in vectors

\* What the tool tells the agent ("Search the tenant's private knowledge base
\* of past research"): a tenant with indexed briefs has something to find.
AgentFindsIndexed ==
  \A t \in Tenants : BriefsIndexed(t) # {} => SearchKnowledgeBase(t) # {}

=============================================================================
