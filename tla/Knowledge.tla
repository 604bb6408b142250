------------------------------- MODULE Knowledge -------------------------------
(* The retrieval layer (src/ai/rag): processes load the Markdown corpus, bring the
   chunks kept in a vector store up to date with it, document by document, and then
   answer queries out of that store.  With the memory backend the store is part of the
   process and starts empty; with Qdrant one collection is shared by all processes and
   outlives them, and every step below is a request of its own to it.

   Simplifications.  A document is the number of its path, its text a version, a chunk
   its place in a version; what a chunk costs, how well it matches a query and where its
   id comes among the ids are constants, and equal scores are ordered by id in Qdrant too,
   which promises no order of them.  All processes embed with one model.  The corpus is
   read in one step.  The only metadata of a document is its trust, its kind and whether a
   family names it, and of the three only the first changes.                          *)
EXTENDS Integers, FiniteSets, FiniteSetsExt, SequencesExt

CONSTANTS
  Workers,              \* processes that build a knowledge service, none called "shared"
  Docs,                 \* the corpus' paths, in their order: 1..N
  Versions,             \* the versions a text goes through: 1..M
  Length,               \* Length[d][v]: chunks version v of document d is split into; none
                        \* if it is headings only
  Cost(_),              \* Cost(c): estimated tokens of a chunk
  Score(_, _),          \* Score(q, c): similarity of a chunk to a query
  IdRank(_),            \* the place of a chunk id in the order of strings: "a#10" before "a#2"
  KindOf, FamilyOf,     \* the metadata of a document
  Agents, KindsFor,     \* the agents that ask, and the kinds each one asks for
  Families,             \* what a job's findings attribute it to; "none" is always one
  Backends,             \* RAG_VECTOR_BACKEND: "memory", "qdrant"
  TopK, Overfetch,      \* chunks to show, and candidates to fetch for each of them
  MaxPerDoc, MaxTokens, MinScore,
  MaxRuns, MaxEdits, MaxFaults   \* bounds of the model

ASSUME KnowledgeAssumption ==
  /\ Docs \subseteq Nat /\ Versions \subseteq Nat \ {0} /\ 1 \in Versions
  /\ \A d \in Docs, v \in Versions : Length[d][v] \in Nat
  /\ "none" \in Families /\ "shared" \notin Workers
  /\ {TopK, Overfetch, MaxPerDoc, MaxTokens, MaxRuns, MaxEdits, MaxFaults} \subseteq Nat

VARIABLES
  backend,     \* the configured vector store
  corpus,      \* document -> the version on disk (0: no such file) and its trust
  collection,  \* Qdrant has the collection
  stored,      \* chunks, each with the store it is in
  proc,        \* worker -> what its process is doing
  torn,        \* documents two ingestions of one store took different versions of (history)
  runs, edits, faults   \* counters of the bounds

kvars == <<backend, corpus, collection, stored, proc, torn, runs, edits, faults>>

Down == [phase |-> "down", force |-> FALSE, loaded |-> [d \in Docs |-> 0], todo |-> {},
         home |-> FALSE, hurt |-> FALSE, query |-> [kinds |-> {}, family |-> "none"],
         found |-> {}, shown |-> {}]

Ingesting == {"probe", "replace", "embed", "upsert"}
Replacing == {"embed", "upsert"}      \* a document's old chunks are gone

Home(w) == IF backend = "qdrant" THEN "shared" ELSE w
Peers(w) == {v \in Workers \ {w} : Home(v) = Home(w) /\ proc[v].phase \in Ingesting}

\* Chunk ids are deterministic: the document and the ordinal, never the version.
Id(c) == <<c.doc, c.ord>>
Chunks(place, d, v) ==
  {[at |-> place, doc |-> d, ord |-> o, text |-> v] : o \in 0..(Length[d][v] - 1)}
Kept(place, d) == {c \in stored : c.at = place /\ c.doc = d}

Trusted(d) == corpus[d].trusted
Loadable(d) == corpus[d].text # 0 /\ Trusted(d)

Fault == faults < MaxFaults /\ faults' = faults + 1
NoFault == UNCHANGED faults
Go(w, p) == proc' = [proc EXCEPT ![w].phase = p]

(* -------------------------------- processes ---------------------------------- *)

\* build_knowledge_service, or `python -m ai.rag`, which may force.
StartService(w) ==
  /\ proc[w].phase = "down" /\ runs < MaxRuns
  /\ \E f \in BOOLEAN :
       proc' = [proc EXCEPT ![w] =
         [Down EXCEPT !.phase = IF backend = "qdrant" THEN "check" ELSE "load", !.force = f]]
  /\ runs' = runs + 1
  /\ UNCHANGED <<backend, corpus, collection, stored, torn, edits, faults>>

\* A process that ends takes its in-memory store with it.
Gone(w) ==
  /\ proc' = [v \in Workers |->
                IF v = w THEN Down
                ELSE IF v \in Peers(w) /\ proc[w].phase \in Replacing
                     THEN [proc[v] EXCEPT !.hurt = TRUE] ELSE proc[v]]
  /\ stored' = {c \in stored : c.at # w}

EndService(w) ==
  /\ proc[w].phase \in {"serving", "answered"}
  /\ Gone(w) /\ UNCHANGED <<backend, corpus, collection, torn, runs, edits, faults>>

CrashService(w) ==
  /\ proc[w].phase \in {"check", "create", "load", "asking"} \cup Ingesting
  /\ Gone(w) /\ Fault /\ UNCHANGED <<backend, corpus, collection, torn, runs, edits>>

(* -------------------------------- ingestion ---------------------------------- *)

\* ensure_collection asks first; whatever fails is logged and the service goes on.
CheckCollection(w) ==
  /\ proc[w].phase = "check"
  /\ \/ Go(w, IF collection THEN "load" ELSE "create") /\ NoFault
     \/ Go(w, "load") /\ Fault
  /\ UNCHANGED <<backend, corpus, collection, stored, torn, runs, edits>>

\* The second of two creators is refused (409), which is swallowed too.
CreateCollection(w) ==
  /\ proc[w].phase = "create"
  /\ \/ collection' = TRUE /\ NoFault
     \/ collection' = collection /\ Fault
  /\ Go(w, "load")
  /\ UNCHANGED <<backend, corpus, stored, torn, runs, edits>>

\* ingest_directory: files that are empty, undeclared or untrusted are rejected.
Load(w) ==
  LET loaded == [d \in Docs |-> IF Loadable(d) THEN corpus[d].text ELSE 0] IN
  /\ proc[w].phase = "load"
  /\ proc' = [proc EXCEPT ![w].phase = "probe", ![w].loaded = loaded,
                          ![w].home = backend = "memory" \/ collection]
  /\ torn' = torn \cup {d \in Docs : loaded[d] # 0 /\
                          \E v \in Peers(w) : proc[v].loaded[d] \notin {0, loaded[d]}}
  /\ UNCHANGED <<backend, corpus, collection, stored, runs, edits, faults>>

\* A version of headings only has no sections to split: nothing is made of it.
HasChunks(d, v) == v # 0 /\ Length[d][v] # 0

\* document_hashes: the hash of whichever chunk of a document is scrolled first; a probe
\* that fails counts as a store without documents.
Hashes(place) ==
  {h \in [Docs -> Versions \cup {0}] :
     \A d \in Docs : IF Kept(place, d) = {} THEN h[d] = 0
                     ELSE \E c \in Kept(place, d) : c.text = h[d]}

\* A document without chunks is rejected here, with what is stored of it left as it is.
Probe(w) ==
  /\ proc[w].phase = "probe"
  /\ \E h \in Hashes(Home(w)) \cup {[d \in Docs |-> 0]} :
       /\ IF h \in Hashes(Home(w)) THEN NoFault ELSE backend = "qdrant" /\ Fault
       /\ proc' = [proc EXCEPT ![w].phase = "replace", ![w].todo =
                     {d \in Docs : /\ HasChunks(d, proc[w].loaded[d])
                                   /\ proc[w].force \/ h[d] # proc[w].loaded[d]}]
  /\ UNCHANGED <<backend, corpus, collection, stored, torn, runs, edits>>

Current(w) == Min(proc[w].todo)

\* Any failure ends the whole ingestion; the service is built all the same.  What others
\* were told while a document was without its chunks may have been wrong.
Abort(w) ==
  /\ Fault
  /\ proc' = [v \in Workers |->
                IF v = w THEN [proc[w] EXCEPT !.phase = "serving", !.todo = {}]
                ELSE IF v \in Peers(w) THEN [proc[v] EXCEPT !.hurt = TRUE] ELSE proc[v]]

\* Mutant: ids are deterministic, so the upsert is enough.
KeepOld(w) ==
  /\ proc[w].phase = "replace" /\ proc[w].todo # {}
  /\ Go(w, "embed") /\ NoFault
  /\ UNCHANGED <<backend, corpus, collection, stored, torn, runs, edits>>

DeleteDocument(w) ==
  LET left == stored \ Kept(Home(w), Current(w)) IN
  /\ proc[w].phase = "replace" /\ proc[w].todo # {}
  /\ \/ stored' = left /\ Go(w, "embed") /\ NoFault
     \/ backend = "qdrant" /\ stored' \in {stored, left} /\ Abort(w)
  /\ UNCHANGED <<backend, corpus, collection, torn, runs, edits>>

Embed(w) ==
  /\ proc[w].phase = "embed"
  /\ \/ Go(w, "upsert") /\ NoFault
     \/ Abort(w)
  /\ UNCHANGED <<backend, corpus, collection, stored, torn, runs, edits>>

\* Chunks take the place of those with their ids.  Qdrant's answer 404 for a collection
\* that is not there is taken for success.
Upsert(w) ==
  LET new     == Chunks(Home(w), Current(w), proc[w].loaded[Current(w)])
      written == IF backend = "qdrant" /\ ~collection THEN stored
                 ELSE {c \in stored : ~\E n \in new : n.at = c.at /\ Id(n) = Id(c)} \cup new
  IN /\ proc[w].phase = "upsert"
     /\ \/ /\ stored' = written /\ NoFault
           /\ proc' = [proc EXCEPT ![w].phase = "replace", ![w].todo = @ \ {Current(w)}]
        \/ backend = "qdrant" /\ stored' \in {stored, written} /\ Abort(w)
     /\ UNCHANGED <<backend, corpus, collection, torn, runs, edits>>

\* An ingestion with nothing left to replace reports itself complete.
Complete(w) == proc[w].phase = "replace" /\ proc[w].todo = {}

Report(w) ==
  /\ Complete(w) /\ Go(w, "serving")
  /\ UNCHANGED <<backend, corpus, collection, stored, torn, runs, edits, faults>>

(* -------------------------------- retrieval ---------------------------------- *)

\* The kinds an agent is given, and the family its findings name, if they name one.
BuildQuery(a, f) == [kinds |-> KindsFor[a], family |-> f]

\* What there is to retrieve, and in whatever place.
Passages == UNION {Chunks(p, d, v) : p \in Workers \cup {"shared"}, d \in Docs, v \in Versions}

ASSUME MeasureAssumption ==
  /\ MinScore \in Int
  /\ \A c \in Passages :
       Cost(c) \in Nat /\ \A a \in Agents, f \in Families : Score(BuildQuery(a, f), c) \in Int
  /\ \A c, e \in Passages :
       IdRank(Id(c)) \in Nat /\ (IdRank(Id(c)) = IdRank(Id(e)) => Id(c) = Id(e))

\* Best score first, then by chunk id.
Better(q, c, e) ==
  \/ Score(q, c) > Score(q, e)
  \/ Score(q, c) = Score(q, e) /\ IdRank(Id(c)) < IdRank(Id(e))

\* How many of a set go before a chunk.
Position(q, cs, c) == Cardinality({e \in cs : Better(q, e, c)})
Ranked(q, cs) ==
  [n \in 1..Cardinality(cs) |-> CHOOSE c \in cs : Position(q, cs, c) = n - 1]

\* The filter of a search: only the general pass leaves families alone.
Matches(q, c, families) ==
  (q.kinds = {} \/ KindOf[c.doc] \in q.kinds) /\ (families = {} \/ FamilyOf[c.doc] \in families)

SearchStore(w, q, families) ==
  LET hits == {c \in stored : c.at = Home(w) /\ Matches(q, c, families)} IN
  {c \in hits : Position(q, hits, c) < TopK * Overfetch}

\* Two passes may bring one chunk in two versions: the better scored one stays, the
\* family pass' if they are equal.
Merge(q, primary, secondary) ==
  {c \in primary : \A e \in secondary : Id(e) = Id(c) => Score(q, e) <= Score(q, c)} \cup
  {c \in secondary : \A e \in primary : Id(e) = Id(c) => Score(q, e) < Score(q, c) \/ e = c}

Tokens(cs) == MapThenSumSet(Cost, cs)

\* Mutant: a chunk that exactly uses up the budget is left out.
AdmitBelow(q, chosen, c) ==
  IF /\ Cardinality(chosen) < TopK
     /\ Score(q, c) >= MinScore
     /\ Cardinality({e \in chosen : e.doc = c.doc}) < MaxPerDoc
     /\ Tokens(chosen) + Cost(c) < MaxTokens
  THEN chosen \cup {c} ELSE chosen

Admit(q, chosen, c) ==
  IF /\ Cardinality(chosen) < TopK
     /\ Score(q, c) >= MinScore
     /\ Cardinality({e \in chosen : e.doc = c.doc}) < MaxPerDoc
     /\ Tokens(chosen) + Cost(c) <= MaxTokens
  THEN chosen \cup {c} ELSE chosen

Select(q, cands) ==
  FoldLeft(LAMBDA chosen, c : Admit(q, chosen, c), {}, Ranked(q, cands))

\* Any failure of a search degrades the answer to an empty one.
Degrade(w) ==
  Fault /\ proc' = [proc EXCEPT ![w].phase = "answered", ![w].found = {}]

Ask(w) ==
  /\ proc[w].phase = "serving"
  /\ \E a \in Agents, f \in Families :
       LET q == BuildQuery(a, f) IN
       proc' = [proc EXCEPT ![w].phase = "asking", ![w].query = q,
                            ![w].found = SearchStore(w, q, {})]
  /\ NoFault /\ UNCHANGED <<backend, corpus, collection, stored, torn, runs, edits>>

Answer(w) ==
  LET q      == proc[w].query
      family == IF q.family = "none" THEN {} ELSE SearchStore(w, q, {q.family})
      cands  == Merge(q, family, proc[w].found)
  IN /\ proc[w].phase = "asking"
     /\ \/ /\ proc' = [proc EXCEPT ![w].phase = "answered", ![w].found = cands,
                                    ![w].shown = Select(q, cands)]
           /\ NoFault
        \/ Degrade(w)
     /\ UNCHANGED <<backend, corpus, collection, stored, torn, runs, edits>>

(* --------------------------------- the corpus -------------------------------- *)

\* A new version, a removed file, or a changed declaration of trust.
EditCorpus(d) ==
  /\ edits < MaxEdits /\ edits' = edits + 1
  /\ \/ \E v \in (Versions \cup {0}) \ {corpus[d].text} : corpus' = [corpus EXCEPT ![d].text = v]
     \/ corpus' = [corpus EXCEPT ![d].trusted = ~@]
  /\ UNCHANGED <<backend, collection, stored, proc, torn, runs, faults>>

KInit ==
  /\ backend \in Backends
  /\ corpus = [d \in Docs |-> [text |-> 1, trusted |-> TRUE]]
  /\ collection = FALSE /\ stored = {} /\ proc = [w \in Workers |-> Down] /\ torn = {}
  /\ runs = 0 /\ edits = 0 /\ faults = 0

KNext ==
  \/ \E d \in Docs : EditCorpus(d)
  \/ \E w \in Workers :
       \/ StartService(w) \/ CheckCollection(w) \/ CreateCollection(w) \/ Load(w)
       \/ Probe(w) \/ DeleteDocument(w) \/ Embed(w) \/ Upsert(w) \/ Report(w)
       \/ Ask(w) \/ Answer(w) \/ EndService(w) \/ CrashService(w)

KSpec == KInit /\ [][KNext]_kvars

(* -------------------------------- properties --------------------------------- *)

\* "re-running over an unchanged corpus rewrites nothing, and an edited document replaces
\* exactly its own chunks" (models.py:96-98): when an ingestion that found its collection
\* reports, the store holds of every document it loaded the chunks of that version and no
\* others, whatever earlier ingestions that failed or were killed half-way left behind
\* (repeated deletes, lost answers, documents without chunks).  A version that is headings
\* only replaces nothing, against those words: the store then holds one whole version of the
\* document, an earlier one as a rule, or nothing, but never parts of two.  Neither is
\* promised for a document that two overlapping ingestions took in different versions, ever
\* after; nor if another one broke off meanwhile or is now between deleting and writing it.
IngestedIsCurrent ==
  \A w \in Workers : Complete(w) /\ proc[w].home /\ ~proc[w].hurt =>
    \A d \in Docs \ torn :
      proc[w].loaded[d] # 0 /\ (\A v \in Peers(w) : proc[v].phase \in Replacing => Current(v) # d)
        => \E v \in Versions :
             /\ Kept(Home(w), d) = Chunks(Home(w), d, v)
             /\ HasChunks(d, proc[w].loaded[d]) => v = proc[w].loaded[d]

\* Retrieval shows what fits, best first: a candidate that matches well enough is left out
\* only if the better ones that are shown fill the answer, its document's share or the
\* token budget (retriever.py:21-24), and those limits hold for what is shown.
SelectionSound ==
  \A w \in Workers : proc[w].phase = "answered" =>
    LET q == proc[w].query  shown == proc[w].shown IN
    /\ Cardinality(shown) <= TopK /\ Tokens(shown) <= MaxTokens
    /\ \A c \in shown : Cardinality({e \in shown : e.doc = c.doc}) <= MaxPerDoc
    /\ \A c \in proc[w].found \ shown :
         LET ahead == {e \in shown : Better(q, e, c)} IN
         \/ Score(q, c) < MinScore
         \/ Cardinality(ahead) = TopK
         \/ Cardinality({e \in ahead : e.doc = c.doc}) = MaxPerDoc
         \/ Tokens(ahead) + Cost(c) > MaxTokens
================================================================================
