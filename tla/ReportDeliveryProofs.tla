------------------------ MODULE ReportDeliveryProofs ------------------------
(* Proofs about ReportDelivery and KnowledgeBase, for every set of tenants, *)
(* briefs, runs and resends, every report length and every chunk size.      *)
EXTENDS ReportDelivery, TLAPS

-----------------------------------------------------------------------------
(* Division *)

\* A number is its quotient times the divisor, and a remainder below it.
LEMMA DivMod ==
  ASSUME NEW a \in Nat, NEW m \in Nat \ {0}
  PROVE  a \div m \in Nat /\ a % m \in 0..(m - 1) /\ a = (a \div m) * m + (a % m)
  OBVIOUS

\* The multiples of distinct numbers are a divisor apart.
LEMMA MulMono ==
  ASSUME NEW p \in Nat, NEW q \in Nat, NEW m \in Nat \ {0}, p < q
  PROVE  p * m + m <= q * m
<1>1. PICK k \in Nat : q = p + 1 + k
  <2>1. q - p - 1 \in Nat /\ q = p + 1 + (q - p - 1)
    OBVIOUS
  <2> QED BY <2>1
<1>2. (p + 1 + k) * m = p * m + m + k * m
  OBVIOUS
<1>3. k * m \in Nat /\ p * m \in Nat
  OBVIOUS
<1> QED BY <1>1, <1>2, <1>3

\* A multiple leaves no remainder.
LEMMA MultipleMod ==
  ASSUME NEW q \in Nat, NEW m \in Nat \ {0}
  PROVE  (q * m) % m = 0
<1> DEFINE d == (q * m) \div m
           r == (q * m) % m
<1>1. q * m \in Nat
  OBVIOUS
<1>2. d \in Nat /\ r \in 0..(m - 1) /\ q * m = d * m + r
  BY <1>1, DivMod
<1> HIDE DEF d, r
<1>3. d * m \in Nat
  BY <1>2
<1>4. ~(q < d)
  <2>1. q < d => q * m + m <= d * m
    BY <1>2, MulMono
  <2> QED BY <1>1, <1>2, <1>3, <2>1
<1>5. ~(d < q)
  <2>1. d < q => d * m + m <= q * m
    BY <1>2, MulMono
  <2> QED BY <1>1, <1>2, <1>3, <2>1
<1>6. d = q
  BY <1>2, <1>4, <1>5
<1>7. r = 0
  BY <1>1, <1>2, <1>6
<1> QED BY <1>7 DEF r

\* Below every number there is a multiple less than a divisor away.
LEMMA RoundDown ==
  ASSUME NEW a \in Nat, NEW m \in Nat \ {0}
  PROVE  \E s \in Nat : s % m = 0 /\ s <= a /\ a < s + m
<1>1. a \div m \in Nat /\ a % m \in 0..(m - 1) /\ a = (a \div m) * m + (a % m)
  BY DivMod
<1> DEFINE s == (a \div m) * m
<1>2. s \in Nat /\ s % m = 0
  BY <1>1, MultipleMod
<1>3. s <= a /\ a < s + m
  <2>1. a = s + (a % m)
    BY <1>1
  <2> HIDE DEF s
  <2> QED BY <1>1, <1>2, <2>1
<1> QED BY <1>2, <1>3

\* A step after a multiple comes another one ...
LEMMA NextMultiple ==
  ASSUME NEW a \in Nat, NEW m \in Nat \ {0}, a % m = 0
  PROVE  (a + m) % m = 0
<1>1. a \div m \in Nat /\ a = (a \div m) * m
  BY DivMod
<1>2. PICK q \in Nat : a = q * m
  BY <1>1
<1>3. a + m = (q + 1) * m
  BY <1>2
<1>4. q + 1 \in Nat
  OBVIOUS
<1> QED BY <1>3, <1>4, MultipleMod

\* ... and none in between.
LEMMA MultiplesApart ==
  ASSUME NEW a \in Nat, NEW b \in Nat, NEW m \in Nat \ {0},
         a % m = 0, b % m = 0, a < b
  PROVE  a + m <= b
<1>1. PICK p \in Nat, q \in Nat : a = p * m /\ b = q * m
  <2>1. a \div m \in Nat /\ a = (a \div m) * m /\ b \div m \in Nat /\ b = (b \div m) * m
    BY DivMod
  <2> QED BY <2>1
<1>2. p < q
  <2>1. q < p => q * m + m <= p * m
    BY MulMono
  <2>2. q * m \in Nat /\ p * m \in Nat
    OBVIOUS
  <2>3. q = p => q * m = p * m
    OBVIOUS
  <2> QED BY <1>1, <2>1, <2>2, <2>3
<1> QED BY <1>1, <1>2, MulMono

-----------------------------------------------------------------------------
USE TenantsAssumption, ChunkAssumption, DeliveriesAssumption

\* Which brief a delivery is about, and which row it will commit to.
Rendered == Writing \cup {"open_report", "path", "email"}
JobsAgree ==
  \A d \in Deliveries :
    /\ pc[d] = "none" <=> job[d] = NoBrief
    /\ pc[d] \in Rendered => /\ target[d] \in ReportsOf(job[d])
                             /\ job[d] \in Briefs

\* What the index holds, and what the pass between its two stores has put there.
IndexAgrees ==
  /\ \A v \in vectors : v.brief \in Consenting /\ v.brief \in completed
  /\ \A r \in Runs :
       /\ pc[r] \in {"index", "commit"} =>
            job[r] \in Consenting /\ job[r] \in completed
       /\ pc[r] = "commit" =>
            /\ source[r] \in Runs
            /\ Documents(r, job[r], Length[source[r]]) \subseteq vectors

RelatedAgrees ==
  \A d \in Deliveries :
    /\ pc[d] = "none" => related[d] = {}
    /\ \A b \in related[d] : MayBeListed(b, Owner[job[d]])

\* Where a path is, there are files.
PathsAgree ==
  /\ \A d \in Deliveries :
       /\ pc[d] \in {"write_report", "open_trace"} =>
            file[job[d]]["report"] # Absent
       /\ pc[d] \in {"write_trace", "path", "email"} =>
            \A f \in Files : file[job[d]][f] # Absent
       /\ pc[d] = "email" => target[d] \in pathed
  /\ \A x \in pathed : /\ job[x] \in Briefs
                       /\ \A f \in Files : file[job[x]][f] # Absent

\* How far the only writer of an undisturbed brief has come; without a writer
\* the files are one delivery's, or none's.
WriterAgrees(d) ==
  LET f == file[job[d]]
  IN  /\ pc[d] = "write_report" => f["report"] = Cut
      /\ pc[d] \in {"open_trace", "write_trace"} => f["report"] = Written(d)
      /\ pc[d] = "write_trace" => f["trace"] = Cut
Writes(d, b) == job[d] = b /\ pc[d] \in Writing
FilesAgreeOn(b) ==
  /\ \A d, e \in Deliveries : Writes(d, b) /\ Writes(e, b) => d = e
  /\ \A d \in Deliveries : Writes(d, b) => WriterAgrees(d)
  /\ (\A d \in Deliveries : ~Writes(d, b)) =>
       \/ \A f \in Files : file[b][f] = Absent
       \/ \E d \in Deliveries : \A f \in Files : file[b][f] = Written(d)
FilesAgree == \A b \in Briefs \ disturbed : FilesAgreeOn(b)

DeliveryInv ==
  /\ DeliveryTypeOK /\ JobsAgree /\ IndexAgrees /\ RelatedAgrees
  /\ EntriesAreSearchable /\ PathsAgree /\ FilesAgree

-----------------------------------------------------------------------------
(* The knowledge base *)

\* The smaller of two numbers is a number.
LEMMA MinOfTwo ==
  ASSUME NEW a \in Nat, NEW b \in Nat
  PROVE  Min({a, b}) \in Nat
<1>1. CASE a <= b
  <2>1. a \in {a, b} /\ \A y \in {a, b} : a =< y
    BY <1>1
  <2> QED BY <2>1 DEF Min
<1>2. CASE b <= a
  <2>1. b \in {a, b} /\ \A y \in {a, b} : b =< y
    BY <1>2
  <2> QED BY <2>1 DEF Min
<1> QED BY <1>1, <1>2

\* A chunk is a range of numbers of words.
LEMMA ChunksTyped ==
  ASSUME NEW n \in Nat
  PROVE  Chunks(n) \subseteq ChunkRanges
<1>1. ASSUME NEW s \in 0..(n - 1)
      PROVE  [from |-> s + 1, to |-> Min({s + CHUNK_WORDS, n})] \in ChunkRanges
  <2>1. Min({s + CHUNK_WORDS, n}) \in Nat
    BY MinOfTwo
  <2> QED BY <2>1 DEF ChunkRanges
<1> QED BY <1>1 DEF Chunks

\* What a pass writes to either store is typed and of the brief's own tenant.
LEMMA PassTyped ==
  ASSUME NEW r \in Runs, NEW b \in Briefs, NEW n \in Nat
  PROVE  /\ \A v \in Documents(r, b, n) :
              /\ DOMAIN v = {"collection", "brief", "by", "chunk"}
              /\ v.brief = b /\ v.by = r
              /\ v.collection = KbCollection(Owner[b])
              /\ v.chunk \in ChunkRanges
         /\ \A e \in Rows(r, b, n) :
              /\ DOMAIN e = {"tenant", "brief", "by", "chunk"}
              /\ e.brief = b /\ e.by = r /\ e.tenant = Owner[b]
              /\ e.chunk \in ChunkRanges
  BY ChunksTyped DEF Documents, Rows

\* A row of a pass is a document of the same pass.
LEMMA RowsHaveDocuments ==
  ASSUME NEW r, NEW b, NEW n, NEW e \in Rows(r, b, n)
  PROVE  [collection |-> KbCollection(e.tenant), brief |-> e.brief,
          by |-> e.by, chunk |-> e.chunk] \in Documents(r, b, n)
<1>1. PICK c \in Chunks(n) :
        e = [tenant |-> Owner[b], brief |-> b, by |-> r, chunk |-> c]
  BY DEF Rows
<1>2. e.tenant = Owner[b] /\ e.brief = b /\ e.by = r /\ e.chunk = c
  BY <1>1
<1> QED BY <1>2 DEF Documents

\* A search of one tenant's collection names no other tenant's brief.
LEMMA SearchStaysInTenant ==
  ASSUME KbTypeOK, NEW t, NEW answer \in RelatedAnswers(t), NEW b \in answer
  PROVE  \E v \in vectors : v.brief = b /\ Owner[b] = t
<1>1. PICK hits \in SearchSemantic(t, RELATED_TOP_K) :
        answer \subseteq {v.brief : v \in hits}
  BY DEF RelatedAnswers, kSubset
<1>2. hits \subseteq {v \in vectors : v.collection = KbCollection(t)}
  BY DEF SearchSemantic, kSubset
<1>3. PICK v \in vectors : v.collection = KbCollection(t) /\ v.brief = b
  BY <1>1, <1>2
<1>4. KbCollection(Owner[b]) = KbCollection(t)
  BY <1>3 DEF KbTypeOK
<1>5. Owner[b] = t
  BY <1>4 DEF KbCollection
<1> QED BY <1>3, <1>5

-----------------------------------------------------------------------------
\* No run, no file and an empty index at the start.
LEMMA DeliveryInit == Init => DeliveryInv
<1> SUFFICES ASSUME Init PROVE DeliveryInv
  OBVIOUS
<1> USE DEF Init, KbInit
<1>1. DeliveryTypeOK
  <2>1. Absent \in [head : FileEnds, tail : FileEnds]
    BY DEF Absent, FileEnds
  <2>2. file \in [Briefs -> [Files -> [head : FileEnds, tail : FileEnds]]]
    BY <2>1
  <2>3. KbTypeOK
    BY DEF KbTypeOK
  <2>4. /\ pc \in [Deliveries -> Active \cup {"none", "done", "failed"}]
        /\ job \in [Deliveries -> Briefs \cup {NoBrief}]
        /\ related \in [Deliveries -> SUBSET Briefs]
        /\ source \in [Runs -> Runs \cup {NoRun}]
        /\ target \in [Deliveries -> Runs \cup {NoRun}]
    OBVIOUS
  <2>5. /\ completed \subseteq Briefs /\ pathed \subseteq Runs
        /\ emailed \subseteq pathed /\ disturbed \subseteq Briefs
    OBVIOUS
  <2> HIDE DEF Init
  <2> QED BY <2>2, <2>3, <2>4, <2>5 DEF DeliveryTypeOK
<1>2. JobsAgree
  BY DEF JobsAgree, Rendered, Writing
<1>3. IndexAgrees
  BY DEF IndexAgrees, Deliveries
<1>4. RelatedAgrees /\ EntriesAreSearchable
  BY DEF RelatedAgrees, EntriesAreSearchable
<1>5. PathsAgree
  BY DEF PathsAgree
<1>6. FilesAgree
  BY DEF FilesAgree, FilesAgreeOn, Writes, Writing
<1> HIDE DEF Init
<1> QED BY <1>1, <1>2, <1>3, <1>4, <1>5, <1>6 DEF DeliveryInv

\* A step that writes no file and neither joins the writers nor leaves them.
LEMMA QuietStep ==
  ASSUME DeliveryInv, NEW d \in Deliveries, NEW label,
         Goto(d, label), pc[d] \notin Writing, label \notin Writing,
         \A e \in Deliveries \ {d} : job'[e] = job[e],
         UNCHANGED <<file, disturbed>>
  PROVE  FilesAgree'
<1>1. ASSUME NEW e \in Deliveries, NEW b
      PROVE  Writes(e, b)' = Writes(e, b)
  BY DEF Goto, Writes, DeliveryInv, DeliveryTypeOK
<1>2. ASSUME NEW e \in Deliveries, NEW b, Writes(e, b)
      PROVE  WriterAgrees(e)' = WriterAgrees(e)
  BY <1>2 DEF Goto, Writes, WriterAgrees, DeliveryInv, DeliveryTypeOK
<1>3. ASSUME NEW b \in Briefs, FilesAgreeOn(b) PROVE FilesAgreeOn(b)'
  BY <1>1, <1>2, <1>3 DEF FilesAgreeOn
<1> QED BY <1>3 DEF DeliveryInv, FilesAgree
-----------------------------------------------------------------------------
(* The end of a run, and the resend route *)

\* A delivery starts: its brief is set, and nothing else refers to it yet.
LEMMA StartStep ==
  ASSUME DeliveryInv, NEW d \in Deliveries, NEW b \in Briefs,
         NEW label \in {"finish", "load"}, pc[d] = "none",
         job' = [job EXCEPT ![d] = b], Goto(d, label),
         UNCHANGED <<kbVars, completed, pathed, emailed, related, source,
                     target, fileVars>>
  PROVE  DeliveryInv'
<1> USE DEF kbVars, fileVars
<1>1. DeliveryTypeOK'
  BY DEF Goto, DeliveryInv, DeliveryTypeOK, KbTypeOK, Active
<1>2. job[d] = NoBrief /\ related[d] = {}
  BY DEF DeliveryInv, JobsAgree, RelatedAgrees
<1>3. ASSUME NEW e \in Deliveries \ {d}
      PROVE  job'[e] = job[e] /\ pc'[e] = pc[e]
  BY DEF Goto, DeliveryInv, DeliveryTypeOK
<1>4. job'[d] = b /\ pc'[d] = label
  BY DEF Goto, DeliveryInv, DeliveryTypeOK
<1>5. \A c \in Briefs : ReportsOf(c) \subseteq ReportsOf(c)'
  BY <1>2, <1>3 DEF ReportsOf, Deliveries
<1>6. JobsAgree'
  BY <1>3, <1>4, <1>5 DEF DeliveryInv, JobsAgree, Rendered, Writing
<1>7. IndexAgrees'
  BY <1>3, <1>4 DEF DeliveryInv, IndexAgrees, Deliveries, Documents
<1>8. RelatedAgrees' /\ EntriesAreSearchable'
  BY <1>2, <1>3, <1>4
     DEF DeliveryInv, RelatedAgrees, MayBeListed, EntriesAreSearchable
<1>9. PathsAgree'
  <2>1. \A x \in pathed : x \in Deliveries /\ x # d
    BY <1>2 DEF DeliveryInv, DeliveryTypeOK, Deliveries, PathsAgree
  <2> QED BY <1>3, <1>4, <2>1 DEF DeliveryInv, PathsAgree
<1>10. FilesAgree'
  BY <1>3, QuietStep DEF Writing
<1> QED BY <1>1, <1>6, <1>7, <1>8, <1>9, <1>10 DEF DeliveryInv

\* A completed brief may be indexed, if its owner consented.
LEMMA SetCompleteStep ==
  ASSUME DeliveryInv, NEW r \in Runs, SetComplete(r)
  PROVE  DeliveryInv'
<1>1. /\ pc[r] = "finish" /\ completed' = completed \cup {job[r]}
      /\ Goto(r, AfterComplete(job[r]))
      /\ UNCHANGED <<vectors, entries, job, pathed, emailed, related, source,
                     target, file, disturbed>>
  BY DEF SetComplete, kbVars, fileVars
<1>2. r \in Deliveries /\ AfterComplete(job[r]) \in {"index", "load"}
  BY DEF Deliveries, AfterComplete
<1>3. job[r] \in Briefs
  BY <1>1, <1>2 DEF DeliveryInv, JobsAgree, DeliveryTypeOK
<1>4. /\ pc'[r] = AfterComplete(job[r])
      /\ \A e \in Deliveries \ {r} : pc'[e] = pc[e]
  BY <1>1, <1>2 DEF Goto, DeliveryInv, DeliveryTypeOK
<1>5. DeliveryTypeOK'
  BY <1>1, <1>2, <1>3
     DEF Goto, DeliveryInv, DeliveryTypeOK, KbTypeOK, Active
<1>6. JobsAgree'
  BY <1>1, <1>2, <1>4
     DEF DeliveryInv, JobsAgree, Rendered, Writing, ReportsOf
<1>7. IndexAgrees'
  BY <1>1, <1>2, <1>4
     DEF DeliveryInv, IndexAgrees, AfterComplete, Deliveries, Documents
<1>8. RelatedAgrees' /\ EntriesAreSearchable'
  BY <1>1, <1>2, <1>4
     DEF DeliveryInv, RelatedAgrees, MayBeListed, EntriesAreSearchable
<1>9. PathsAgree'
  BY <1>1, <1>2, <1>4 DEF DeliveryInv, PathsAgree
<1>10. FilesAgree'
  BY <1>1, <1>2, QuietStep DEF Writing
<1> QED BY <1>5, <1>6, <1>7, <1>8, <1>9, <1>10 DEF DeliveryInv

\* The documents of a pass are in Chroma before its commit.
LEMMA EmbedStep ==
  ASSUME DeliveryInv, NEW r \in Runs, Embed(r)
  PROVE  DeliveryInv'
<1>1. PICK x \in ReportsOf(job[r]) :
        /\ source' = [source EXCEPT ![r] = x]
        /\ vectors' = vectors \cup Documents(r, job[r], Length[x])
        /\ Goto(r, IF Length[x] = 0 THEN "load" ELSE "commit")
  BY DEF Embed, WriteSemantic
<1> DEFINE label == IF Length[x] = 0 THEN "load" ELSE "commit"
           docs == Documents(r, job[r], Length[x])
<1>2. /\ pc[r] = "index"
      /\ UNCHANGED <<entries, job, completed, pathed, emailed, related, target,
                     file, disturbed>>
  BY <1>1 DEF Embed, WriteSemantic, rowVars, fileVars
<1>3. r \in Deliveries /\ x \in Runs /\ Length[x] \in Nat
  BY DEF Deliveries, ReportsOf
<1>4. job[r] \in Briefs /\ job[r] \in Consenting /\ job[r] \in completed
  BY <1>2, <1>3 DEF DeliveryInv, IndexAgrees, DeliveryTypeOK
<1>5. /\ pc'[r] = label /\ source'[r] = x
      /\ \A e \in Deliveries \ {r} : pc'[e] = pc[e]
      /\ \A e \in Runs \ {r} : source'[e] = source[e]
  BY <1>1, <1>3 DEF Goto, DeliveryInv, DeliveryTypeOK
<1>6. /\ \A v \in docs : v.brief = job[r] /\ v.by = r
      /\ \A v \in docs :
           /\ DOMAIN v = {"collection", "brief", "by", "chunk"}
           /\ v.collection = KbCollection(Owner[job[r]])
           /\ v.chunk \in ChunkRanges
  BY <1>3, <1>4, PassTyped
<1> HIDE DEF docs
<1>7. vectors' = vectors \cup docs
  BY <1>1 DEF docs
<1>8. DeliveryTypeOK'
  <2>1. KbTypeOK'
    <3>1. KbTypeOK /\ entries' = entries
      BY <1>2 DEF DeliveryInv, DeliveryTypeOK
    <3>2. \A v \in vectors' :
            /\ DOMAIN v = {"collection", "brief", "by", "chunk"}
            /\ v.brief \in Briefs /\ v.by \in Runs
            /\ v.collection = KbCollection(Owner[v.brief])
            /\ v.chunk \in ChunkRanges
      BY <1>4, <1>6, <1>7, <3>1 DEF KbTypeOK
    <3> QED BY <3>1, <3>2 DEF KbTypeOK, KbCollection, ChunkRanges
  <2>2. pc' = [pc EXCEPT ![r] = label]
    BY <1>1 DEF Goto
  <2>3. label \in {"load", "commit"}
    OBVIOUS
  <2> HIDE DEF label
  <2>4. pc' \in [Deliveries -> Active \cup {"none", "done", "failed"}]
    BY <1>3, <2>2, <2>3 DEF DeliveryInv, DeliveryTypeOK, Active
  <2>5. source' \in [Runs -> Runs \cup {NoRun}]
    BY <1>1, <1>3 DEF DeliveryInv, DeliveryTypeOK
  <2> QED BY <1>2, <2>1, <2>4, <2>5 DEF DeliveryInv, DeliveryTypeOK
<1>9. JobsAgree'
  BY <1>2, <1>3, <1>5 DEF DeliveryInv, JobsAgree, Rendered, Writing, ReportsOf
<1>10. IndexAgrees'
  <2>1. \A v \in vectors' : v.brief \in Consenting /\ v.brief \in completed
    BY <1>4, <1>6, <1>7 DEF DeliveryInv, IndexAgrees
  <2>2. ASSUME NEW q \in Runs \ {r}, pc[q] = "commit"
        PROVE  Documents(q, job[q], Length[source[q]])' \subseteq vectors'
    BY <1>2, <1>5, <1>7, <2>2 DEF DeliveryInv, IndexAgrees, Documents
  <2>3. Documents(r, job[r], Length[source[r]])' \subseteq vectors'
    BY <1>2, <1>5, <1>7 DEF docs, Documents
  <2> QED BY <1>2, <1>3, <1>4, <1>5, <2>1, <2>2, <2>3
          DEF DeliveryInv, IndexAgrees, Deliveries
<1>11. RelatedAgrees' /\ EntriesAreSearchable'
  BY <1>2, <1>3, <1>5, <1>7
     DEF DeliveryInv, RelatedAgrees, MayBeListed, EntriesAreSearchable
<1>12. PathsAgree'
  BY <1>2, <1>3, <1>5 DEF DeliveryInv, PathsAgree
<1>13. FilesAgree'
  BY <1>1, <1>2, <1>3, QuietStep DEF Writing
<1> QED BY <1>8, <1>9, <1>10, <1>11, <1>12, <1>13 DEF DeliveryInv

\* The rows come after their documents.
LEMMA IndexCommitStep ==
  ASSUME DeliveryInv, NEW r \in Runs, IndexCommit(r)
  PROVE  DeliveryInv'
<1> DEFINE rows == Rows(r, job[r], Length[source[r]])
<1>1. /\ pc[r] = "commit" /\ entries' = entries \cup rows
      /\ Goto(r, "load")
      /\ UNCHANGED <<vectors, job, completed, pathed, emailed, related, source,
                     target, file, disturbed>>
  BY DEF IndexCommit, CommitEntries, rowVars, fileVars
<1>2. r \in Deliveries
  BY DEF Deliveries
<1>3. /\ job[r] \in Briefs /\ source[r] \in Runs
      /\ Length[source[r]] \in Nat
      /\ Documents(r, job[r], Length[source[r]]) \subseteq vectors
  BY <1>1, <1>2 DEF DeliveryInv, IndexAgrees, DeliveryTypeOK
<1>4. /\ pc'[r] = "load"
      /\ \A e \in Deliveries \ {r} : pc'[e] = pc[e]
  BY <1>1, <1>2 DEF Goto, DeliveryInv, DeliveryTypeOK
<1>5. \A e \in rows :
        /\ DOMAIN e = {"tenant", "brief", "by", "chunk"}
        /\ e.brief = job[r] /\ e.by = r /\ e.tenant = Owner[job[r]]
        /\ e.chunk \in ChunkRanges
  BY <1>3, PassTyped
<1>6. \A e \in rows :
        [collection |-> KbCollection(e.tenant), brief |-> e.brief,
         by |-> e.by, chunk |-> e.chunk] \in vectors
  BY <1>3, RowsHaveDocuments
<1> HIDE DEF rows
<1>7. DeliveryTypeOK'
  <2>1. KbTypeOK'
    BY <1>1, <1>3, <1>5 DEF DeliveryInv, DeliveryTypeOK, KbTypeOK
  <2> QED BY <1>1, <2>1 DEF Goto, DeliveryInv, DeliveryTypeOK, Active
<1>8. JobsAgree'
  BY <1>1, <1>2, <1>4 DEF DeliveryInv, JobsAgree, Rendered, Writing, ReportsOf
<1>9. IndexAgrees'
  BY <1>1, <1>4 DEF DeliveryInv, IndexAgrees, Deliveries, Documents
<1>10. EntriesAreSearchable'
  BY <1>1, <1>6 DEF DeliveryInv, EntriesAreSearchable
<1>11. RelatedAgrees'
  BY <1>1, <1>2, <1>4 DEF DeliveryInv, RelatedAgrees, MayBeListed
<1>12. PathsAgree'
  BY <1>1, <1>2, <1>4 DEF DeliveryInv, PathsAgree
<1>13. FilesAgree'
  BY <1>1, <1>2, QuietStep DEF Writing
<1> QED BY <1>7, <1>8, <1>9, <1>10, <1>11, <1>12, <1>13 DEF DeliveryInv
-----------------------------------------------------------------------------
(* _generate_and_deliver_report *)

\* What a step of a delivery leaves alone.
LEMMA DeliverKeeps ==
  ASSUME DeliveryInv, NEW d \in Deliveries,
         NEW label \in Rendered \cup {"done", "failed"},
         Goto(d, label), pc[d] \in Active,
         label \in Rendered =>
           target'[d] \in ReportsOf(job[d]) /\ job[d] \in Briefs,
         \A e \in Deliveries \ {d} : target'[e] = target[e],
         UNCHANGED <<kbVars, job, completed, source>>
  PROVE  /\ pc' \in [Deliveries -> Active \cup {"none", "done", "failed"}]
         /\ KbTypeOK' /\ JobsAgree' /\ IndexAgrees' /\ EntriesAreSearchable'
         /\ job[d] \in Briefs
<1> USE DEF kbVars
<1>1. label \in Active \cup {"none", "done", "failed"}
  BY DEF Rendered, Writing, Active
<1>2. /\ pc'[d] = label /\ pc[d] # "none" /\ label # "none"
      /\ label \notin {"index", "commit"}
      /\ \A e \in Deliveries \ {d} : pc'[e] = pc[e]
  BY DEF Goto, DeliveryInv, DeliveryTypeOK, Rendered, Writing, Active
<1>3. pc' \in [Deliveries -> Active \cup {"none", "done", "failed"}]
  BY <1>1 DEF Goto, DeliveryInv, DeliveryTypeOK
<1>4. KbTypeOK'
  BY DEF DeliveryInv, DeliveryTypeOK, KbTypeOK
<1>5. JobsAgree'
  BY <1>2 DEF DeliveryInv, JobsAgree, ReportsOf
<1>6. IndexAgrees'
  BY <1>2 DEF DeliveryInv, IndexAgrees, Deliveries, Documents
<1>7. EntriesAreSearchable'
  BY DEF DeliveryInv, EntriesAreSearchable
<1>8. job[d] \in Briefs
  BY <1>2 DEF DeliveryInv, JobsAgree, DeliveryTypeOK
<1> QED BY <1>3, <1>4, <1>5, <1>6, <1>7, <1>8

\* A printed list of related research stays allowed.
LEMMA RelatedKept ==
  ASSUME DeliveryInv, NEW d \in Deliveries, NEW label, Goto(d, label),
         label # "none", UNCHANGED <<job, completed, related>>
  PROVE  RelatedAgrees'
  BY DEF Goto, DeliveryInv, DeliveryTypeOK, RelatedAgrees, MayBeListed

\* Paths stay right as long as no file disappears.
LEMMA PathsKept ==
  ASSUME DeliveryInv, NEW d \in Deliveries, NEW label, Goto(d, label),
         UNCHANGED <<job, target, pathed>>,
         \A b \in Briefs, f \in Files :
           file[b][f] # Absent => file'[b][f] # Absent,
         job[d] \in Briefs,
         label \in {"write_report", "open_trace"} =>
           file'[job[d]]["report"] # Absent,
         label \in {"write_trace", "path", "email"} =>
           \A f \in Files : file'[job[d]][f] # Absent,
         label # "email"
  PROVE  PathsAgree'
<1>1. ASSUME NEW e \in Deliveries \ {d}
      PROVE  /\ pc'[e] \in {"write_report", "open_trace"} =>
                  file'[job[e]]["report"] # Absent
             /\ pc'[e] \in {"write_trace", "path", "email"} =>
                  \A f \in Files : file'[job[e]][f] # Absent
             /\ pc'[e] = "email" => target[e] \in pathed
  <2>1. pc'[e] = pc[e]
    BY DEF Goto, DeliveryInv, DeliveryTypeOK
  <2>2. pc[e] \in Rendered => job[e] \in Briefs
    BY DEF DeliveryInv, JobsAgree
  <2> QED BY <2>1, <2>2
          DEF DeliveryInv, PathsAgree, Rendered, Writing, Files
<1>2. pc'[d] = label
  BY DEF Goto, DeliveryInv, DeliveryTypeOK
<1>3. \A x \in pathed : /\ job[x] \in Briefs
                       /\ \A f \in Files : file'[job[x]][f] # Absent
  BY DEF DeliveryInv, PathsAgree
<1> QED BY <1>1, <1>2, <1>3 DEF PathsAgree

Contents == [head : FileEnds, tail : FileEnds]
FileBecomes(b, f, val) == file' = [file EXCEPT ![b][f] = val]

\* One file of one brief is opened or written.
LEMMA FileChanges ==
  ASSUME DeliveryInv, NEW b \in Briefs, NEW f \in Files,
         NEW val \in Contents, val # Absent, FileBecomes(b, f, val)
  PROVE  /\ file' \in [Briefs -> [Files -> Contents]]
         /\ file'[b][f] = val
         /\ \A g \in Files \ {f} : file'[b][g] = file[b][g]
         /\ \A c \in Briefs \ {b} : file'[c] = file[c]
         /\ \A c \in Briefs, g \in Files :
              file[c][g] # Absent => file'[c][g] # Absent
<1>1. file \in [Briefs -> [Files -> Contents]]
  BY DEF DeliveryInv, DeliveryTypeOK, Contents
<1>2. file' \in [Briefs -> [Files -> Contents]]
  BY <1>1 DEF FileBecomes
<1>3. /\ file'[b][f] = val
      /\ \A g \in Files \ {f} : file'[b][g] = file[b][g]
      /\ \A c \in Briefs \ {b} : file'[c] = file[c]
  BY <1>1 DEF FileBecomes
<1> QED BY <1>2, <1>3

\* The files of the other briefs are what they were.
LEMMA OtherBriefs ==
  ASSUME DeliveryInv, NEW d \in Deliveries, NEW label, Goto(d, label),
         UNCHANGED job,
         \A c \in Briefs \ {job[d]} :
           file'[c] = file[c] /\ (c \in disturbed' <=> c \in disturbed)
  PROVE  \A c \in Briefs \ {job[d]} : c \notin disturbed' => FilesAgreeOn(c)'
<1> SUFFICES ASSUME NEW c \in Briefs \ {job[d]}, c \notin disturbed'
             PROVE  FilesAgreeOn(c)'
  OBVIOUS
<1>1. FilesAgreeOn(c)
  BY DEF DeliveryInv, FilesAgree
<1>2. ASSUME NEW e \in Deliveries PROVE Writes(e, c)' = Writes(e, c)
  BY DEF Goto, DeliveryInv, DeliveryTypeOK, Writes
<1>3. ASSUME NEW e \in Deliveries, Writes(e, c), WriterAgrees(e)
      PROVE  WriterAgrees(e)'
  <2>1. job[e] = c /\ e # d /\ pc'[e] = pc[e] /\ file'[c] = file[c]
    BY <1>3 DEF Goto, DeliveryInv, DeliveryTypeOK, Writes
  <2> QED BY <1>3, <2>1 DEF WriterAgrees
<1>4. file'[c] = file[c]
  OBVIOUS
<1> QED BY <1>1, <1>2, <1>3, <1>4 DEF FilesAgreeOn
\* A delivery picks a row of its brief and prints what a search may answer.
LEMMA RenderStep ==
  ASSUME DeliveryInv, NEW d \in Deliveries, Render(d)
  PROVE  DeliveryInv'
<1>1. PICK x \in ReportsOf(job[d]) : target' = [target EXCEPT ![d] = x]
  BY DEF Render, PickRow
<1>2. PICK answer \in RelatedAnswers(Owner[job[d]]) :
        related' = [related EXCEPT ![d] = answer]
  BY DEF Render, PrintRelated
<1>3. /\ pc[d] = "load" /\ Goto(d, "open_report")
      /\ UNCHANGED <<vectors, entries, job, completed, pathed, emailed, source,
                     file, disturbed>>
  BY DEF Render, kbVars, rowVars, fileVars
<1>4. job[d] \in Briefs
  BY <1>3 DEF DeliveryInv, JobsAgree, DeliveryTypeOK
<1>5. /\ x \in Runs /\ target'[d] = x
      /\ \A e \in Deliveries \ {d} : target'[e] = target[e]
      /\ target' \in [Deliveries -> Runs \cup {NoRun}]
  BY <1>1 DEF DeliveryInv, DeliveryTypeOK, ReportsOf
<1>6. /\ pc' \in [Deliveries -> Active \cup {"none", "done", "failed"}]
      /\ KbTypeOK' /\ JobsAgree' /\ IndexAgrees' /\ EntriesAreSearchable'
  BY <1>3, <1>4, <1>5, DeliverKeeps DEF Rendered, Active, kbVars
<1>7. \A b \in answer : b \in Briefs /\ MayBeListed(b, Owner[job[d]])
  BY SearchStaysInTenant
     DEF DeliveryInv, DeliveryTypeOK, IndexAgrees, MayBeListed, KbTypeOK
<1>8. DeliveryTypeOK'
  BY <1>2, <1>3, <1>5, <1>6, <1>7 DEF DeliveryInv, DeliveryTypeOK
<1>9. RelatedAgrees'
  BY <1>2, <1>3, <1>7
     DEF Goto, DeliveryInv, DeliveryTypeOK, RelatedAgrees, MayBeListed
<1>10. PathsAgree'
  <2>1. /\ pc'[d] = "open_report"
        /\ \A e \in Deliveries \ {d} : pc'[e] = pc[e]
    BY <1>3 DEF Goto, DeliveryInv, DeliveryTypeOK
  <2> QED BY <1>3, <1>5, <2>1 DEF DeliveryInv, PathsAgree
<1>11. FilesAgree'
  BY <1>3, QuietStep DEF Writing
<1> QED BY <1>6, <1>8, <1>9, <1>10, <1>11 DEF DeliveryInv

\* A step on the files: everything but FilesAgree, which is each step's own.
LEMMA OnFiles ==
  ASSUME DeliveryInv, NEW d \in Deliveries, NEW f \in Files,
         NEW label \in Writing \cup {"path"},
         NEW val \in Contents, val # Absent,
         pc[d] \in Writing \cup {"open_report"}, Goto(d, label),
         FileBecomes(job[d], f, val),
         disturbed' \in {disturbed, disturbed \cup {job[d]},
                         disturbed \ {job[d]}},
         f = "report" \/ file[job[d]]["report"] # Absent,
         label \in {"write_trace", "path"} => f = "trace",
         UNCHANGED <<kbVars, job, rowVars, related, source, target>>,
         FilesAgree'
  PROVE  DeliveryInv'
<1> USE DEF kbVars, rowVars
<1>1. pc[d] \in Rendered /\ pc[d] \in Active
  BY DEF Rendered, Active, Writing
<1>2. target[d] \in ReportsOf(job[d]) /\ job[d] \in Briefs
  BY <1>1 DEF DeliveryInv, JobsAgree
<1>3. label \in Rendered
  BY DEF Rendered
<1>4. /\ pc' \in [Deliveries -> Active \cup {"none", "done", "failed"}]
      /\ KbTypeOK' /\ JobsAgree' /\ IndexAgrees' /\ EntriesAreSearchable'
  BY <1>1, <1>2, <1>3, DeliverKeeps
<1>5. label # "none" /\ label # "email"
  BY DEF Writing
<1>6. RelatedAgrees'
  BY <1>5, RelatedKept
<1>7. /\ file' \in [Briefs -> [Files -> Contents]]
      /\ file'[job[d]][f] = val
      /\ \A g \in Files \ {f} : file'[job[d]][g] = file[job[d]][g]
      /\ \A c \in Briefs, g \in Files :
           file[c][g] # Absent => file'[c][g] # Absent
  BY <1>2, FileChanges
<1>8. file'[job[d]]["report"] # Absent
  BY <1>2, <1>7 DEF Files
<1>9. label \in {"write_trace", "path"} =>
        \A g \in Files : file'[job[d]][g] # Absent
  BY <1>7, <1>8 DEF Files
<1>10. PathsAgree'
  BY <1>2, <1>5, <1>7, <1>8, <1>9, PathsKept
<1>11. DeliveryTypeOK'
  BY <1>2, <1>4, <1>7 DEF DeliveryInv, DeliveryTypeOK, Contents
<1> QED BY <1>4, <1>6, <1>10, <1>11 DEF DeliveryInv
\* Who opens the report alone gets the brief undisturbed; a company disturbs
\* it, until somebody begins alone again.
LEMMA OpenReportStep ==
  ASSUME DeliveryInv, NEW d \in Deliveries, OpenReport(d)
  PROVE  DeliveryInv'
<1> DEFINE b == job[d]
<1>1. /\ pc[d] = "open_report" /\ Goto(d, "write_report")
      /\ FileBecomes(b, "report", Cut)
      /\ disturbed' = IF Others(d) = {} THEN disturbed \ {b}
                                        ELSE disturbed \cup {b}
      /\ UNCHANGED <<kbVars, job, rowVars, related, source, target>>
  BY DEF OpenReport, Open, FileBecomes
<1>2. b \in Briefs
  BY <1>1 DEF DeliveryInv, JobsAgree, Rendered
<1>3. Cut \in Contents /\ Cut # Absent /\ "report" \in Files
  BY DEF Cut, Absent, Contents, FileEnds, Files
<1>4. /\ file'[b]["report"] = Cut
      /\ \A c \in Briefs \ {b} : file'[c] = file[c]
  BY <1>1, <1>2, <1>3, FileChanges
<1>5. /\ pc'[d] = "write_report"
      /\ \A e \in Deliveries \ {d} : pc'[e] = pc[e]
  BY <1>1 DEF Goto, DeliveryInv, DeliveryTypeOK
<1>6. \A c \in Briefs \ {b} : c \notin disturbed' => FilesAgreeOn(c)'
  BY <1>1, <1>4, OtherBriefs
<1>7. \A c \in {b} : c \notin disturbed' => FilesAgreeOn(c)'
  <2> SUFFICES ASSUME NEW c \in {b}, c \notin disturbed'
               PROVE  FilesAgreeOn(c)'
    OBVIOUS
  <2>1. Others(d) = {}
    BY <1>1
  <2>2. ASSUME NEW e \in Deliveries, Writes(e, c)' PROVE e = d
    BY <1>1, <1>5, <2>1, <2>2 DEF Others, Writes
  <2>3. Writes(d, c)'
    BY <1>1, <1>5 DEF Writes, Writing
  <2>4. WriterAgrees(d)'
    BY <1>1, <1>4, <1>5 DEF WriterAgrees
  <2> QED BY <2>2, <2>3, <2>4 DEF FilesAgreeOn
<1>8. FilesAgree'
  BY <1>6, <1>7 DEF FilesAgree
<1>9. disturbed' \in {disturbed, disturbed \cup {b}, disturbed \ {b}}
  BY <1>1
<1> QED BY <1>1, <1>3, <1>8, <1>9, OnFiles DEF Writing

\* What a writer leaves in a file: its own bytes, if it is undisturbed.
LEMMA WriteContents ==
  ASSUME DeliveryInv, NEW d \in Deliveries, NEW f \in Files, job[d] \in Briefs,
         NEW last \in {d, file[job[d]][f].tail} \ {"cut"}
  PROVE  /\ [head |-> d, tail |-> last] \in Contents
         /\ [head |-> d, tail |-> last] # Absent
         /\ file[job[d]][f] = Cut => [head |-> d, tail |-> last] = Written(d)
<1>1. file[job[d]][f] \in Contents
  BY DEF DeliveryInv, DeliveryTypeOK, Contents
<1>2. last \in FileEnds /\ d \in FileEnds /\ d # "absent"
  BY <1>1 DEF Contents, FileEnds, Deliveries
<1>3. [head |-> d, tail |-> last] # Absent
  BY <1>2 DEF Absent
<1>4. [head |-> d, tail |-> last] \in Contents
  BY <1>2 DEF Contents
<1>5. file[job[d]][f] = Cut => last = d
  BY DEF Cut
<1> QED BY <1>3, <1>4, <1>5 DEF Written

\* The report is written; alone, it is whole.
LEMMA WriteReportStep ==
  ASSUME DeliveryInv, NEW d \in Deliveries, WriteReport(d)
  PROVE  DeliveryInv'
<1> DEFINE b == job[d]
<1>1. PICK last \in {d, file[b]["report"].tail} \ {"cut"} :
        FileBecomes(b, "report", [head |-> d, tail |-> last])
  BY DEF WriteReport, Write, FileBecomes
<1> DEFINE val == [head |-> d, tail |-> last]
<1>2. /\ pc[d] = "write_report" /\ Goto(d, "open_trace")
      /\ UNCHANGED <<kbVars, job, rowVars, related, source, target, disturbed>>
  BY DEF WriteReport, Write
<1>3. b \in Briefs /\ "report" \in Files
  BY <1>2 DEF DeliveryInv, JobsAgree, Rendered, Writing, Files
<1>4. /\ val \in Contents /\ val # Absent
      /\ file[b]["report"] = Cut => val = Written(d)
  BY <1>3, WriteContents
<1> HIDE DEF val
<1>5. FileBecomes(b, "report", val)
  BY <1>1 DEF val
<1>6. /\ file'[b]["report"] = val
      /\ \A c \in Briefs \ {b} : file'[c] = file[c]
  BY <1>3, <1>4, <1>5, FileChanges
<1>7. /\ pc'[d] = "open_trace"
      /\ \A e \in Deliveries \ {d} : pc'[e] = pc[e]
  BY <1>2 DEF Goto, DeliveryInv, DeliveryTypeOK
<1>8. \A c \in Briefs \ {b} : c \notin disturbed' => FilesAgreeOn(c)'
  BY <1>2, <1>6, OtherBriefs
<1>9. \A c \in {b} : c \notin disturbed' => FilesAgreeOn(c)'
  <2> SUFFICES ASSUME NEW c \in {b}, c \notin disturbed
               PROVE  FilesAgreeOn(c)'
    BY <1>2
  <2>1. FilesAgreeOn(c) /\ Writes(d, c)
    BY <1>2, <1>3 DEF DeliveryInv, FilesAgree, Writes, Writing
  <2>2. val = Written(d)
    BY <1>2, <1>4, <2>1 DEF FilesAgreeOn, WriterAgrees
  <2>3. ASSUME NEW e \in Deliveries, Writes(e, c)' PROVE e = d
    BY <1>2, <1>7, <2>1, <2>3 DEF FilesAgreeOn, Writes
  <2>4. Writes(d, c)'
    BY <1>2, <1>7 DEF Writes, Writing
  <2>5. WriterAgrees(d)'
    BY <1>2, <1>6, <1>7, <2>2 DEF WriterAgrees, Written
  <2> QED BY <2>3, <2>4, <2>5 DEF FilesAgreeOn
<1>10. FilesAgree'
  BY <1>8, <1>9 DEF FilesAgree
<1> QED BY <1>2, <1>3, <1>4, <1>5, <1>10, OnFiles DEF Writing

\* The trace is truncated while the report stays as it was written.
LEMMA OpenTraceStep ==
  ASSUME DeliveryInv, NEW d \in Deliveries, OpenTrace(d)
  PROVE  DeliveryInv'
<1> DEFINE b == job[d]
<1>1. /\ pc[d] = "open_trace" /\ Goto(d, "write_trace")
      /\ FileBecomes(b, "trace", Cut)
      /\ UNCHANGED <<kbVars, job, rowVars, related, source, target, disturbed>>
  BY DEF OpenTrace, Open, FileBecomes
<1>2. b \in Briefs
  BY <1>1 DEF DeliveryInv, JobsAgree, Rendered, Writing
<1>3. /\ Cut \in Contents /\ Cut # Absent
      /\ "trace" \in Files /\ "report" \in Files \ {"trace"}
  BY DEF Cut, Absent, Contents, FileEnds, Files
<1>4. /\ file'[b]["trace"] = Cut /\ file'[b]["report"] = file[b]["report"]
      /\ \A c \in Briefs \ {b} : file'[c] = file[c]
  BY <1>1, <1>2, <1>3, FileChanges
<1>5. /\ pc'[d] = "write_trace"
      /\ \A e \in Deliveries \ {d} : pc'[e] = pc[e]
  BY <1>1 DEF Goto, DeliveryInv, DeliveryTypeOK
<1>6. \A c \in Briefs \ {b} : c \notin disturbed' => FilesAgreeOn(c)'
  BY <1>1, <1>4, OtherBriefs
<1>7. \A c \in {b} : c \notin disturbed' => FilesAgreeOn(c)'
  <2> SUFFICES ASSUME NEW c \in {b}, c \notin disturbed
               PROVE  FilesAgreeOn(c)'
    BY <1>1
  <2>1. FilesAgreeOn(c) /\ Writes(d, c)
    BY <1>1, <1>2 DEF DeliveryInv, FilesAgree, Writes, Writing
  <2>2. file[c]["report"] = Written(d)
    BY <1>1, <2>1 DEF FilesAgreeOn, WriterAgrees
  <2>3. ASSUME NEW e \in Deliveries, Writes(e, c)' PROVE e = d
    BY <1>1, <1>5, <2>1, <2>3 DEF FilesAgreeOn, Writes
  <2>4. Writes(d, c)'
    BY <1>1, <1>5 DEF Writes, Writing
  <2>5. WriterAgrees(d)'
    BY <1>1, <1>4, <1>5, <2>2 DEF WriterAgrees, Written
  <2> QED BY <2>3, <2>4, <2>5 DEF FilesAgreeOn
<1>8. FilesAgree'
  BY <1>6, <1>7 DEF FilesAgree
<1>9. file[b]["report"] # Absent
  BY <1>1 DEF DeliveryInv, PathsAgree
<1> QED BY <1>1, <1>3, <1>8, <1>9, OnFiles DEF Writing

\* The last of the four: an undisturbed writer leaves both files its own.
LEMMA WriteTraceStep ==
  ASSUME DeliveryInv, NEW d \in Deliveries, WriteTrace(d)
  PROVE  DeliveryInv'
<1> DEFINE b == job[d]
<1>1. PICK last \in {d, file[b]["trace"].tail} \ {"cut"} :
        FileBecomes(b, "trace", [head |-> d, tail |-> last])
  BY DEF WriteTrace, Write, FileBecomes
<1> DEFINE val == [head |-> d, tail |-> last]
<1>2. /\ pc[d] = "write_trace" /\ Goto(d, "path")
      /\ UNCHANGED <<kbVars, job, rowVars, related, source, target, disturbed>>
  BY DEF WriteTrace, Write
<1>3. b \in Briefs /\ "trace" \in Files /\ "report" \in Files \ {"trace"}
  BY <1>2 DEF DeliveryInv, JobsAgree, Rendered, Writing, Files
<1>4. /\ val \in Contents /\ val # Absent
      /\ file[b]["trace"] = Cut => val = Written(d)
  BY <1>3, WriteContents
<1> HIDE DEF val
<1>5. FileBecomes(b, "trace", val)
  BY <1>1 DEF val
<1>6. /\ file'[b]["trace"] = val /\ file'[b]["report"] = file[b]["report"]
      /\ \A c \in Briefs \ {b} : file'[c] = file[c]
  BY <1>3, <1>4, <1>5, FileChanges
<1>7. /\ pc'[d] = "path"
      /\ \A e \in Deliveries \ {d} : pc'[e] = pc[e]
  BY <1>2 DEF Goto, DeliveryInv, DeliveryTypeOK
<1>8. \A c \in Briefs \ {b} : c \notin disturbed' => FilesAgreeOn(c)'
  BY <1>2, <1>6, OtherBriefs
<1>9. \A c \in {b} : c \notin disturbed' => FilesAgreeOn(c)'
  <2> SUFFICES ASSUME NEW c \in {b}, c \notin disturbed
               PROVE  FilesAgreeOn(c)'
    BY <1>2
  <2>1. FilesAgreeOn(c) /\ Writes(d, c)
    BY <1>2, <1>3 DEF DeliveryInv, FilesAgree, Writes, Writing
  <2>2. file[c]["report"] = Written(d) /\ val = Written(d)
    BY <1>2, <1>4, <2>1 DEF FilesAgreeOn, WriterAgrees
  <2>3. ASSUME NEW e \in Deliveries PROVE ~Writes(e, c)'
    BY <1>2, <1>7, <2>1 DEF FilesAgreeOn, Writes, Writing
  <2>4. \A f \in Files : file'[c][f] = Written(d)'
    BY <1>6, <2>2 DEF Files, Written
  <2> QED BY <2>3, <2>4 DEF FilesAgreeOn
<1>10. FilesAgree'
  BY <1>8, <1>9 DEF FilesAgree
<1>11. file[b]["report"] # Absent
  BY <1>2, <1>3 DEF DeliveryInv, PathsAgree
<1> QED BY <1>2, <1>3, <1>4, <1>5, <1>10, <1>11, OnFiles DEF Writing
\* A path is committed when both files exist.
LEMMA CommitPathStep ==
  ASSUME DeliveryInv, NEW d \in Deliveries, CommitPath(d)
  PROVE  DeliveryInv'
<1>1. /\ pc[d] = "path" /\ Goto(d, "email")
      /\ pathed' = pathed \cup {target[d]}
      /\ UNCHANGED <<vectors, entries, job, completed, emailed, related, source,
                     target, file, disturbed>>
  BY DEF CommitPath, kbVars, fileVars
<1>2. /\ target[d] \in ReportsOf(job[d]) /\ job[d] \in Briefs
      /\ target[d] \in Runs /\ job[target[d]] = job[d]
  BY <1>1 DEF DeliveryInv, JobsAgree, Rendered, ReportsOf
<1>3. /\ pc' \in [Deliveries -> Active \cup {"none", "done", "failed"}]
      /\ KbTypeOK' /\ JobsAgree' /\ IndexAgrees' /\ EntriesAreSearchable'
  BY <1>1, <1>2, DeliverKeeps DEF Rendered, Active, kbVars
<1>4. DeliveryTypeOK'
  BY <1>1, <1>2, <1>3 DEF DeliveryInv, DeliveryTypeOK
<1>5. RelatedAgrees'
  BY <1>1, RelatedKept
<1>6. PathsAgree'
  <2>1. /\ pc'[d] = "email"
        /\ \A e \in Deliveries \ {d} : pc'[e] = pc[e]
    BY <1>1 DEF Goto, DeliveryInv, DeliveryTypeOK
  <2>2. \A f \in Files : file[job[d]][f] # Absent
    BY <1>1 DEF DeliveryInv, PathsAgree
  <2> QED BY <1>1, <1>2, <2>1, <2>2 DEF DeliveryInv, PathsAgree
<1>7. FilesAgree'
  BY <1>1, QuietStep DEF Writing
<1> QED BY <1>3, <1>4, <1>5, <1>6, <1>7 DEF DeliveryInv

\* The flag is set on a row that has a path.
LEMMA EmailStep ==
  ASSUME DeliveryInv, NEW d \in Deliveries, EmailReport(d)
  PROVE  DeliveryInv'
<1>1. /\ pc[d] = "email" /\ Goto(d, "done")
      /\ emailed' = emailed \cup {target[d]}
      /\ UNCHANGED <<vectors, entries, job, completed, pathed, related, source,
                     target, file, disturbed>>
  BY DEF EmailReport, kbVars, fileVars
<1>2. target[d] \in pathed
  BY <1>1 DEF DeliveryInv, PathsAgree
<1>3. /\ pc' \in [Deliveries -> Active \cup {"none", "done", "failed"}]
      /\ KbTypeOK' /\ JobsAgree' /\ IndexAgrees' /\ EntriesAreSearchable'
      /\ job[d] \in Briefs
  BY <1>1, DeliverKeeps DEF Rendered, Writing, Active, kbVars
<1>4. DeliveryTypeOK'
  BY <1>1, <1>2, <1>3 DEF DeliveryInv, DeliveryTypeOK
<1>5. RelatedAgrees'
  BY <1>1, RelatedKept
<1>6. PathsAgree'
  BY <1>1, <1>3, PathsKept
<1>7. FilesAgree'
  BY <1>1, QuietStep DEF Writing
<1> QED BY <1>3, <1>4, <1>5, <1>6, <1>7 DEF DeliveryInv

\* A failure among the four file steps disturbs the brief.
LEMMA FailStep ==
  ASSUME DeliveryInv, NEW d \in Deliveries, Fail(d)
  PROVE  DeliveryInv'
<1>1. /\ pc[d] \in Active /\ Goto(d, "failed")
      /\ disturbed' = IF pc[d] \in Writing THEN disturbed \cup {job[d]}
                                            ELSE disturbed
      /\ UNCHANGED <<kbVars, job, rowVars, related, source, target, file>>
  BY DEF Fail
<1>2. /\ pc' \in [Deliveries -> Active \cup {"none", "done", "failed"}]
      /\ KbTypeOK' /\ JobsAgree' /\ IndexAgrees' /\ EntriesAreSearchable'
      /\ job[d] \in Briefs
  BY <1>1, DeliverKeeps DEF Rendered, Writing, rowVars
<1>3. DeliveryTypeOK'
  BY <1>1, <1>2 DEF DeliveryInv, DeliveryTypeOK, rowVars
<1>4. RelatedAgrees'
  BY <1>1, RelatedKept DEF rowVars
<1>5. PathsAgree'
  BY <1>1, <1>2, PathsKept DEF rowVars
<1>6. FilesAgree'
  <2>1. CASE pc[d] \notin Writing
    BY <1>1, <2>1, QuietStep DEF Writing
  <2>2. CASE pc[d] \in Writing
    <3>1. \A c \in Briefs \ {job[d]} : c \notin disturbed' => FilesAgreeOn(c)'
      BY <1>1, <2>2, OtherBriefs
    <3> QED BY <1>1, <2>2, <3>1 DEF FilesAgree
  <2> QED BY <2>1, <2>2
<1> QED BY <1>2, <1>3, <1>4, <1>5, <1>6 DEF DeliveryInv

-----------------------------------------------------------------------------
\* Every step of a run, a resend or a delivery keeps the invariant.
LEMMA DeliveryNext == DeliveryInv /\ [Next]_vars => DeliveryInv'
<1> SUFFICES ASSUME DeliveryInv, [Next]_vars PROVE DeliveryInv'
  OBVIOUS
<1>1. ASSUME NEW r \in Runs, NEW b \in Briefs, PersistReport(r, b)
      PROVE  DeliveryInv'
  <2>1. r \in Deliveries
    BY DEF Deliveries
  <2>2. /\ pc[r] = "none" /\ job' = [job EXCEPT ![r] = b] /\ Goto(r, "finish")
        /\ UNCHANGED <<kbVars, completed, pathed, emailed, related, source,
                       target, fileVars>>
    BY <1>1 DEF PersistReport
  <2> QED BY <2>1, <2>2, StartStep
<1>2. ASSUME NEW s \in Resends, NEW b \in Briefs, Resend(s, b)
      PROVE  DeliveryInv'
  <2>1. s \in Deliveries
    BY DEF Deliveries
  <2>2. /\ pc[s] = "none" /\ job' = [job EXCEPT ![s] = b] /\ Goto(s, "load")
        /\ UNCHANGED <<kbVars, completed, pathed, emailed, related, source,
                       target, fileVars>>
    BY <1>2 DEF Resend, rowVars
  <2> QED BY <2>1, <2>2, StartStep
<1>3. ASSUME NEW r \in Runs, SetComplete(r) \/ Embed(r) \/ IndexCommit(r)
      PROVE  DeliveryInv'
  BY <1>3, SetCompleteStep, EmbedStep, IndexCommitStep
<1>4. ASSUME NEW d \in Deliveries, Deliver(d)
      PROVE  DeliveryInv'
  BY <1>4, RenderStep, OpenReportStep, WriteReportStep, OpenTraceStep,
     WriteTraceStep, CommitPathStep, EmailStep, FailStep DEF Deliver
<1>5. CASE UNCHANGED vars
  <2> USE <1>5 DEF vars, kbVars, rowVars, fileVars
  <2>1. DeliveryTypeOK'
    BY DEF DeliveryInv, DeliveryTypeOK, KbTypeOK
  <2>2. JobsAgree' /\ RelatedAgrees' /\ EntriesAreSearchable' /\ PathsAgree'
    BY DEF DeliveryInv, JobsAgree, ReportsOf, RelatedAgrees, MayBeListed,
           EntriesAreSearchable, PathsAgree
  <2>3. IndexAgrees'
    BY DEF DeliveryInv, IndexAgrees, Documents
  <2>4. FilesAgree'
    BY DEF DeliveryInv, FilesAgree, FilesAgreeOn, Writes, WriterAgrees
  <2> QED BY <2>1, <2>2, <2>3, <2>4 DEF DeliveryInv
<1> QED BY <1>1, <1>2, <1>3, <1>4, <1>5 DEF Next

-----------------------------------------------------------------------------
\* The stores, the rows and the files keep the whole of DeliveryInv, which is
\* inductive.
THEOREM DeliveryInvariant == Spec => []DeliveryInv
<1> QED BY DeliveryInit, DeliveryNext, PTL DEF Spec

\* Every variable of the delivery keeps its type, and no row has the e-mail
\* flag without a path.
THEOREM DeliveryTyped == Spec => []DeliveryTypeOK
<1>1. DeliveryInv => DeliveryTypeOK
  BY DEF DeliveryInv
<1> QED BY <1>1, DeliveryInvariant, PTL

\* index_brief writes Chroma first and its rows afterwards: what the summary
\* counts can be found, wherever a pass died.
THEOREM IndexIsSearchable == Spec => []EntriesAreSearchable
<1>1. DeliveryInv => EntriesAreSearchable
  BY DEF DeliveryInv
<1> QED BY <1>1, DeliveryInvariant, PTL

\* get_related_briefs never crosses tenants, and never names a brief that was
\* not completed or not consented to.
THEOREM RelatedIsPrivate == Spec => []RelatedStaysInTenant
<1>1. DeliveryInv => RelatedStaysInTenant
  <2> SUFFICES ASSUME DeliveryInv PROVE RelatedStaysInTenant
    OBVIOUS
  <2>1. \A d \in Deliveries : \A b \in related[d] : MayBeListed(b, Owner[job[d]])
    BY DEF DeliveryInv, RelatedAgrees
  <2>2. ASSUME NEW t \in Tenants, NEW answer \in RelatedAnswers(t),
               NEW b \in answer
        PROVE  MayBeListed(b, t)
    <3>1. PICK v \in vectors : v.brief = b /\ Owner[b] = t
      BY SearchStaysInTenant DEF DeliveryInv, DeliveryTypeOK
    <3> QED BY <3>1 DEF DeliveryInv, IndexAgrees, MayBeListed
  <2> QED BY <2>1, <2>2 DEF RelatedStaysInTenant
<1> QED BY <1>1, DeliveryInvariant, PTL

\* A committed path has both files behind it, and the files of a brief that
\* nobody is writing and nobody disturbed are those of one delivery: for any
\* number of runs and resends of any number of briefs.
THEOREM DownloadsWhole == Spec => []DownloadsAreWhole
<1>1. DeliveryInv => DownloadsAreWhole
  <2> SUFFICES ASSUME DeliveryInv, NEW b \in Briefs,
                      NEW x \in ReportsOf(b), x \in pathed
               PROVE  /\ \A f \in Files : Downloadable(b, f)
                      /\ b \notin disturbed /\ {d \in Deliveries :
                             job[d] = b /\ pc[d] \in Writing} = {}
                           => \E d \in Deliveries : \A f \in Files :
                                file[b][f] = Written(d)
    BY DEF DownloadsAreWhole
  <2>1. \A f \in Files : file[b][f] # Absent
    BY DEF DeliveryInv, PathsAgree, ReportsOf
  <2>2. \A f \in Files : Downloadable(b, f)
    BY <2>1 DEF Downloadable
  <2>3. ASSUME b \notin disturbed,
               {d \in Deliveries : job[d] = b /\ pc[d] \in Writing} = {}
        PROVE  \E d \in Deliveries : \A f \in Files : file[b][f] = Written(d)
    <3>1. FilesAgreeOn(b)
      BY <2>3 DEF DeliveryInv, FilesAgree
    <3>2. \A d \in Deliveries : ~Writes(d, b)
      BY <2>3 DEF Writes
    <3> QED BY <2>1, <3>1, <3>2 DEF FilesAgreeOn, Files
  <2> QED BY <2>2, <2>3
<1> QED BY <1>1, DeliveryInvariant, PTL

-----------------------------------------------------------------------------
(* The chunks of a report *)

Stride == Max({CHUNK_WORDS - CHUNK_OVERLAP_WORDS, 1})
\* The loop of _chunk_text goes on: a chunk begins after s words of n.
ChunkBegins(s, n) == s % Stride = 0 /\ (s = 0 \/ s - Stride + CHUNK_WORDS < n)
ChunkEnd(s, n) == IF s + CHUNK_WORDS <= n THEN s + CHUNK_WORDS ELSE n

\* Chunks begin at least a word apart and at most their length: an overlap that
\* is longer than a chunk counts as one that leaves a word.
LEMMA StrideBounds == Stride \in Nat \ {0} /\ Stride <= CHUNK_WORDS
<1> DEFINE gap == CHUNK_WORDS - CHUNK_OVERLAP_WORDS
<1>1. gap \in Int /\ gap <= CHUNK_WORDS
  OBVIOUS
<1> HIDE DEF gap
<1>2. CASE gap >= 1
  <2>1. gap \in {gap, 1} /\ \A y \in {gap, 1} : gap >= y
    BY <1>1, <1>2
  <2>2. Max({gap, 1}) \in {gap, 1} /\ \A y \in {gap, 1} : Max({gap, 1}) >= y
    BY <2>1 DEF Max
  <2>3. Max({gap, 1}) = gap
    BY <1>1, <1>2, <2>2
  <2> QED BY <1>1, <1>2, <2>3 DEF Stride, gap
<1>3. CASE ~(gap >= 1)
  <2>1. 1 \in {gap, 1} /\ \A y \in {gap, 1} : 1 >= y
    BY <1>1, <1>3
  <2>2. Max({gap, 1}) \in {gap, 1} /\ \A y \in {gap, 1} : Max({gap, 1}) >= y
    BY <2>1 DEF Max
  <2>3. Max({gap, 1}) = 1
    BY <1>1, <1>3, <2>2
  <2> QED BY <2>3 DEF Stride, gap
<1> QED BY <1>2, <1>3

\* What Chunks gives: one range of words for each beginning.
LEMMA ChunkShape ==
  ASSUME NEW n \in Nat
  PROVE  Chunks(n) = {[from |-> s + 1, to |-> ChunkEnd(s, n)] :
                        s \in {x \in 0..(n - 1) : ChunkBegins(x, n)}}
<1>1. ASSUME NEW s \in 0..(n - 1)
      PROVE  Min({s + CHUNK_WORDS, n}) = ChunkEnd(s, n)
  <2>1. PICK e \in Nat : e = s + CHUNK_WORDS
    OBVIOUS
  <2>2. CASE e <= n
    <3>1. e \in {e, n} /\ \A y \in {e, n} : e =< y
      BY <2>2
    <3>2. Min({e, n}) \in {e, n} /\ \A y \in {e, n} : Min({e, n}) =< y
      BY <3>1 DEF Min
    <3>3. Min({e, n}) = e
      BY <2>2, <3>2
    <3> QED BY <2>1, <2>2, <3>3 DEF ChunkEnd
  <2>3. CASE ~(e <= n)
    <3>1. n \in {e, n} /\ \A y \in {e, n} : n =< y
      BY <2>3
    <3>2. Min({e, n}) \in {e, n} /\ \A y \in {e, n} : Min({e, n}) =< y
      BY <3>1 DEF Min
    <3>3. Min({e, n}) = n
      BY <2>3, <3>2
    <3> QED BY <2>1, <2>3, <3>3 DEF ChunkEnd
  <2> QED BY <2>2, <2>3
<1> QED BY <1>1 DEF Chunks, ChunkBegins, Stride

\* The chunk that reaches the end of the text begins early enough to meet the
\* words before it: whatever s is a multiple below n, s or an earlier one begins
\* a chunk that holds the words after s.
LEMMA LastChunk ==
  ASSUME NEW n \in Nat, NEW s \in Nat, s < n, s % Stride = 0, ~ChunkBegins(s, n)
  PROVE  \E b \in 0..(n - 1) : ChunkBegins(b, n) /\ b <= s /\ ChunkEnd(b, n) = n
<1>1. Stride \in Nat \ {0} /\ Stride <= CHUNK_WORDS
  BY StrideBounds
<1>2. s > 0 /\ s - Stride + CHUNK_WORDS >= n
  BY <1>1 DEF ChunkBegins
<1>3. CASE n <= CHUNK_WORDS
  <2>1. 0 \in 0..(n - 1) /\ 0 % Stride = 0 /\ 0 <= s
    BY <1>1
  <2>2. ChunkEnd(0, n) = n
    BY <1>3 DEF ChunkEnd
  <2> QED BY <2>1, <2>2 DEF ChunkBegins
<1>4. CASE CHUNK_WORDS < n
  <2>1. PICK a \in Nat : a = n - CHUNK_WORDS - 1
    BY <1>4
  <2>2. PICK p \in Nat : p % Stride = 0 /\ p <= a /\ a < p + Stride
    BY <1>1, RoundDown
  <2>3. (p + Stride) % Stride = 0
    BY <1>1, <2>2, NextMultiple
  <2>4. PICK b \in Nat : b = p + Stride
    BY <1>1
  <2>5. b % Stride = 0 /\ b - Stride + CHUNK_WORDS < n /\ b + CHUNK_WORDS >= n
    BY <1>1, <2>1, <2>2, <2>3, <2>4
  <2>6. b \in 0..(n - 1)
    BY <1>1, <2>1, <2>2, <2>4
  <2>7. b <= s
    <3>1. CASE s < b
      <4>1. s + Stride <= b
        BY <1>1, <2>5, <3>1, MultiplesApart
      <4> QED BY <1>1, <1>2, <2>1, <2>2, <2>4, <4>1
    <3> QED BY <1>1, <3>1
  <2>8. ChunkEnd(b, n) = n
    BY <2>5 DEF ChunkEnd
  <2> QED BY <2>5, <2>6, <2>7, <2>8 DEF ChunkBegins
<1> QED BY <1>3, <1>4

\* _chunk_text leaves out no word ...
LEMMA ChunksCover ==
  ASSUME NEW n \in Nat, NEW w \in 1..n
  PROVE  \E c \in Chunks(n) : c.from <= w /\ w <= c.to
<1>1. Stride \in Nat \ {0} /\ Stride <= CHUNK_WORDS
  BY StrideBounds
<1>2. PICK b \in 0..(n - 1) : /\ ChunkBegins(b, n)
                              /\ b + 1 <= w /\ w <= ChunkEnd(b, n)
  <2>1. PICK a \in Nat : a = w - 1
    OBVIOUS
  <2>2. PICK s \in Nat : s % Stride = 0 /\ s <= a /\ a < s + Stride
    BY <1>1, RoundDown
  <2>3. s < n
    BY <2>1, <2>2
  <2>4. CASE ChunkBegins(s, n)
    <3>1. s + 1 <= w /\ w <= ChunkEnd(s, n)
      BY <1>1, <2>1, <2>2 DEF ChunkEnd
    <3> QED BY <2>3, <2>4, <3>1
  <2>5. CASE ~ChunkBegins(s, n)
    <3>1. PICK b \in 0..(n - 1) :
            ChunkBegins(b, n) /\ b <= s /\ ChunkEnd(b, n) = n
      BY <2>2, <2>3, <2>5, LastChunk
    <3> QED BY <2>1, <2>2, <3>1
  <2> QED BY <2>4, <2>5
<1>3. [from |-> b + 1, to |-> ChunkEnd(b, n)] \in Chunks(n)
  BY <1>2, ChunkShape
<1> QED BY <1>2, <1>3

\* ... and repeats no chunk within another.
LEMMA ChunksAdvance ==
  ASSUME NEW n \in Nat, NEW c \in Chunks(n), NEW d \in Chunks(n), c.from < d.from
  PROVE  c.to < d.to
<1>1. Stride \in Nat \ {0} /\ Stride <= CHUNK_WORDS
  BY StrideBounds
<1>2. PICK s \in 0..(n - 1), t \in 0..(n - 1) :
        /\ ChunkBegins(s, n) /\ c.from = s + 1 /\ c.to = ChunkEnd(s, n)
        /\ ChunkBegins(t, n) /\ d.from = t + 1 /\ d.to = ChunkEnd(t, n)
  BY ChunkShape
<1>3. s < t
  BY <1>2
<1>4. s + Stride <= t
  <2>1. s \in Nat /\ t \in Nat /\ s % Stride = 0 /\ t % Stride = 0
    BY <1>2 DEF ChunkBegins
  <2> QED BY <1>1, <1>3, <2>1, MultiplesApart
<1>5. t - Stride + CHUNK_WORDS < n
  BY <1>2, <1>3 DEF ChunkBegins
<1>6. ChunkEnd(s, n) = s + CHUNK_WORDS
  BY <1>1, <1>4, <1>5 DEF ChunkEnd
<1>7. s + CHUNK_WORDS < n /\ s + CHUNK_WORDS < t + CHUNK_WORDS
  BY <1>1, <1>3, <1>4, <1>5
<1> QED BY <1>2, <1>6, <1>7 DEF ChunkEnd

\* A run has no rows before its pass has committed, and after it those of the
\* report the pass read.
PassAgrees ==
  \A r \in Runs :
    LET rows == {e \in entries : e.by = r}
    IN  /\ pc[r] \in {"none", "finish", "index", "commit"} => rows = {}
        /\ rows # {} => /\ source[r] \in Runs
                        /\ {e.chunk : e \in rows} = Chunks(Length[source[r]])

\* A pass commits the rows of all chunks of its report at once, and never
\* again.
LEMMA PassNext == DeliveryInv /\ PassAgrees /\ [Next]_vars => PassAgrees'
<1> SUFFICES ASSUME DeliveryInv, PassAgrees, [Next]_vars PROVE PassAgrees'
  OBVIOUS
<1> DEFINE Early == {"none", "finish", "index", "commit"}
<1>1. pc \in [Deliveries -> Active \cup {"none", "done", "failed"}]
      /\ source \in [Runs -> Runs \cup {NoRun}] /\ Runs \subseteq Deliveries
  BY DEF DeliveryInv, DeliveryTypeOK, Deliveries
<1>2. ASSUME UNCHANGED <<entries, source>>,
             \A r \in Runs : pc'[r] \in Early => pc[r] \in Early
      PROVE  PassAgrees'
  BY <1>2 DEF PassAgrees
<1>3. ASSUME NEW d \in Deliveries, NEW label, Goto(d, label),
             label \in Early => pc[d] \in Early
      PROVE  \A r \in Runs : pc'[r] \in Early => pc[r] \in Early
  BY <1>1, <1>3 DEF Goto
<1>4. ASSUME NEW r \in Runs, NEW b \in Briefs, PersistReport(r, b)
      PROVE  PassAgrees'
  BY <1>1, <1>2, <1>3, <1>4 DEF PersistReport, kbVars
<1>5. ASSUME NEW r \in Runs, SetComplete(r) PROVE PassAgrees'
  BY <1>1, <1>2, <1>3, <1>5 DEF SetComplete, AfterComplete, kbVars
<1>6. ASSUME NEW r \in Runs, Embed(r) PROVE PassAgrees'
  <2>1. PICK x \in Runs : source' = [source EXCEPT ![r] = x]
    BY <1>6 DEF Embed, ReportsOf
  <2>2. pc[r] = "index" /\ entries' = entries
    BY <1>6 DEF Embed, WriteSemantic
  <2>3. /\ \A q \in Runs \ {r} : pc'[q] = pc[q]
        /\ \A q \in Runs \ {r} : source'[q] = source[q]
    BY <1>1, <1>6, <2>1 DEF Embed, Goto
  <2>4. {e \in entries : e.by = r} = {}
    BY <2>2 DEF PassAgrees
  <2> QED BY <2>2, <2>3, <2>4 DEF PassAgrees
<1>7. ASSUME NEW r \in Runs, IndexCommit(r) PROVE PassAgrees'
  <2> DEFINE rows == Rows(r, job[r], Length[source[r]])
  <2>1. /\ pc[r] = "commit" /\ entries' = entries \cup rows
        /\ Goto(r, "load") /\ source' = source
    BY <1>7 DEF IndexCommit, CommitEntries
  <2>2. /\ pc'[r] = "load"
        /\ \A q \in Runs \ {r} : pc'[q] = pc[q]
    BY <1>1, <2>1 DEF Goto
  <2>3. source[r] \in Runs
    BY <2>1 DEF DeliveryInv, IndexAgrees
  <2>4. \A e \in rows : e.by = r
    BY DEF Rows
  <2>5. {e.chunk : e \in rows} = Chunks(Length[source[r]])
    <3> DEFINE row(c) == [tenant |-> Owner[job[r]], brief |-> job[r], by |-> r,
                          chunk |-> c]
    <3>1. rows = {row(c) : c \in Chunks(Length[source[r]])}
      BY DEF Rows
    <3>2. \A c : row(c).chunk = c
      OBVIOUS
    <3> HIDE DEF rows, row
    <3> QED BY <3>1, <3>2
  <2>6. {e \in entries : e.by = r} = {}
    BY <2>1 DEF PassAgrees
  <2> HIDE DEF rows
  <2>7. {e \in entries' : e.by = r} = rows
    BY <2>1, <2>4, <2>6
  <2>8. \A q \in Runs \ {r} :
          {e \in entries' : e.by = q} = {e \in entries : e.by = q}
    BY <2>1, <2>4
  <2> QED BY <2>1, <2>2, <2>3, <2>5, <2>7, <2>8 DEF PassAgrees
<1>8. ASSUME NEW s \in Resends, NEW b \in Briefs, Resend(s, b) PROVE PassAgrees'
  BY <1>1, <1>2, <1>3, <1>8 DEF Resend, kbVars, Deliveries
<1>9. ASSUME NEW d \in Deliveries, Deliver(d) PROVE PassAgrees'
  <2>1. UNCHANGED <<entries, source>>
    BY <1>9
    DEF Deliver, Render, OpenReport, OpenTrace, Open, WriteReport, WriteTrace,
        Write, CommitPath, EmailReport, Fail, kbVars
  <2>2. \E label \in Rendered \cup {"done", "failed"} : Goto(d, label)
    BY <1>9
    DEF Deliver, Render, OpenReport, OpenTrace, Open, WriteReport, WriteTrace,
        Write, CommitPath, EmailReport, Fail, Rendered, Writing
  <2> QED BY <1>2, <1>3, <2>1, <2>2 DEF Rendered, Writing
<1>10. CASE UNCHANGED vars
  BY <1>2, <1>10 DEF vars, kbVars
<1> QED
  BY <1>4, <1>5, <1>6, <1>7, <1>8, <1>9, <1>10 DEF Next

\* index_brief commits the rows of a report in full: no word of it is missing
\* from the tenant's summary and, though neighbours overlap, no chunk lies within
\* another, for every chunk length, every overlap (also one no shorter than a
\* chunk) and every length of report.
THEOREM IndexHoldsReports == Spec => []IndexedInFull
<1>1. Init => PassAgrees
  BY DEF Init, KbInit, PassAgrees
<1>2. DeliveryInv /\ PassAgrees => IndexedInFull
  <2> SUFFICES ASSUME PassAgrees, NEW r \in Runs,
                      {e.chunk : e \in {x \in entries : x.by = r}} # {}
               PROVE  LET ranges == {e.chunk : e \in {x \in entries : x.by = r}}
                      IN  /\ \A w \in 1..Length[source[r]] :
                               \E c \in ranges : c.from <= w /\ w <= c.to
                          /\ \A c, d \in ranges : c.from < d.from => c.to < d.to
    BY DEF IndexedInFull
  <2>1. {x \in entries : x.by = r} # {}
    OBVIOUS
  <2>2. /\ Length[source[r]] \in Nat
        /\ {e.chunk : e \in {x \in entries : x.by = r}} = Chunks(Length[source[r]])
    BY <2>1 DEF PassAgrees
  <2> QED BY <2>2, ChunksCover, ChunksAdvance
<1> QED BY <1>1, <1>2, DeliveryInvariant, PassNext, PTL DEF Spec

=============================================================================
