-------------------------- MODULE WorkspaceProofs --------------------------
(* Proofs about the knowledge of a document (Embeddings), as long as no        *)
(* embedding outlives the lock: for any number of searches and changes of the  *)
(* file, a search that checks for updates gets no snippet older than what it   *)
(* checked, and a row that is taken for up to date is up to date; and about    *)
(* the parts of MCWorkspace together.                                          *)
EXTENDS MCWorkspace, TLAPS

\* Who works between lock and release owns the lock.
Inside == {"check", "download", "feed", "save"}
LockInv == \A r \in Runs : run[r].pc \in Inside => lock = r

\* A row has references, they are of the row, and their text is not older than the
\* metadata nor newer than the file.
DocInv ==
    /\ file # NoFile => refs # {}
    /\ \A d \in refs : d.file = file /\ d.file <= d.text /\ d.text <= source

\* There is a row, of a text that is as new as n: once true, this stays so.
Floor(n) == refs # {} /\ \A d \in refs : d.text >= n

\* Nobody's metadata is from the future ...
MetaInv == \A r \in Runs : run[r].meta <= source

\* ... what has been downloaded is as new as the metadata, and as the row it replaces.
TextInv == \A r \in Runs : run[r].pc \in {"feed", "save"} =>
    /\ run[r].meta <= run[r].text /\ run[r].text <= source
    /\ \A d \in refs : d.text <= run[r].text

\* What a run has seen of the row when it decides what to search.
SeenInv == \A r \in Runs :
    /\ run[r].pc = "meta" => \A v \in run[r].files : Floor(v)
    /\ run[r].pc \in {"search", "read"} /\ run[r].check => Floor(run[r].meta)

FoundInv == \A r \in Runs :
    /\ run[r].pc \in {"start", "meta"} => run[r].found = {}
    /\ run[r].check => \A d \in run[r].found : d.text >= run[r].meta

KnowledgeInv == TypeOK /\ LockInv /\ DocInv /\ MetaInv /\ TextInv /\ SeenInv /\ FoundInv

-----------------------------------------------------------------------------
LEMMA VersionFacts ==
    ASSUME EmbeddingsAssumption
    PROVE  /\ \A v \in Version : v \in Nat /\ v # NoFile
           /\ 0 \in Version
  BY DEF EmbeddingsAssumption, Version

LEMMA Fields ==
    ASSUME TypeOK
    PROVE  /\ \A r \in Runs : /\ run[r].meta \in Version /\ run[r].text \in Version
                              /\ run[r].files \subseteq Version
                              /\ run[r].found \subseteq Doc /\ run[r].hits \subseteq Doc
           /\ \A d \in Doc : d.file \in Version /\ d.text \in Version
           /\ source \in Version
           /\ refs \subseteq Doc
  BY DEF TypeOK, Run, Doc

\* The record of one run changes, within its type.
LEMMA RunType ==
    ASSUME TypeOK, NEW r \in Runs, NEW x \in Run, run' = [run EXCEPT ![r] = x]
    PROVE  run' \in [Runs -> Run]
  BY DEF TypeOK

LEMMA GotoType ==
    ASSUME TypeOK, NEW r \in Runs,
           NEW pc \in {"check", "download", "save", "end"}, Goto(r, pc)
    PROVE  run' \in [Runs -> Run]
<1>1. [run[r] EXCEPT !.pc = pc] \in Run
  BY DEF TypeOK, Run
<1>2. run' = [run EXCEPT ![r] = [run[r] EXCEPT !.pc = pc]]
  BY DEF Goto, TypeOK
<1> QED  BY <1>1, <1>2, RunType

LEMMA GotoRecord ==
    ASSUME TypeOK, NEW r \in Runs, NEW pc, Goto(r, pc)
    PROVE  /\ run'[r].pc = pc /\ run'[r].check = run[r].check /\ run'[r].meta = run[r].meta
           /\ run'[r].text = run[r].text /\ run'[r].files = run[r].files
           /\ run'[r].found = run[r].found
           /\ \A q \in Runs \ {r} : run'[q] = run[q]
  BY DEF TypeOK, Goto, Run

LEMMA InitKnowledge == EmbeddingsAssumption /\ Init => KnowledgeInv
<1> SUFFICES ASSUME EmbeddingsAssumption, Init PROVE KnowledgeInv
  OBVIOUS
<1>1. PICK x \in [Runs -> {[pc |-> "start", check |-> c, meta |-> 0, text |-> 0,
                            files |-> {}, hits |-> {}, found |-> {}] : c \in BOOLEAN}] :
        run = x
  BY DEF Init
<1>2. \A r \in Runs : /\ run[r] \in Run /\ run[r].pc = "start" /\ run[r].meta = 0
                      /\ run[r].found = {}
  BY <1>1, VersionFacts DEF Run
<1>3. run \in [Runs -> Run]
  BY <1>1, <1>2
<1>4. /\ source = 0 /\ lock = Free /\ file \in {NoFile, 0}
      /\ refs = IF file = NoFile THEN {} ELSE {[file |-> 0, text |-> 0]}
      /\ vespa = refs
  BY DEF Init
<1>5. TypeOK
  BY <1>3, <1>4, VersionFacts DEF TypeOK, Doc
<1>6. LockInv /\ TextInv /\ SeenInv /\ FoundInv
  BY <1>2 DEF LockInv, TextInv, SeenInv, FoundInv, Inside
<1>7. DocInv
  <2>1. ASSUME file # NoFile
        PROVE  refs # {} /\ file = 0 /\ \A d \in refs : d.file = 0 /\ d.text = 0
    <3>1. file = 0 /\ refs = {[file |-> 0, text |-> 0]}
      BY <1>4, <2>1
    <3> QED  BY <3>1
  <2>2. file = NoFile => refs = {}
    BY <1>4
  <2> QED  BY <1>4, <2>1, <2>2 DEF DocInv
<1>8. MetaInv
  <2>1. \A r \in Runs : run[r].meta = source
    BY <1>2, <1>4
  <2>2. source <= source
    BY <1>4
  <2> QED  BY <2>1, <2>2 DEF MetaInv
<1> QED  BY <1>5, <1>6, <1>7, <1>8 DEF KnowledgeInv

-----------------------------------------------------------------------------
\* A step of r that leaves file, references and lock to the others alone: what is left
\* to show is about r.
LEMMA OwnStep ==
    ASSUME EmbeddingsAssumption, KnowledgeInv, NEW r \in Runs,
           UNCHANGED <<source, file, refs>>,
           run' \in [Runs -> Run], vespa' \subseteq Doc,
           \A q \in Runs \ {r} : run'[q] = run[q],
           \/ lock' = lock
           \/ lock = r /\ lock' \in {Free, Orphan}
           \/ lock = Free /\ lock' = r,
           run'[r].pc \in Inside => lock' = r,
           run'[r].meta <= source,
           run'[r].pc \in {"feed", "save"} =>
               /\ run'[r].meta <= run'[r].text /\ run'[r].text <= source
               /\ \A d \in refs : d.text <= run'[r].text,
           run'[r].pc = "meta" => \A v \in run'[r].files : Floor(v),
           run'[r].pc \in {"search", "read"} /\ run'[r].check => Floor(run'[r].meta),
           run'[r].pc \in {"start", "meta"} => run'[r].found = {},
           run'[r].check => \A d \in run'[r].found : d.text >= run'[r].meta
    PROVE  KnowledgeInv'
<1> USE DEF KnowledgeInv
<1>1. \A n : Floor(n)' = Floor(n)
  BY DEF Floor
<1>2. TypeOK'
  BY DEF TypeOK
<1>3. LockInv'
  BY DEF LockInv, EmbeddingsAssumption
<1>4. DocInv' /\ MetaInv'
  BY DEF DocInv, MetaInv
<1>5. TextInv'
  BY DEF TextInv
<1>6. SeenInv'
  BY DEF SeenInv, Floor
<1>7. FoundInv'
  BY DEF FoundInv
<1> QED  BY <1>2, <1>3, <1>4, <1>5, <1>6, <1>7

LEMMA ChangeStep == EmbeddingsAssumption /\ KnowledgeInv /\ Change => KnowledgeInv'
<1> SUFFICES ASSUME EmbeddingsAssumption, KnowledgeInv, Change PROVE KnowledgeInv'
  OBVIOUS
<1> USE DEF KnowledgeInv
<1>1. UNCHANGED <<file, refs, vespa, lock, run>>
  BY DEF Change
<1>2. source \in Nat /\ source' = source + 1 /\ source' \in Version
  BY Fields, VersionFacts DEF Change, Version, EmbeddingsAssumption
<1>3. \A n \in Version : n <= source => n <= source'
  BY <1>2, VersionFacts
<1>4. TypeOK'
  BY <1>1, <1>2 DEF TypeOK
<1>5. LockInv' /\ SeenInv' /\ FoundInv'
  BY <1>1 DEF LockInv, SeenInv, FoundInv, Floor
<1>6. DocInv'
  BY <1>1, <1>3, Fields DEF DocInv
<1>7. MetaInv'
  BY <1>1, <1>3, Fields DEF MetaInv
<1>8. TextInv'
  BY <1>1, <1>3, Fields DEF TextInv
<1> QED  BY <1>4, <1>5, <1>6, <1>7, <1>8

LEMMA LookupStep ==
    ASSUME EmbeddingsAssumption, KnowledgeInv, NEW r \in Runs, Lookup(r)
    PROVE  KnowledgeInv'
<1> USE DEF KnowledgeInv
<1> DEFINE x == [run[r] EXCEPT !.files = IF file = NoFile THEN {} ELSE {file},
                               !.pc = IF file # NoFile /\ ~run[r].check
                                      THEN "search" ELSE "meta"]
<1>1. /\ run[r].pc = "start" /\ run' = [run EXCEPT ![r] = x]
      /\ UNCHANGED <<source, file, refs, vespa, lock>>
  BY DEF Lookup
<1>2. x \in Run
  BY VersionFacts DEF TypeOK, Run
<1>3. /\ x.check = run[r].check /\ x.meta = run[r].meta /\ x.found = run[r].found
      /\ x.files = IF file = NoFile THEN {} ELSE {file}
      /\ x.pc \in {"search", "meta"} /\ (x.pc = "search" => ~x.check)
  BY DEF TypeOK, Run
<1> HIDE DEF x
<1>4. run' \in [Runs -> Run] /\ run'[r] = x /\ \A q \in Runs \ {r} : run'[q] = run[q]
  BY <1>1, <1>2 DEF TypeOK
<1>5. run[r].found = {}
  BY <1>1 DEF FoundInv
<1>6. \A v \in x.files : Floor(v)
  <2> SUFFICES ASSUME file # NoFile PROVE Floor(file)
    BY <1>3
  <2>1. file \in Version
    BY DEF TypeOK
  <2> QED  BY <2>1, Fields, VersionFacts DEF DocInv, Floor
<1>7. x.meta <= source
  BY <1>3 DEF MetaInv
<1>8. vespa' \subseteq Doc
  BY <1>1 DEF TypeOK
<1> QED  BY <1>1, <1>3, <1>4, <1>5, <1>6, <1>7, <1>8, OwnStep DEF Inside

LEMMA FetchMetaStep ==
    ASSUME EmbeddingsAssumption, KnowledgeInv, NEW r \in Runs, FetchMeta(r)
    PROVE  KnowledgeInv'
<1> USE DEF KnowledgeInv
<1> DEFINE x == [run[r] EXCEPT !.meta = source,
                               !.pc = IF run[r].files = {source} THEN "search" ELSE "lock"]
<1>1. /\ run[r].pc = "meta" /\ run' = [run EXCEPT ![r] = x]
      /\ UNCHANGED <<source, file, refs, vespa, lock>>
  BY DEF FetchMeta
<1>2. x \in Run
  BY DEF TypeOK, Run
<1>3. /\ x.check = run[r].check /\ x.meta = source /\ x.found = run[r].found
      /\ x.pc \in {"search", "lock"} /\ (x.pc = "search" => source \in run[r].files)
  BY DEF TypeOK, Run
<1> HIDE DEF x
<1>4. run' \in [Runs -> Run] /\ run'[r] = x /\ \A q \in Runs \ {r} : run'[q] = run[q]
  BY <1>1, <1>2 DEF TypeOK
<1>5. run[r].found = {}
  BY <1>1 DEF FoundInv
<1>6. x.pc = "search" => Floor(source)
  BY <1>1, <1>3 DEF SeenInv
<1>7. x.meta <= source
  BY <1>3, Fields, VersionFacts
<1>8. vespa' \subseteq Doc
  BY <1>1 DEF TypeOK
<1> QED  BY <1>1, <1>3, <1>4, <1>5, <1>6, <1>7, <1>8, OwnStep DEF Inside

LEMMA LockStep ==
    ASSUME EmbeddingsAssumption, KnowledgeInv, NEW r \in Runs, Lock(r)
    PROVE  KnowledgeInv'
<1> USE DEF KnowledgeInv
<1>1. /\ run[r].pc = "lock" /\ lock = Free /\ lock' = r /\ Goto(r, "check")
      /\ UNCHANGED <<source, file, refs, vespa>>
  BY DEF Lock
<1>2. run' \in [Runs -> Run]
  BY <1>1, GotoType
<1>3. /\ run'[r].meta <= source
      /\ run'[r].check => \A d \in run'[r].found : d.text >= run'[r].meta
  BY <1>1, GotoRecord DEF MetaInv, FoundInv
<1>4. vespa' \subseteq Doc
  BY <1>1 DEF TypeOK
<1> QED  BY <1>1, <1>2, <1>3, <1>4, GotoRecord, OwnStep

LEMMA CheckStep ==
    ASSUME EmbeddingsAssumption, KnowledgeInv, NEW r \in Runs, Check(r)
    PROVE  KnowledgeInv'
<1> USE DEF KnowledgeInv
<1>1. /\ run[r].pc = "check" /\ lock = r
      /\ UNCHANGED <<source, file, refs, vespa>>
  BY DEF Check, LockInv, Inside
<1>2. vespa' \subseteq Doc
  BY <1>1 DEF TypeOK
<1>3. CASE file = run[r].meta
  <2> DEFINE x == [run[r] EXCEPT !.pc = "search", !.files = run[r].files \cup {file}]
  <2>1. run' = [run EXCEPT ![r] = x] /\ lock' = Free
    BY <1>1, <1>3 DEF Check, Released, SearchAlso
  <2>2. x \in Run
    BY <1>3 DEF TypeOK, Run
  <2>3. /\ x.pc = "search" /\ x.check = run[r].check /\ x.meta = run[r].meta
        /\ x.found = run[r].found
    BY DEF TypeOK, Run
  <2> HIDE DEF x
  <2>4. run' \in [Runs -> Run] /\ run'[r] = x /\ \A q \in Runs \ {r} : run'[q] = run[q]
    BY <2>1, <2>2 DEF TypeOK
  <2>5. Floor(x.meta)
    BY <1>3, <2>3, Fields, VersionFacts DEF DocInv, Floor
  <2>6. x.meta <= source /\ (x.check => \A d \in x.found : d.text >= x.meta)
    BY <2>3 DEF MetaInv, FoundInv
  <2> QED  BY <1>1, <1>2, <2>1, <2>3, <2>4, <2>5, <2>6, OwnStep DEF Inside
<1>4. CASE file # run[r].meta
  <2>1. Goto(r, "download") /\ lock' = lock
    BY <1>4 DEF Check
  <2>2. run' \in [Runs -> Run]
    BY <2>1, GotoType
  <2>3. /\ run'[r].meta <= source
        /\ run'[r].check => \A d \in run'[r].found : d.text >= run'[r].meta
    BY <2>1, GotoRecord DEF MetaInv, FoundInv
  <2> QED  BY <1>1, <1>2, <2>1, <2>2, <2>3, GotoRecord, OwnStep
<1> QED  BY <1>3, <1>4

LEMMA DownloadStep ==
    ASSUME EmbeddingsAssumption, KnowledgeInv, NEW r \in Runs, Download(r)
    PROVE  KnowledgeInv'
<1> USE DEF KnowledgeInv
<1> DEFINE x == [run[r] EXCEPT !.pc = "feed", !.text = source]
<1>1. /\ run[r].pc = "download" /\ lock = r /\ run' = [run EXCEPT ![r] = x]
      /\ UNCHANGED <<source, file, refs, vespa, lock>>
  BY DEF Download, LockInv, Inside
<1>2. x \in Run
  BY DEF TypeOK, Run
<1>3. /\ x.pc = "feed" /\ x.check = run[r].check /\ x.meta = run[r].meta
      /\ x.found = run[r].found /\ x.text = source
  BY DEF TypeOK, Run
<1> HIDE DEF x
<1>4. run' \in [Runs -> Run] /\ run'[r] = x /\ \A q \in Runs \ {r} : run'[q] = run[q]
  BY <1>1, <1>2 DEF TypeOK
<1>5. x.meta <= source /\ (x.check => \A d \in x.found : d.text >= x.meta)
  BY <1>3 DEF MetaInv, FoundInv
<1>6. x.meta <= x.text /\ x.text <= source /\ \A d \in refs : d.text <= x.text
  BY <1>3, <1>5, Fields, VersionFacts DEF DocInv
<1>7. vespa' \subseteq Doc
  BY <1>1 DEF TypeOK
<1> QED  BY <1>1, <1>3, <1>4, <1>5, <1>6, <1>7, OwnStep

LEMMA FeedStep ==
    ASSUME EmbeddingsAssumption, KnowledgeInv, NEW r \in Runs, Feed(r)
    PROVE  KnowledgeInv'
<1> USE DEF KnowledgeInv
<1>1. /\ run[r].pc = "feed" /\ lock = r /\ Goto(r, "save")
      /\ UNCHANGED <<source, file, refs, lock>>
  BY DEF Feed, LockInv, Inside
<1>2. run' \in [Runs -> Run]
  BY <1>1, GotoType
<1>3. /\ run'[r].meta <= source
      /\ run'[r].check => \A d \in run'[r].found : d.text >= run'[r].meta
  BY <1>1, GotoRecord DEF MetaInv, FoundInv
<1>4. /\ run'[r].meta <= run'[r].text /\ run'[r].text <= source
      /\ \A d \in refs : d.text <= run'[r].text
  BY <1>1, GotoRecord DEF TextInv
<1>5. vespa' \subseteq Doc
  BY Fields DEF Feed, Embedded, TypeOK, Doc
<1> QED  BY <1>1, <1>2, <1>3, <1>4, <1>5, GotoRecord, OwnStep

\* The row is replaced: the new text is as new as the old one, so every floor stays.
LEMMA SaveStep ==
    ASSUME EmbeddingsAssumption, KnowledgeInv, NEW r \in Runs, Save(r)
    PROVE  KnowledgeInv'
<1> USE DEF KnowledgeInv
<1> DEFINE x == [run[r] EXCEPT !.pc = "search", !.files = run[r].files \cup {run[r].meta}]
<1> DEFINE e == [file |-> run[r].meta, text |-> run[r].text]
<1>1. /\ run[r].pc = "save" /\ lock = r /\ lock' = Free /\ run' = [run EXCEPT ![r] = x]
      /\ file' = run[r].meta /\ refs' = {e}
      /\ UNCHANGED <<source, vespa>>
  BY DEF Save, LockInv, Inside, Released, Embedded, SearchAlso
<1>2. x \in Run
  BY DEF TypeOK, Run
<1>3. /\ x.pc = "search" /\ x.check = run[r].check /\ x.meta = run[r].meta
      /\ x.found = run[r].found
  BY DEF TypeOK, Run
<1> HIDE DEF x
<1>4. run' \in [Runs -> Run] /\ run'[r] = x /\ \A q \in Runs \ {r} : run'[q] = run[q]
  BY <1>1, <1>2 DEF TypeOK
<1>5. e \in Doc /\ e.file = run[r].meta /\ e.text = run[r].text
  BY Fields DEF Doc
<1> HIDE DEF e
<1>6. /\ run[r].meta <= run[r].text /\ run[r].text <= source
      /\ \A d \in refs : d.text <= run[r].text
  BY <1>1 DEF TextInv
<1>7. \A n \in Version : Floor(n) => e.text >= n
  <2> SUFFICES ASSUME NEW n \in Version, Floor(n) PROVE e.text >= n
    OBVIOUS
  <2>1. PICK d \in refs : d.text >= n
    BY DEF Floor
  <2>2. d.text <= e.text /\ d.text \in Version /\ e.text \in Version
    BY <1>5, <1>6, Fields
  <2> QED  BY <2>1, <2>2, VersionFacts
<1>8. e.text >= x.meta
  BY <1>3, <1>5, <1>6, Fields, VersionFacts
<1>9. TypeOK'
  BY <1>1, <1>4, <1>5, Fields DEF TypeOK
<1>10. \A q \in Runs \ {r} : ~(run[q].pc \in Inside)
  BY <1>1 DEF LockInv
<1>11. LockInv' /\ TextInv'
  BY <1>3, <1>4, <1>10 DEF LockInv, TextInv, Inside
<1>12. DocInv'
  BY <1>1, <1>5, <1>6 DEF DocInv
<1>13. MetaInv'
  BY <1>1, <1>3, <1>4 DEF MetaInv
<1>14. SeenInv'
  <2>1. ASSUME NEW q \in Runs \ {r}, run[q].pc = "meta", NEW v \in run[q].files
        PROVE  e.text >= v
    BY <1>7, <2>1, Fields DEF SeenInv
  <2>2. ASSUME NEW q \in Runs \ {r}, run[q].pc \in {"search", "read"}, run[q].check
        PROVE  e.text >= run[q].meta
    BY <1>7, <2>2, Fields DEF SeenInv
  <2>3. ASSUME NEW q \in Runs, run'[q].pc = "meta", NEW v \in run'[q].files
        PROVE  e.text >= v
    BY <1>3, <1>4, <2>1, <2>3
  <2>4. ASSUME NEW q \in Runs, run'[q].pc \in {"search", "read"}, run'[q].check
        PROVE  e.text >= run'[q].meta
    BY <1>3, <1>4, <1>8, <2>2, <2>4
  <2> QED  BY <1>1, <2>3, <2>4 DEF SeenInv, Floor
<1>15. FoundInv'
  BY <1>3, <1>4 DEF FoundInv
<1> QED  BY <1>9, <1>11, <1>12, <1>13, <1>14, <1>15

LEMMA SearchStep ==
    ASSUME EmbeddingsAssumption, KnowledgeInv, NEW r \in Runs, Search(r)
    PROVE  KnowledgeInv'
<1> USE DEF KnowledgeInv
<1> DEFINE x == [run[r] EXCEPT !.pc = "read",
                               !.hits = {d \in vespa : d.file \in run[r].files}]
<1>1. /\ run[r].pc = "search" /\ run' = [run EXCEPT ![r] = x]
      /\ UNCHANGED <<source, file, refs, vespa, lock>>
  BY DEF Search
<1>2. x \in Run
  BY DEF TypeOK, Run
<1>3. /\ x.pc = "read" /\ x.check = run[r].check /\ x.meta = run[r].meta
      /\ x.found = run[r].found
  BY DEF TypeOK, Run
<1> HIDE DEF x
<1>4. run' \in [Runs -> Run] /\ run'[r] = x /\ \A q \in Runs \ {r} : run'[q] = run[q]
  BY <1>1, <1>2 DEF TypeOK
<1>5. x.meta <= source /\ (x.check => \A d \in x.found : d.text >= x.meta)
  BY <1>3 DEF MetaInv, FoundInv
<1>6. x.check => Floor(x.meta)
  BY <1>1, <1>3 DEF SeenInv
<1>7. vespa' \subseteq Doc
  BY <1>1 DEF TypeOK
<1> QED  BY <1>1, <1>3, <1>4, <1>5, <1>6, <1>7, OwnStep DEF Inside

LEMMA ReadStep ==
    ASSUME EmbeddingsAssumption, KnowledgeInv, NEW r \in Runs, Read(r)
    PROVE  KnowledgeInv'
<1> USE DEF KnowledgeInv
<1>1. run[r].pc = "read" /\ UNCHANGED <<source, file, refs, vespa, lock>>
  BY DEF Read
<1>2. vespa' \subseteq Doc
  BY <1>1 DEF TypeOK
<1>3. CASE run[r].hits = {}
  <2>1. Goto(r, "end")
    BY <1>3 DEF Read
  <2>2. run' \in [Runs -> Run]
    BY <2>1, GotoType
  <2>3. /\ run'[r].meta <= source
        /\ run'[r].check => \A d \in run'[r].found : d.text >= run'[r].meta
    BY <2>1, GotoRecord DEF MetaInv, FoundInv
  <2> QED  BY <1>1, <1>2, <2>1, <2>2, <2>3, GotoRecord, OwnStep DEF Inside
<1>4. CASE run[r].hits # {}
  <2>1. PICK d \in run[r].hits :
           run' = [run EXCEPT ![r] =
                     [@ EXCEPT !.hits = run[r].hits \ {d},
                               !.found = IF d \in refs THEN run[r].found \cup {d}
                                         ELSE run[r].found]]
    BY <1>4 DEF Read
  <2> DEFINE x == [run[r] EXCEPT !.hits = run[r].hits \ {d},
                                 !.found = IF d \in refs THEN run[r].found \cup {d}
                                           ELSE run[r].found]
  <2>2. run' = [run EXCEPT ![r] = x]
    BY <2>1
  <2>3. d \in Doc
    BY Fields
  <2>4. x \in Run
    BY <2>3 DEF TypeOK, Run
  <2>5. /\ x.pc = "read" /\ x.check = run[r].check /\ x.meta = run[r].meta
        /\ x.found \subseteq run[r].found \cup refs
    BY <1>1 DEF TypeOK, Run
  <2> HIDE DEF x
  <2>6. run' \in [Runs -> Run] /\ run'[r] = x /\ \A q \in Runs \ {r} : run'[q] = run[q]
    BY <2>2, <2>4 DEF TypeOK
  <2>7. x.meta <= source
    BY <2>5 DEF MetaInv
  <2>8. x.check => Floor(x.meta)
    BY <1>1, <2>5 DEF SeenInv
  <2>9. x.check => \A c \in x.found : c.text >= x.meta
    BY <2>5, <2>8 DEF FoundInv, Floor
  <2> QED  BY <1>1, <1>2, <2>5, <2>6, <2>7, <2>8, <2>9, OwnStep DEF Inside
<1> QED  BY <1>3, <1>4

\* A failure and a death differ in what becomes of the lock.
LEMMA EndStep ==
    ASSUME EmbeddingsAssumption, KnowledgeInv, NEW r \in Runs, Fail(r) \/ Die(r)
    PROVE  KnowledgeInv'
<1> USE DEF KnowledgeInv
<1>1. /\ lock = r /\ lock' \in {Free, Orphan} /\ Goto(r, "end")
      /\ UNCHANGED <<source, file, refs, vespa>>
  BY DEF Fail, Die
<1>2. run' \in [Runs -> Run]
  BY <1>1, GotoType
<1>3. /\ run'[r].meta <= source
      /\ run'[r].check => \A d \in run'[r].found : d.text >= run'[r].meta
  BY <1>1, GotoRecord DEF MetaInv, FoundInv
<1>4. vespa' \subseteq Doc
  BY <1>1 DEF TypeOK
<1> QED  BY <1>1, <1>2, <1>3, <1>4, GotoRecord, OwnStep DEF Inside

LEMMA ExpiryStep ==
    ASSUME EmbeddingsAssumption, ~Slow, KnowledgeInv, LockExpires
    PROVE  KnowledgeInv'
<1> USE DEF KnowledgeInv
<1>1. lock = Orphan /\ lock' = Free /\ UNCHANGED <<source, file, refs, vespa, run>>
  BY DEF LockExpires
<1>2. TypeOK'
  BY <1>1 DEF TypeOK
<1>3. LockInv'
  BY <1>1 DEF LockInv, EmbeddingsAssumption
<1>4. DocInv' /\ MetaInv' /\ TextInv' /\ SeenInv' /\ FoundInv'
  BY <1>1 DEF DocInv, MetaInv, TextInv, SeenInv, FoundInv, Floor
<1> QED  BY <1>2, <1>3, <1>4

LEMMA NextKnowledge ==
    EmbeddingsAssumption /\ ~Slow /\ KnowledgeInv /\ [Next]_vars => KnowledgeInv'
<1> SUFFICES ASSUME EmbeddingsAssumption, ~Slow, KnowledgeInv, [Next]_vars
             PROVE  KnowledgeInv'
  OBVIOUS
<1>1. CASE UNCHANGED vars
  BY <1>1 DEF vars, KnowledgeInv, TypeOK, LockInv, DocInv, MetaInv, TextInv, SeenInv,
              FoundInv, Floor
<1>2. CASE Change
  BY <1>2, ChangeStep
<1>3. CASE LockExpires
  BY <1>3, ExpiryStep
<1>4. ASSUME NEW r \in Runs, Step(r) PROVE KnowledgeInv'
  BY <1>4, LookupStep, FetchMetaStep, LockStep, CheckStep, DownloadStep, FeedStep, SaveStep,
     SearchStep, ReadStep, EndStep DEF Step
<1> QED  BY <1>1, <1>2, <1>3, <1>4 DEF Next

\* The inductive invariant holds in every state, if no embedding outlives the lock.
THEOREM KnowledgeCorrect ==
    ASSUME EmbeddingsAssumption, ~Slow
    PROVE  Spec => []KnowledgeInv
<1>1. Init => KnowledgeInv
  BY InitKnowledge
<1>2. KnowledgeInv /\ [Next]_vars => KnowledgeInv'
  BY NextKnowledge
<1> QED  BY <1>1, <1>2, PTL DEF Spec

\* A search that checks for updates gets no snippet that is older than what it checked,
\* for any number of searches that embed the file at once, fail or die.
THEOREM SearchIsFresh ==
    ASSUME EmbeddingsAssumption, ~Slow
    PROVE  Spec => []NoStaleHit
<1>1. KnowledgeInv => NoStaleHit
  BY DEF KnowledgeInv, FoundInv, NoStaleHit
<1> QED  BY <1>1, KnowledgeCorrect, PTL

\* A row with the metadata of the file as it is holds the file as it is.
THEOREM TrustIsJustified ==
    ASSUME EmbeddingsAssumption, ~Slow
    PROVE  Spec => []TrustedIsCurrent
<1>1. KnowledgeInv => TrustedIsCurrent
  BY Fields, VersionFacts DEF KnowledgeInv, DocInv, TrustedIsCurrent
<1> QED  BY <1>1, KnowledgeCorrect, PTL

-----------------------------------------------------------------------------
(* The parts together *)

\* The theorems about plans, of the instance with two billing pages.
SP2 == INSTANCE SubscriptionProofs WITH
    Subs <- {OneSub, OtherSub}, Plans <- {OnePlan}, Tabs <- 2, Serial <- FALSE,
    MaxEvents <- 4, MaxAddons <- 0, Happens <- {"end", "lapse"},
    stripe <- stripe2, db <- db2, events <- events2, sent <- sent2, proc <- proc2,
    addons <- addons2, crashes <- crashes2

\* The two names of this instance mean the same.
LEMMA SameStart == TwoPages!PlanInit => SP2!PlanInit
  BY DEF TwoPages!PlanInit, SP2!PlanInit, TwoPages!NoDb, SP2!NoDb, TwoPages!Idle, SP2!Idle,
         TwoPages!NoEvent, SP2!NoEvent

LEMMA SameStep == [TwoPages!PlanNext]_(TwoPages!plans) => [SP2!PlanNext]_(SP2!plans)
<1> DEFINE InTabs == {p \in Procs : proc2[p].pc \in {"create", "modify"}}
<1>0. TwoPages!Cardinality(InTabs) = SP2!Cardinality(InTabs)
  BY Zenon DEF TwoPages!Cardinality, SP2!Cardinality
<1>1. ASSUME NEW p \in Procs, NEW plan PROVE TwoPages!Buy(p, plan) => SP2!Buy(p, plan)
  BY <1>0 DEF TwoPages!Buy, TwoPages!TabFree, TwoPages!InTab, TwoPages!Active,
         TwoPages!NotOverlapping, TwoPages!Updated, SP2!Buy, SP2!TabFree, SP2!InTab,
         SP2!Active, SP2!NotOverlapping, SP2!Updated
<1>2. ASSUME NEW p \in Procs, NEW plan PROVE TwoPages!Switch(p, plan) => SP2!Switch(p, plan)
  BY <1>0 DEF TwoPages!Switch, TwoPages!TabFree, TwoPages!InTab, TwoPages!Updated, SP2!Switch,
         SP2!TabFree, SP2!InTab, SP2!Updated
<1>3. ASSUME NEW p \in Procs, NEW s PROVE TwoPages!Create(p, s) => SP2!Create(p, s)
  BY DEF TwoPages!Create, TwoPages!ChangeSub, TwoPages!Idle, TwoPages!NoEvent,
         TwoPages!NoDb, SP2!Create, SP2!ChangeSub, SP2!Idle, SP2!NoEvent, SP2!NoDb
<1>4. ASSUME NEW p \in Procs PROVE TwoPages!GiveUp(p) => SP2!GiveUp(p)
  BY DEF TwoPages!GiveUp, TwoPages!InTab, TwoPages!Idle, TwoPages!NoEvent, TwoPages!NoDb,
         SP2!GiveUp, SP2!InTab, SP2!Idle, SP2!NoEvent, SP2!NoDb
<1>5. ASSUME NEW p \in Procs PROVE TwoPages!Modify(p) => SP2!Modify(p)
  BY DEF TwoPages!Modify, TwoPages!Open, TwoPages!ChangeSub, TwoPages!Idle,
         TwoPages!NoEvent, TwoPages!NoDb, SP2!Modify, SP2!Open, SP2!ChangeSub, SP2!Idle,
         SP2!NoEvent, SP2!NoDb
<1>6. ASSUME NEW p \in Procs PROVE TwoPages!CheckAddon(p) => SP2!CheckAddon(p)
  BY DEF TwoPages!CheckAddon, TwoPages!Idle, TwoPages!NoEvent, TwoPages!NoDb,
         SP2!CheckAddon, SP2!Idle, SP2!NoEvent, SP2!NoDb
<1>7. ASSUME NEW p \in Procs PROVE TwoPages!ReadAddon(p) => SP2!ReadAddon(p)
  BY DEF TwoPages!ReadAddon, TwoPages!NotOverlapping, TwoPages!NoEvent, SP2!ReadAddon,
         SP2!NotOverlapping, SP2!NoEvent
<1>8. ASSUME NEW p \in Procs PROVE TwoPages!SaveSub(p) => SP2!SaveSub(p)
  BY DEF TwoPages!SaveSub, TwoPages!NewDb, TwoPages!Answer, TwoPages!Idle,
         TwoPages!NoEvent, TwoPages!NoDb, SP2!SaveSub, SP2!NewDb, SP2!Answer, SP2!Idle,
         SP2!NoEvent, SP2!NoDb
<1>9. ASSUME NEW p \in Procs PROVE TwoPages!Cancel(p) => SP2!Cancel(p)
  BY DEF TwoPages!Cancel, TwoPages!Open, TwoPages!Idle, TwoPages!NoEvent, TwoPages!NoDb,
         SP2!Cancel, SP2!Open, SP2!Idle, SP2!NoEvent, SP2!NoDb
<1>10. ASSUME NEW p \in Procs PROVE TwoPages!CancelMissing(p) => SP2!CancelMissing(p)
  BY DEF TwoPages!CancelMissing, TwoPages!Open, TwoPages!Answer, TwoPages!Idle,
         TwoPages!NoEvent, TwoPages!NoDb, SP2!CancelMissing, SP2!Open, SP2!Answer,
         SP2!Idle, SP2!NoEvent, SP2!NoDb
<1>11. ASSUME NEW p \in Procs PROVE TwoPages!Crash(p) => SP2!Crash(p)
  BY DEF TwoPages!Crash, TwoPages!Idle, TwoPages!NoEvent, TwoPages!NoDb, SP2!Crash,
         SP2!Idle, SP2!NoEvent, SP2!NoDb
<1>12. ASSUME NEW p \in Procs, NEW e PROVE TwoPages!Ignore(p, e) => SP2!Ignore(p, e)
  BY DEF TwoPages!Ignore, TwoPages!Deliverable, TwoPages!NotOverlapping, SP2!Ignore,
         SP2!Deliverable, SP2!NotOverlapping
<1>13. ASSUME NEW p \in Procs, NEW e PROVE TwoPages!Deliver(p, e) => SP2!Deliver(p, e)
  BY DEF TwoPages!Deliver, TwoPages!Deliverable, TwoPages!NotOverlapping, SP2!Deliver,
         SP2!Deliverable, SP2!NotOverlapping
<1>14. ASSUME NEW s PROVE TwoPages!Lapse(s) => SP2!Lapse(s)
  BY DEF TwoPages!Lapse, TwoPages!Active, TwoPages!ChangeSub, SP2!Lapse, SP2!Active,
         SP2!ChangeSub
<1>15. ASSUME NEW s PROVE TwoPages!Recover(s) => SP2!Recover(s)
  BY DEF TwoPages!Recover, TwoPages!ChangeSub, SP2!Recover, SP2!ChangeSub
<1>16. ASSUME NEW s PROVE TwoPages!End(s) => SP2!End(s)
  BY DEF TwoPages!End, TwoPages!Open, TwoPages!ChangeSub, SP2!End, SP2!Open, SP2!ChangeSub
<1>17. TwoPages!BuyAddon => SP2!BuyAddon
  BY DEF TwoPages!BuyAddon, SP2!BuyAddon
<1>18. TwoPages!PlanNext => SP2!PlanNext
  BY <1>1, <1>2, <1>3, <1>4, <1>5, <1>6, <1>7, <1>8, <1>9,
     <1>10, <1>11, <1>12, <1>13, <1>14, <1>15, <1>16, <1>17
     DEF TwoPages!PlanNext, SP2!PlanNext
<1> QED  BY <1>18 DEF TwoPages!plans, SP2!plans

\* So do their wishes.
LEMMA SameWish ==
    [~SP2!Unpaid /\ SP2!Unpaid' =>
        \E p \in Procs : SP2!SaveSub(p) /\ proc2[p].ev.type = "updated"
                             /\ SP2!Gone(proc2[p].ev.sub)]_(SP2!plans) =>
    [~TwoPages!Unpaid /\ TwoPages!Unpaid' =>
        \E p \in Procs : TwoPages!SaveSub(p) /\ proc2[p].ev.type = "updated"
                             /\ TwoPages!Gone(proc2[p].ev.sub)]_(TwoPages!plans)
<1>1. SP2!Unpaid <=> TwoPages!Unpaid
  BY DEF SP2!Unpaid, SP2!Gone, TwoPages!Unpaid, TwoPages!Gone
<1>2. SP2!Unpaid' <=> TwoPages!Unpaid'
  BY DEF SP2!Unpaid, SP2!Gone, TwoPages!Unpaid, TwoPages!Gone
<1>3. ASSUME NEW s PROVE SP2!Gone(s) <=> TwoPages!Gone(s)
  BY DEF SP2!Gone, TwoPages!Gone
<1>4. ASSUME NEW p \in Procs, SP2!SaveSub(p), SP2!Gone(proc2[p].ev.sub)
      PROVE  TwoPages!SaveSub(p) /\ TwoPages!Gone(proc2[p].ev.sub)
  <2>1. TwoPages!Gone(proc2[p].ev.sub)
    BY <1>4 DEF SP2!Gone, TwoPages!Gone
  <2>2. TwoPages!SaveSub(p)
    BY <1>4 DEF TwoPages!SaveSub, TwoPages!NewDb, TwoPages!Answer, TwoPages!Idle,
         TwoPages!NoEvent, TwoPages!NoDb, SP2!SaveSub, SP2!NewDb, SP2!Answer, SP2!Idle,
         SP2!NoEvent, SP2!NoDb
  <2> QED  BY <2>1, <2>2
<1> QED  BY <1>1, <1>2, <1>4 DEF SP2!plans, TwoPages!plans

\* The instance is one that the theorems about plans speak of.
LEMMA TwoPagesAssumption ==
    ASSUME Plans # {}, \E s, t \in Subs : s # t
    PROVE  SP2!SubscriptionAssumption
<1>1. OneSub \in Subs /\ OnePlan \in Plans
  BY DEF OneSub, OnePlan
<1>2. OtherSub \in Subs
  BY <1>1 DEF OtherSub
<1>3. NoSub \notin {OneSub, OtherSub} /\ Starter \notin {OnePlan}
  BY <1>1, <1>2, SubscriptionAssumption DEF SubscriptionAssumption
<1>4. SP2!IsFiniteSet(Procs)
  BY SubscriptionAssumption DEF SubscriptionAssumption, IsFiniteSet, SP2!IsFiniteSet
<1> QED  BY <1>3, <1>4, SubscriptionAssumption
         DEF SubscriptionAssumption, SP2!SubscriptionAssumption

\* Each part takes its own steps, whatever the others do.
LEMMA PartsOfWorkspace ==
    WorkspaceSpec => Spec /\ PlanSpec /\ TwoPages!PlanSpec /\ TeamSpec
<1>1. WorkspaceInit => Init /\ PlanInit /\ TwoPages!PlanInit /\ TeamInit
  BY DEF WorkspaceInit
<1>2. [WorkspaceNext]_workspace =>
          [Next]_vars /\ [PlanNext]_plans /\ [TwoPages!PlanNext]_(TwoPages!plans) /\ [TeamNext]_team
  BY DEF WorkspaceNext, workspace, plans2, TwoPages!plans
<1> QED  BY <1>1, <1>2, PTL DEF WorkspaceSpec, Spec, PlanSpec, TwoPages!PlanSpec, TeamSpec

\* With two billing pages, failed renewals and webhooks in any order, in a workspace that
\* also changes its team and its documents: it comes to keep a plan that nobody pays only
\* by an "updated" webhook that is saved after the end of its subscription has been
\* handled (payments/webhooks.py, payments/models.py).
THEOREM NoUnpaidPlanEver ==
  ASSUME Plans # {}, \E s, t \in Subs : s # t
  PROVE  WorkspaceSpec => NoUnpaidPlan
<1>1. SP2!PlanSpec => SP2!UnpaidIsStale
  BY TwoPagesAssumption, SP2!NobodyRidesFree
<1>2. TwoPages!PlanSpec => SP2!PlanSpec
  BY SameStart, SameStep, PTL DEF TwoPages!PlanSpec, SP2!PlanSpec
<1>3. SP2!UnpaidIsStale => TwoPages!UnpaidIsStale
  BY SameWish, PTL DEF SP2!UnpaidIsStale, TwoPages!UnpaidIsStale
<1> QED  BY <1>1, <1>2, <1>3, PartsOfWorkspace, PTL DEF NoUnpaidPlan
=============================================================================
