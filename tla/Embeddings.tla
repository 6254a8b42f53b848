----------------------------- MODULE Embeddings -----------------------------
(* The knowledge of one document (daras_ai_v2/vector_search.py): the file at   *)
(* its URL changes; runs compare its metadata with the EmbeddedFile row that   *)
(* they find, embed it anew under a redis lock, feed the snippets to Vespa     *)
(* under a hash of the metadata, and search.  Nothing is ever taken out of     *)
(* Vespa: what a search finds counts only if it has an EmbeddingsReference.    *)
EXTENDS Naturals

CONSTANTS
    Runs,       \* searches with the same settings
    NoFile,     \* there is no EmbeddedFile
    Free,       \* the lock has no owner
    Orphan,     \* the owner of the lock has died
    MaxVersion, \* bound: changes of the file
    Slow        \* embedding may take longer than LOCK_TIMEOUT_SEC

EmbeddingsAssumption ==
    /\ NoFile \notin Nat /\ Free \notin Runs /\ Orphan \notin Runs /\ Free # Orphan
    /\ MaxVersion \in Nat /\ Slow \in BOOLEAN

VARIABLES
    source,  \* the version of the file, told by its etag
    file,    \* the EmbeddedFile row: the version its metadata is of, or NoFile
    refs,    \* EmbeddingsReference rows, by vespa_doc_id: the metadata, the text
    vespa,   \* documents in Vespa
    lock,
    run      \* run[r]

vars == <<source, file, refs, vespa, lock, run>>

Version == 0 .. MaxVersion
Doc == [file : Version, text : Version]

Run == [pc    : {"start", "meta", "lock", "check", "download", "feed", "save", "search",
                 "read", "end"},
        check : BOOLEAN,              \* check_document_updates, of a file not uploaded here
        meta  : Version,              \* of the metadata it has fetched
        text  : Version,              \* of what it has downloaded
        files : SUBSET Version,       \* vespa_file_id's it will search
        hits  : SUBSET Doc,           \* found in Vespa
        found : SUBSET Doc]           \* ... and among the references

\* An earlier run may have embedded the file.
Init ==
    /\ source = 0
    /\ file \in {NoFile, 0}
    /\ refs = IF file = NoFile THEN {} ELSE {[file |-> 0, text |-> 0]}
    /\ vespa = refs
    /\ lock = Free
    /\ run \in [Runs -> {[pc |-> "start", check |-> c, meta |-> 0, text |-> 0, files |-> {},
                          hits |-> {}, found |-> {}] : c \in BOOLEAN}]

Goto(r, pc) == run' = [run EXCEPT ![r].pc = pc]

\* The file of a row that is up to date is searched with those that were found before.
SearchAlso(r, f) ==
    run' = [run EXCEPT ![r] = [@ EXCEPT !.pc = "search", !.files = run[r].files \cup {f}]]

-----------------------------------------------------------------------------
\* The author edits the file.
Change ==
    /\ source < MaxVersion
    /\ source' = source + 1
    /\ UNCHANGED <<file, refs, vespa, lock, run>>

\* do_check_document_updates: a file that was embedded before and need not be checked
\* is searched as it is.
Lookup(r) ==
    /\ run[r].pc = "start"
    /\ run' = [run EXCEPT ![r] =
                 [@ EXCEPT !.files = IF file = NoFile THEN {} ELSE {file},
                           !.pc = IF file # NoFile /\ ~run[r].check THEN "search" ELSE "meta"]]
    /\ UNCHANGED <<source, file, refs, vespa, lock>>

\* doc_or_yt_url_to_file_metas; the file that was found stays in the list, outdated or not.
FetchMeta(r) ==
    /\ run[r].pc = "meta"
    /\ run' = [run EXCEPT ![r] =
                 [@ EXCEPT !.meta = source,
                           !.pc = IF run[r].files = {source} THEN "search" ELSE "lock"]]
    /\ UNCHANGED <<source, file, refs, vespa, lock>>

\* create_embedded_file
Lock(r) ==
    /\ run[r].pc = "lock" /\ lock = Free
    /\ lock' = r
    /\ Goto(r, "check")
    /\ UNCHANGED <<source, file, refs, vespa>>

\* release() of a lock that has expired does nothing.
Released(r) == IF lock = r THEN Free ELSE lock

\* Mutant of Check: whatever row there is will do.
CheckAny(r) ==
    /\ run[r].pc = "check"
    /\ IF file # NoFile
       THEN /\ SearchAlso(r, file)
            /\ lock' = Released(r)
       ELSE Goto(r, "download") /\ UNCHANGED lock
    /\ UNCHANGED <<source, file, refs, vespa>>

\* "check if embeddings already exist and are up-to-date"
Check(r) ==
    /\ run[r].pc = "check"
    /\ IF file = run[r].meta
       THEN /\ SearchAlso(r, file)
            /\ lock' = Released(r)
       ELSE Goto(r, "download") /\ UNCHANGED lock
    /\ UNCHANGED <<source, file, refs, vespa>>

\* doc_url_to_text_pages: the file as it is now, not as it was when FetchMeta asked.
Download(r) ==
    /\ run[r].pc = "download"
    /\ run' = [run EXCEPT ![r] = [@ EXCEPT !.pc = "feed", !.text = source]]
    /\ UNCHANGED <<source, file, refs, vespa, lock>>

Embedded(r) == [file |-> run[r].meta, text |-> run[r].text]

\* vespa.feed_data_point
Feed(r) ==
    /\ run[r].pc = "feed"
    /\ vespa' = vespa \cup {Embedded(r)}
    /\ Goto(r, "save")
    /\ UNCHANGED <<source, file, refs, lock>>

\* Mutant of Save: the metadata is fetched once more.
SaveLatestMeta(r) ==
    /\ run[r].pc = "save"
    /\ file' = source
    /\ refs' = {[Embedded(r) EXCEPT !.file = source]}
    /\ SearchAlso(r, run[r].meta)
    /\ lock' = Released(r)
    /\ UNCHANGED <<source, vespa>>

\* The transaction that replaces the row; the references of the old one go with it.
Save(r) ==
    /\ run[r].pc = "save"
    /\ file' = run[r].meta
    /\ refs' = {Embedded(r)}
    /\ SearchAlso(r, run[r].meta)
    /\ lock' = Released(r)
    /\ UNCHANGED <<source, vespa>>

\* query_vespa
Search(r) ==
    /\ run[r].pc = "search"
    /\ run' = [run EXCEPT ![r] =
                 [@ EXCEPT !.pc = "read", !.hits = {d \in vespa : d.file \in run[r].files}]]
    /\ UNCHANGED <<source, file, refs, vespa, lock>>

\* vespa_search_results_to_refs, one hit at a time: those that have no row are skipped.
Read(r) ==
    /\ run[r].pc = "read"
    /\ IF run[r].hits = {} THEN Goto(r, "end")
       ELSE \E d \in run[r].hits :
              run' = [run EXCEPT ![r] =
                        [@ EXCEPT !.hits = run[r].hits \ {d},
                                  !.found = IF d \in refs THEN run[r].found \cup {d}
                                            ELSE run[r].found]]
    /\ UNCHANGED <<source, file, refs, vespa, lock>>

\* The run fails or is stopped: the lock is released on the way out (a run that ends
\* without it leaves nothing behind) ...
Fail(r) ==
    /\ lock = r
    /\ Goto(r, "end")
    /\ lock' = Free
    /\ UNCHANGED <<source, file, refs, vespa>>

\* ... or its process dies, and the lock stays until it expires.
Die(r) ==
    /\ lock = r
    /\ Goto(r, "end")
    /\ lock' = Orphan
    /\ UNCHANGED <<source, file, refs, vespa>>

LockExpires ==
    /\ lock = Orphan \/ (Slow /\ lock # Free)
    /\ lock' = Free
    /\ UNCHANGED <<source, file, refs, vespa, run>>

Step(r) == \/ Lookup(r) \/ FetchMeta(r) \/ Lock(r) \/ Check(r) \/ Download(r) \/ Feed(r)
           \/ Save(r) \/ Search(r) \/ Read(r) \/ Fail(r) \/ Die(r)

Next == Change \/ LockExpires \/ \E r \in Runs : Step(r)

Spec == Init /\ [][Next]_vars

-----------------------------------------------------------------------------
TypeOK ==
    /\ source \in Version
    /\ file \in Version \cup {NoFile}
    /\ refs \subseteq Doc /\ vespa \subseteq Doc
    /\ lock \in Runs \cup {Free, Orphan}
    /\ run \in [Runs -> Run]

\* A run that checks for updates gets no snippet that is older than what it checked,
\* although it also searches the outdated file, and slower runs that have fetched older
\* metadata may embed the file after it.
NoStaleHit ==
    \A r \in Runs : run[r].check => \A d \in run[r].found : d.text >= run[r].meta

\* An EmbeddedFile whose metadata is that of the file holds the file as it is, or later
\* runs would take it for up to date.
TrustedIsCurrent == file = source => \A d \in refs : d.file = file /\ d.text = source
=============================================================================
