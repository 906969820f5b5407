--------------------------- MODULE DocumentStore ---------------------------
(***************************************************************************)
(* The document store of packages/document-store: DocumentCoordinator over  *)
(* DatastoreManager, UploadHistoryManager and DocumentCache, as             *)
(* LocalDocumentStore calls them.  Clients call store, get, update and      *)
(* delete; at every await of the file system the calls of others run, a     *)
(* write may fail or the process may end.  The manager keeps three          *)
(* whole-file images on disk (metadata.json, search-index.json,             *)
(* upload-history-index.json) and rewrites one after every change.          *)
(*                                                                         *)
(* A document is its content, which stands for its checksum.  The call that *)
(* creates a document gives it its number, as it does to its upload record. *)
(* Calls that are refused before they change anything (content that does    *)
(* not parse, a user context too large, an unknown id) are left out.        *)
(***************************************************************************)
EXTENDS Integers, FiniteSets, SequencesExt, FiniteSetsExt

CONSTANTS
    Clients,    \* concurrent callers
    Contents,   \* contents that may be uploaded
    Size,       \* the length of each content
    Quota,      \* quotaBytes
    MaxCached,  \* MAX_SIZE of the cache
    MaxCalls,   \* bound: store and update calls
    MaxFaults,  \* bound: ends of the process and failing writes
    Missing,    \* a file that does not exist
    Torn        \* a file that does not parse

\* DocumentMetadata objects.
Metas == [content : Contents \cup {"none"}, prev : Seq(Nat), latest : BOOLEAN]

ASSUME DocumentStoreAssumption ==
    /\ IsFiniteSet(Clients)
    /\ Size \in [Contents -> Nat]
    /\ Quota \in Nat /\ MaxCached \in Nat /\ MaxCalls \in Nat /\ MaxFaults \in Nat
    /\ \A L \in SUBSET (1..MaxCalls) : Missing \notin [L -> Metas] /\ Torn \notin [L -> Metas]

VARIABLES
    phase,      \* "up", "down", or "failed": initialize threw
    faults,     \* faults so far
    calls,      \* store and update calls so far: the numbers given out
    listed,     \* the keys of the metadata map
    obj,        \* the DocumentMetadata objects, those of removed entries too
    index,      \* ids in the search index
    uploads,    \* uploadIndex: pairs of an upload and its document
    cache,      \* ids in the DocumentCache
    files,      \* ids with a documents/<id>.json
    disk,       \* the three image files
    rivals,     \* per file, the images of writes that overlapped
    mixed,      \* two writes of metadata.json have overlapped (history)
    pc,         \* what each client's call awaits
    call,       \* the call's arguments and what it has decided
    snap,       \* per file, the image each call is writing
    acked,      \* uploads whose call was answered (history)
    asked       \* documents whose deletion has begun (history)

memVars == <<listed, obj, index, uploads, cache>>
diskVars == <<files, disk, rivals>>
callVars == <<pc, call, snap, mixed>>
history == <<acked, asked>>
vars == <<phase, faults, calls, memVars, diskVars, callVars, history>>

Ids == 1..MaxCalls
Files == {"metadata", "index", "uploads"}
NoCall == [kind |-> "none", upload |-> 0, id |-> 0, old |-> 0, fresh |-> FALSE]
NoMeta == [content |-> "none", prev |-> <<>>, latest |-> FALSE]

Init ==
    /\ phase = "up" /\ faults = 0 /\ calls = 0
    /\ listed = {} /\ obj = [i \in Ids |-> NoMeta]
    /\ index = {} /\ uploads = {} /\ cache = {} /\ files = {}
    /\ disk = [f \in Files |-> Missing]
    /\ rivals = [f \in Files |-> {}]
    /\ mixed = FALSE
    /\ pc = [c \in Clients |-> "idle"]
    /\ call = [c \in Clients |-> NoCall]
    /\ snap = [f \in Files |-> [c \in Clients |-> Missing]]
    /\ acked = {} /\ asked = {}

-----------------------------------------------------------------------------
(* Whole-file writes.  writeFile truncates, writes and resolves; writes of   *)
(* one file are not kept apart, and when two overlap either image, or a      *)
(* mixture, is what remains.                                                 *)

\* The file a step of a call writes.
FileOf(step) ==
    IF step \in {"metadata", "linking", "unlisting"} THEN "metadata"
    ELSE IF step \in {"index", "unindexing"} THEN "index"
    ELSE IF step = "uploads" THEN "uploads" ELSE "none"

Writers(f) == {c \in Clients : FileOf(pc[c]) = f}

\* Object.fromEntries(this.metadata)
Image(L, O) == [i \in L |-> O[i]]

Await(c, step) ==
    /\ pc' = [pc EXCEPT ![c] = step]
    /\ snap' = [f \in Files |-> [snap[f] EXCEPT ![c] = Missing]]
    /\ UNCHANGED mixed

Save(c, step, image) ==
    /\ pc' = [pc EXCEPT ![c] = step]
    /\ snap' = [f \in Files |->
                   [snap[f] EXCEPT ![c] = IF f = FileOf(step) THEN image ELSE Missing]]
    /\ mixed' = (mixed \/ (FileOf(step) = "metadata" /\ Writers("metadata") \ {c} # {}))

Written(c) ==
    LET f == FileOf(pc[c])
    IN  /\ IF Writers(f) # {c}
           THEN /\ rivals' = [rivals EXCEPT ![f] = @ \cup {snap[f][c]}]
                /\ UNCHANGED disk
           ELSE /\ rivals' = [rivals EXCEPT ![f] = {}]
                /\ \E image \in {snap[f][c]} \cup rivals[f]
                                 \cup (IF rivals[f] = {} THEN {} ELSE {Torn}) :
                       disk' = [disk EXCEPT ![f] = image]
        /\ UNCHANGED files

-----------------------------------------------------------------------------
(* storeDocument and updateDocument                                          *)

\* findByChecksum answers one of the matches.
Same(x) == {i \in listed : obj[i].content = x}

\* getCurrentStorageSize
Used == MapThenSumSet(LAMBDA i : Size[obj[i].content], listed)

\* Up to the first await: quota, duplicate check, the upload record's own file.
Begin(c, kind, old, x) ==
    /\ phase = "up" /\ pc[c] = "idle" /\ calls < MaxCalls
    /\ Used + Size[x] <= Quota
    /\ calls' = calls + 1
    /\ \E i \in (IF Same(x) = {} THEN {calls + 1} ELSE Same(x)) :
           call' = [call EXCEPT ![c] = [kind |-> kind, upload |-> calls + 1, id |-> i,
                                        old |-> old, fresh |-> Same(x) = {}]]
    /\ obj' = IF Same(x) = {} THEN [obj EXCEPT ![calls + 1].content = x] ELSE obj
    /\ Await(c, "recording")
    /\ UNCHANGED <<phase, faults, listed, index, uploads, cache, diskVars, history>>

StoreDocument(c) == \E x \in Contents : Begin(c, "store", 0, x)

UpdateDocument(c) == \E x \in Contents, old \in listed : Begin(c, "update", old, x)

\* Mutant: duplicates are not recorded.
RecordUploadIfNew(c) ==
    /\ pc[c] = "recording"
    /\ uploads' = uploads \cup (IF call[c].fresh THEN {<<call[c].upload, call[c].id>>} ELSE {})
    /\ Save(c, "uploads", uploads')
    /\ UNCHANGED <<phase, faults, calls, listed, obj, index, cache, diskVars, call, history>>

\* recordUpload, after its own file: the index in memory, then on disk.
RecordUpload(c) ==
    /\ pc[c] = "recording"
    /\ uploads' = uploads \cup {<<call[c].upload, call[c].id>>}
    /\ Save(c, "uploads", uploads')
    /\ UNCHANGED <<phase, faults, calls, listed, obj, index, cache, diskVars, call, history>>

\* storeDocument answers: a store goes on to load the document into the cache,
\* an update first makes the document the successor of the old one.  When the
\* map has lost the new document meanwhile, it throws.
Stored(c) ==
    LET new == call[c].id
        old == call[c].old
        O   == [[obj EXCEPT ![new].prev = <<old>> \o obj[old].prev]
                     EXCEPT ![old].latest = FALSE]
    IN  \/ /\ call[c].kind = "store"
           /\ Await(c, "loading")
           /\ UNCHANGED obj
        \/ /\ call[c].kind = "update" /\ new \in listed
           /\ obj' = O
           /\ Save(c, "linking", Image(listed, O))
        \/ /\ call[c].kind = "update" /\ new \notin listed
           /\ Await(c, "idle")
           /\ UNCHANGED obj

\* The upload is recorded: a duplicate is answered, a new document is written.
UploadsSaved(c) ==
    /\ pc[c] = "uploads"
    /\ Written(c)
    /\ \/ call[c].fresh /\ Await(c, "storing") /\ UNCHANGED obj
       \/ ~call[c].fresh /\ Stored(c)
    /\ UNCHANGED <<phase, faults, calls, listed, index, uploads, cache, call, history>>

\* Mutant: an error of saveDocument is swallowed.
DocumentSavedOrNot(c) ==
    /\ pc[c] = "storing"
    /\ listed' = listed \cup {call[c].id}
    /\ Save(c, "metadata", Image(listed', obj))
    /\ UNCHANGED <<phase, faults, calls, obj, index, uploads, cache, diskVars, call, history>>

\* Mutant: the image is taken before the map is changed.
DocumentSavedEarly(c) ==
    /\ pc[c] = "storing"
    /\ files' = files \cup {call[c].id}
    /\ listed' = listed \cup {call[c].id}
    /\ Save(c, "metadata", Image(listed, obj))
    /\ UNCHANGED <<phase, faults, calls, obj, index, uploads, cache, disk, rivals, call, history>>

\* saveDocument has resolved: the metadata map, then metadata.json.
DocumentSaved(c) ==
    LET i == call[c].id
        O == [obj EXCEPT ![i].latest = TRUE]
    IN  /\ pc[c] = "storing"
        /\ files' = files \cup {i}
        /\ listed' = listed \cup {i}
        /\ obj' = O
        /\ Save(c, "metadata", Image(listed \cup {i}, O))
        /\ UNCHANGED <<phase, faults, calls, index, uploads, cache, disk, rivals, call, history>>

\* updateSearchIndex and saveSearchIndex.
MetadataSaved(c) ==
    /\ pc[c] = "metadata"
    /\ Written(c)
    /\ index' = index \cup {call[c].id}
    /\ Save(c, "index", index')
    /\ UNCHANGED <<phase, faults, calls, listed, obj, uploads, cache, call, history>>

IndexSaved(c) ==
    /\ pc[c] = "index"
    /\ Written(c)
    /\ Stored(c)
    /\ UNCHANGED <<phase, faults, calls, listed, index, uploads, cache, call, history>>

\* updateDocument has returned: the coordinator drops the old document from the
\* cache and loads the new one.
Linked(c) ==
    /\ pc[c] = "linking"
    /\ Written(c)
    /\ cache' = cache \ {call[c].old}
    /\ Await(c, "loading")
    /\ UNCHANGED <<phase, faults, calls, listed, obj, index, uploads, call, history>>

-----------------------------------------------------------------------------
(* getDocument and the cache                                                 *)

\* A miss starts a read of the file; a hit changes nothing but its age.
GetDocument(c) ==
    /\ phase = "up" /\ pc[c] = "idle"
    /\ \E i \in listed \ cache :
           call' = [call EXCEPT ![c] = [NoCall EXCEPT !.kind = "get", !.id = i]]
    /\ Await(c, "loading")
    /\ UNCHANGED <<phase, faults, calls, memVars, diskVars, history>>

\* set: when full, evictLRU removes the entry used longest ago, unless all were
\* used within the millisecond.
Cached(i) ==
    IF i \in cache \/ Cardinality(cache) < MaxCached
    THEN cache' = cache \cup {i}
    ELSE \E gone \in SUBSET cache : Cardinality(gone) <= 1 /\ cache' = (cache \ gone) \cup {i}

\* The file was read: whoever loads it puts it into the cache, whatever became
\* of the document meanwhile.  (A call that is answered acknowledges its upload.)
Loaded(c) ==
    LET i == call[c].id
    IN  /\ pc[c] = "loading"
        /\ IF i \in files THEN Cached(i) ELSE UNCHANGED cache
        /\ acked' = IF call[c].kind = "get" THEN acked ELSE acked \cup {<<call[c].upload, i>>}
        /\ Await(c, "idle")
        /\ call' = [call EXCEPT ![c] = NoCall]
        /\ UNCHANGED <<phase, faults, calls, listed, obj, index, uploads, diskVars, asked>>

\* An entry outlives its hour: get, or the cleanup timer, removes it.
Expire ==
    /\ phase = "up"
    /\ \E i \in cache : cache' = cache \ {i}
    /\ UNCHANGED <<phase, faults, calls, listed, obj, index, uploads, diskVars, callVars, history>>

-----------------------------------------------------------------------------
(* deleteDocument                                                            *)

DeleteDocument(c) ==
    /\ phase = "up" /\ pc[c] = "idle"
    /\ \E i \in listed :
           /\ call' = [call EXCEPT ![c] = [NoCall EXCEPT !.kind = "delete", !.id = i]]
           /\ asked' = asked \cup {i}
    /\ Await(c, "unlinking")
    /\ UNCHANGED <<phase, faults, calls, memVars, diskVars, acked>>

\* A failing unlink is only logged.
Unlinked(c) ==
    LET i == call[c].id
    IN  /\ pc[c] = "unlinking"
        /\ \/ files' = files \ {i} /\ UNCHANGED faults
           \/ faults < MaxFaults /\ faults' = faults + 1 /\ UNCHANGED files
        /\ listed' = listed \ {i}
        /\ Save(c, "unlisting", Image(listed \ {i}, obj))
        /\ UNCHANGED <<phase, calls, obj, index, uploads, cache, disk, rivals, call, history>>

Unlisted(c) ==
    /\ pc[c] = "unlisting"
    /\ Written(c)
    /\ index' = index \ {call[c].id}
    /\ Save(c, "unindexing", index')
    /\ UNCHANGED <<phase, faults, calls, listed, obj, uploads, cache, call, history>>

\* deleteDocument has returned: the coordinator invalidates the cache.
Unindexed(c) ==
    /\ pc[c] = "unindexing"
    /\ Written(c)
    /\ cache' = cache \ {call[c].id}
    /\ Await(c, "idle")
    /\ call' = [call EXCEPT ![c] = NoCall]
    /\ UNCHANGED <<phase, faults, calls, listed, obj, index, uploads, history>>

-----------------------------------------------------------------------------
(* Faults                                                                    *)

\* A write rejects: the call throws and leaves everything as it is, the file
\* perhaps truncated.
WriteFails(c) ==
    LET f == FileOf(pc[c])
    IN  /\ pc[c] \in {"recording", "storing"} \/ f # "none"
        /\ faults < MaxFaults /\ faults' = faults + 1
        /\ IF f = "none" THEN UNCHANGED <<disk, rivals>>
           ELSE IF Writers(f) = {c}
           THEN /\ disk' = [disk EXCEPT ![f] = Torn]
                /\ rivals' = [rivals EXCEPT ![f] = {}]
           ELSE rivals' = [rivals EXCEPT ![f] = @ \cup {Torn}] /\ UNCHANGED disk
        /\ Await(c, "idle")
        /\ call' = [call EXCEPT ![c] = NoCall]
        /\ UNCHANGED <<phase, calls, memVars, files, history>>

\* What the end of the process leaves of a file.
Remains(f) ==
    IF Writers(f) = {} THEN {disk[f]}
    ELSE {disk[f], Torn} \cup rivals[f] \cup {snap[f][c] : c \in Writers(f)}

\* The process ends; memory and calls are gone, files may be torn.
Crash ==
    /\ phase = "up" /\ faults < MaxFaults
    /\ phase' = "down" /\ faults' = faults + 1
    /\ \E m \in Remains("metadata"), x \in Remains("index"), u \in Remains("uploads") :
           disk' = [f \in Files |-> IF f = "metadata" THEN m ELSE IF f = "index" THEN x ELSE u]
    /\ files' \in {files \cup W : W \in SUBSET {call[c].id : c \in {d \in Clients : pc[d] = "storing"}}}
    /\ rivals' = [f \in Files |-> {}]
    /\ listed' = {} /\ index' = {} /\ uploads' = {} /\ cache' = {}
    /\ pc' = [c \in Clients |-> "idle"]
    /\ call' = [c \in Clients |-> NoCall]
    /\ snap' = [f \in Files |-> [c \in Clients |-> Missing]]
    /\ UNCHANGED <<calls, obj, mixed, history>>

\* loadMetadata: a missing file is an empty map.
LoadMetadata ==
    /\ listed' = IF disk["metadata"] = Missing THEN {} ELSE DOMAIN disk["metadata"]
    /\ obj' = [i \in Ids |-> IF i \in listed' THEN disk["metadata"][i] ELSE NoMeta]

\* loadSearchIndex: a missing file is rebuilt from the metadata.
LoadSearchIndex == index' = IF disk["index"] = Missing THEN listed' ELSE disk["index"]

\* UploadHistoryManager.initialize: the history starts anew if it is unreadable.
LoadUploads == uploads' = IF disk["uploads"] \in {Missing, Torn} THEN {} ELSE disk["uploads"]

\* initialize throws on a metadata map or search index that does not parse.
Restart ==
    /\ phase = "down"
    /\ IF Torn \in {disk["metadata"], disk["index"]}
       THEN /\ phase' = "failed"
            /\ UNCHANGED <<listed, obj, index, uploads>>
       ELSE phase' = "up" /\ LoadMetadata /\ LoadSearchIndex /\ LoadUploads
    /\ UNCHANGED <<faults, calls, cache, diskVars, callVars, history>>

-----------------------------------------------------------------------------
(* Queries; they see only the metadata map.  A filter on tags, organization  *)
(* or name is the set of contents that pass it.                              *)

\* searchDocuments: all that pass.
SearchDocuments(P) == {i \in listed : obj[i].content \in P}

\* The documents in the order of the listing: by name or by a time, ties as in the
\* map.  Which one it is matters to nothing here, it is the same for every page.
Order == SetToSeq(listed)

\* Mutant: the limit is taken for the end.
PageTo(offset, limit) ==
    SubSeq(Order, offset + 1, IF limit < Len(Order) THEN limit ELSE Len(Order))

\* DatastoreManager.listDocuments: slice(offset, offset + limit).
Page(offset, limit) ==
    SubSeq(Order, offset + 1, IF offset + limit < Len(Order) THEN offset + limit ELSE Len(Order))

\* The places of a page whose documents pass the filter.
Passing(page, P) == {k \in DOMAIN page : obj[page[k]].content \in P}

\* LocalDocumentStore.listDocuments: the filter comes after the page, and keeps its
\* order: the nth document left has n - 1 that pass before it.
ListDocuments(P, offset, limit) ==
    LET page == Page(offset, limit)
        kept == Passing(page, P)
    IN  [n \in 1..Cardinality(kept) |->
            page[CHOOSE k \in kept : Cardinality({m \in kept : m < k}) = n - 1]]

-----------------------------------------------------------------------------

Call(c) == StoreDocument(c) \/ UpdateDocument(c) \/ GetDocument(c) \/ DeleteDocument(c)

Continue(c) ==
    \/ RecordUpload(c) \/ UploadsSaved(c) \/ DocumentSaved(c) \/ MetadataSaved(c)
    \/ IndexSaved(c) \/ Linked(c) \/ Loaded(c)
    \/ Unlinked(c) \/ Unlisted(c) \/ Unindexed(c)

Next ==
    \/ \E c \in Clients : Call(c) \/ Continue(c) \/ WriteFails(c)
    \/ Expire \/ Crash \/ Restart

Spec == Init /\ [][Next]_vars

-----------------------------------------------------------------------------
(* Properties                                                                *)

\* Each variable holds values of its type.
TypeOK ==
    /\ phase \in {"up", "down", "failed"}
    /\ faults \in 0..MaxFaults /\ calls \in 0..MaxCalls
    /\ listed \subseteq 1..calls /\ index \subseteq 1..calls
    /\ cache \subseteq 1..calls /\ files \subseteq 1..calls
    /\ uploads \subseteq (1..calls) \X (1..calls)
    /\ acked \subseteq (1..calls) \X (1..calls) /\ asked \subseteq 1..calls
    /\ mixed \in BOOLEAN
    /\ DOMAIN disk = Files /\ DOMAIN rivals = Files

\* A document that is listed can be read, unless its deletion has begun: the
\* file comes before the entry (252-256), and a restart finds no entry that
\* is ahead of its file.
DocumentsHaveFiles == listed \subseteq files \cup asked

\* The map of documents, the files and the records agree with each other.
StoreIsConsistent == TypeOK /\ DocumentsHaveFiles

\* Documents whose creation was answered.  An upload answered as a duplicate
\* (210) may be of a document that another call is still saving.
Created == {i \in Ids : <<i, i>> \in acked}

\* What was answered as created is still listed, after any restart too, unless
\* its deletion has begun -- as long as no two writes of metadata.json have
\* overlapped, which may leave an older image there (541) -- and while nothing has
\* failed it is in the search index.
CreatedAreKept ==
    /\ phase = "up" /\ ~mixed => Created \subseteq listed \cup asked
    /\ faults = 0 => Created \subseteq index \cup asked

\* Every document has an upload record before it is listed, and every call
\* answered has its own, until a fault strikes the history (38-64).
UploadsRecorded ==
    faults = 0 => /\ acked \subseteq uploads
                  /\ \A i \in listed : \E u \in Ids : <<u, i>> \in uploads

\* What a client holds that has read the pages of a listing is what a search finds.
PagesAgree(P, limit) ==
    LET pages  == [k \in 1..Cardinality(listed) |-> ListDocuments(P, (k - 1) * limit, limit)]
        places == UNION {{k} \X DOMAIN pages[k] : k \in DOMAIN pages}
    IN  /\ {pages[p[1]][p[2]] : p \in places} = SearchDocuments(P)
        /\ \A p, q \in places : pages[p[1]][p[2]] = pages[q[1]][q[2]] => p = q

\* The pages of a listing, each filtered after it was cut, together hold what the
\* search with the same filter finds, nothing twice, whatever was stored, deleted or
\* lost before (396-424, 359-394): a page may be empty without being the last.
PagesMatchSearch == \A P \in SUBSET Contents, limit \in 1..MaxCalls : PagesAgree(P, limit)
=============================================================================
