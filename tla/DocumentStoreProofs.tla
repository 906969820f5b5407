------------------------ MODULE DocumentStoreProofs ------------------------
(***************************************************************************)
(* Theorems about DocumentStore, for any number of clients, contents, calls *)
(* and faults, and any interleaving of the writes of its files.             *)
(***************************************************************************)
EXTENDS DocumentStore, FiniteSetTheorems, SequenceTheorems, TLAPS

Saving == {"recording", "uploads", "storing", "metadata", "index", "linking"}
Removing == {"unlinking", "unlisting", "unindexing"}
Steps == Saving \cup Removing \cup {"idle", "loading"}
Kinds == {"none", "store", "update", "get", "delete"}
Calls(n) == [kind : Kinds, upload : 0..n, id : 0..n, old : 0..n, fresh : BOOLEAN]
Records(n) == (1..n) \X (1..n)

\* A client whose call brings an upload.
Uploading(c) == pc[c] # "idle" /\ call[c].kind \in {"store", "update"}

\* What a file may hold is of the type of the map it is an image of, and metadata.json
\* has no entry ahead of its file; n calls were made, F have files or are being deleted.
ImageOK(f, image, n, F) ==
    image # Missing /\ image # Torn =>
        /\ f = "metadata" => /\ DOMAIN image \subseteq (1..n) \cap F
                             /\ image \in [DOMAIN image -> Metas]
        /\ f = "index" => image \subseteq 1..n
        /\ f = "uploads" => image \subseteq Records(n)

\* All that may be found in a file, or is about to be written to it.
Around(f) == {disk[f]} \cup rivals[f] \cup {snap[f][c] : c \in Clients}

ImagesOK == \A f \in Files : \A image \in Around(f) : ImageOK(f, image, calls, files \cup asked)

\* The types of the state, the images among it.
TypeInv ==
    /\ TypeOK
    /\ obj \in [Ids -> Metas]
    /\ pc \in [Clients -> Steps] /\ call \in [Clients -> Calls(calls)]
    /\ disk = [f \in Files |-> disk[f]] /\ rivals = [f \in Files |-> rivals[f]]
    /\ snap = [f \in Files |-> [c \in Clients |-> snap[f][c]]]

\* A call is made while the process runs; which one decides on its steps.  The upload
\* number of a call is its own, and is the document's exactly when the call creates it.
CallOK(c) ==
    /\ pc[c] # "idle" => phase = "up" /\ call[c].id # 0
    /\ pc[c] \in Saving => call[c].kind \in {"store", "update"}
    /\ pc[c] = "loading" => call[c].kind \in {"store", "update", "get"}
    /\ pc[c] \in Removing => call[c].id \in asked
    /\ pc[c] # "idle" /\ call[c].kind = "update" => call[c].old # 0
    /\ pc[c] \in {"storing", "metadata", "index"} => call[c].fresh
    /\ Uploading(c) =>
        /\ call[c].upload # 0
        /\ call[c].fresh <=> call[c].id = call[c].upload
        /\ \A i \in Ids : <<call[c].upload, i>> \notin acked
        /\ \A d \in Clients \ {c} : Uploading(d) => call[d].upload # call[c].upload

\* Memory is gone with the process, which takes a fault.
DownOK ==
    /\ phase # "up" => listed = {} /\ index = {} /\ uploads = {}
    /\ faults = 0 => phase = "up"

BaseInv == TypeInv /\ ImagesOK /\ DocumentsHaveFiles /\ DownOK /\ \A c \in Clients : CallOK(c)

\* The record of an upload precedes its answer.
RecordOK(c) ==
    Uploading(c) /\ pc[c] # "recording" => <<call[c].upload, call[c].id>> \in uploads

\* The entry of a new document in the search index precedes its answer.
IndexOK(c) ==
    Uploading(c) /\ call[c].fresh /\ pc[c] \in {"index", "linking", "loading"} =>
        call[c].id \in index \cup asked

\* Without faults memory is all there is.
FaultlessOK ==
    faults = 0 => /\ \A c \in Clients : RecordOK(c) /\ IndexOK(c)
                  /\ UploadsRecorded
                  /\ Created \subseteq index \cup asked

\* An image from which a restart learns of document i, or none at all.
Holds(image, i) == image = Torn \/ (image # Missing /\ i \in DOMAIN image)

\* Document i is there to stay: it is in the map, in metadata.json and in what is
\* being written there.
Lasting(i) ==
    /\ phase = "up" => i \in listed
    /\ Holds(disk["metadata"], i)
    /\ \A c \in Writers("metadata") : Holds(snap["metadata"][c], i)

\* The new document of a call is listed, and about to be written.
Coming(c) ==
    Uploading(c) /\ call[c].fresh /\ pc[c] = "metadata" =>
        \/ call[c].id \in asked
        \/ call[c].id \in listed /\ Holds(snap["metadata"][c], call[c].id)

\* The new document of a call is written.
Come(c) ==
    Uploading(c) /\ call[c].fresh /\ pc[c] \in {"index", "linking", "loading"} =>
        call[c].id \in asked \/ Lasting(call[c].id)

\* As long as writes of metadata.json have not overlapped there is one at most, and a
\* document lasts from the end of the write that brings it.
OrderlyOK ==
    ~mixed => /\ rivals["metadata"] = {}
              /\ \A c, d \in Writers("metadata") : c = d
              /\ \A i \in Created : i \in asked \/ Lasting(i)
              /\ \A c \in Clients : Coming(c) /\ Come(c)

IInv == BaseInv /\ FaultlessOK /\ OrderlyOK

USE DEF Saving, Removing, Steps, Kinds, Files, Ids

-----------------------------------------------------------------------------
(* What the steps do to the images                                           *)

\* What was found in a file stays right when more calls are made and more files are
\* there.
LEMMA ImageStays ==
  ASSUME NEW f, NEW image, NEW n \in Nat, NEW m \in Nat, n <= m, NEW F, NEW G, F \subseteq G,
         ImageOK(f, image, n, F)
  PROVE  ImageOK(f, image, m, G)
BY DEF ImageOK, Records

\* A call goes on to a step, and may begin to write an image.
Moves(c, step, image) ==
    /\ pc' = [pc EXCEPT ![c] = step]
    /\ snap' = [f \in Files |-> [snap[f] EXCEPT ![c] = image[f]]]

\* What a call is about to write when it goes on to a step.
Writing(step, image) == [f \in Files |-> IF f = FileOf(step) THEN image ELSE Missing]

LEMMA AwaitMoves ==
  ASSUME NEW c, NEW step, Await(c, step) PROVE Moves(c, step, [f \in Files |-> Missing]) /\ mixed' = mixed
BY DEF Await, Moves

LEMMA SaveMoves ==
  ASSUME NEW c, NEW step, NEW image, Save(c, step, image)
  PROVE  Moves(c, step, Writing(step, image))
BY DEF Save, Moves, Writing

\* The others are where they were.
LEMMA MovedOne ==
  ASSUME TypeInv, NEW c \in Clients, NEW step \in Steps, NEW image, Moves(c, step, image)
  PROVE  /\ pc' \in [Clients -> Steps] /\ pc'[c] = step
         /\ \A d \in Clients \ {c} : pc'[d] = pc[d]
         /\ snap' = [f \in Files |-> [d \in Clients |-> snap'[f][d]]]
         /\ \A f \in Files : /\ snap'[f][c] = image[f]
                             /\ \A d \in Clients \ {c} : snap'[f][d] = snap[f][d]
<1>1. pc' \in [Clients -> Steps] /\ pc'[c] = step /\ \A d \in Clients \ {c} : pc'[d] = pc[d]
  BY DEF Moves, TypeInv
<1>2. ASSUME NEW f \in Files
      PROVE  /\ snap'[f] = [snap[f] EXCEPT ![c] = image[f]]
             /\ snap[f] = [d \in Clients |-> snap[f][d]]
  BY DEF Moves, TypeInv
<1>3. ASSUME NEW f \in Files
      PROVE  /\ snap'[f] = [d \in Clients |-> snap'[f][d]]
             /\ snap'[f][c] = image[f]
             /\ \A d \in Clients \ {c} : snap'[f][d] = snap[f][d]
  BY <1>2
<1>4. snap' = [f \in Files |-> snap'[f]]
  BY DEF Moves
<1>5. QED BY <1>1, <1>3, <1>4

\* A write that ends leaves what was around.
LEMMA WriteEnds ==
  ASSUME TypeInv, NEW c \in Clients, FileOf(pc[c]) \in Files, Written(c)
  PROVE  /\ disk' = [f \in Files |-> disk'[f]] /\ rivals' = [f \in Files |-> rivals'[f]]
         /\ \A f \in Files : /\ disk'[f] \in Around(f) \cup {Torn}
                             /\ rivals'[f] \subseteq Around(f)
         /\ files' = files
<1> DEFINE g == FileOf(pc[c])
<1>1. snap[g][c] \in Around(g) /\ rivals[g] \subseteq Around(g)
  BY DEF Around
<1>2. \A f \in Files : disk[f] \in Around(f) /\ rivals[f] \subseteq Around(f)
  BY DEF Around
<1>3. disk = [f \in Files |-> disk[f]] /\ rivals = [f \in Files |-> rivals[f]]
  BY DEF TypeInv
<1>4. CASE Writers(g) # {c}
  <2>1. rivals' = [rivals EXCEPT ![g] = @ \cup {snap[g][c]}] /\ disk' = disk /\ files' = files
    BY <1>4 DEF Written
  <2> HIDE DEF g
  <2>2. QED BY <1>1, <1>2, <1>3, <2>1 DEF g
<1>5. CASE Writers(g) = {c}
  <2>1. /\ rivals' = [rivals EXCEPT ![g] = {}] /\ files' = files
        /\ \E image \in {snap[g][c]} \cup rivals[g] \cup (IF rivals[g] = {} THEN {} ELSE {Torn}) :
               disk' = [disk EXCEPT ![g] = image]
    BY <1>5 DEF Written
  <2>2. PICK image \in Around(g) \cup {Torn} : disk' = [disk EXCEPT ![g] = image]
    BY <2>1, <1>1
  <2> HIDE DEF g
  <2>3. QED BY <1>2, <1>3, <2>1, <2>2 DEF g
<1>6. QED BY <1>4, <1>5

\* What is found in the files was around, or does not parse.
Shelved ==
    /\ disk' = [f \in Files |-> disk'[f]] /\ rivals' = [f \in Files |-> rivals'[f]]
    /\ \A f \in Files : disk'[f] \in Around(f) \cup {Torn} /\ rivals'[f] \subseteq Around(f) \cup {Torn}

\* The images stay right when no more is around than before and what is right.
LEMMA ImagesStay ==
  ASSUME TypeOK, ImagesOK, calls' \in Nat, calls <= calls', files \cup asked \subseteq (files \cup asked)',
         \A f \in Files : \A image \in Around(f)' :
             image \in Around(f) \cup {Missing, Torn} \/ ImageOK(f, image, calls', (files \cup asked)')
  PROVE  ImagesOK'
<1>1. calls \in Nat
  BY DocumentStoreAssumption DEF TypeOK
<1>2. SUFFICES ASSUME NEW f \in Files, NEW image \in Around(f)'
               PROVE  ImageOK(f, image, calls', (files \cup asked)')
  BY DEF ImagesOK
<1>3. CASE image \in {Missing, Torn}
  BY <1>3 DEF ImageOK
<1>4. CASE image \in Around(f)
  <2>1. ImageOK(f, image, calls, files \cup asked)
    BY <1>4 DEF ImagesOK
  <2>2. QED BY <1>1, <2>1, ImageStays
<1>5. QED BY <1>2, <1>3, <1>4

\* The images after a step of a call: the files are as they were or a write ended.
LEMMA CallImages ==
  ASSUME TypeInv, ImagesOK, NEW c \in Clients, NEW step \in Steps, NEW image,
         Moves(c, step, image),
         UNCHANGED <<disk, rivals>> \/ (FileOf(pc[c]) \in Files /\ Written(c)) \/ Shelved,
         calls' \in Nat, calls <= calls', files \cup asked \subseteq (files \cup asked)',
         \A f \in Files : image[f] = Missing \/ ImageOK(f, image[f], calls', (files \cup asked)')
  PROVE  /\ ImagesOK'
         /\ disk' = [f \in Files |-> disk'[f]] /\ rivals' = [f \in Files |-> rivals'[f]]
         /\ DOMAIN disk' = Files /\ DOMAIN rivals' = Files
<1>1. /\ disk' = [f \in Files |-> disk'[f]] /\ rivals' = [f \in Files |-> rivals'[f]]
      /\ \A f \in Files : disk'[f] \in Around(f) \cup {Torn} /\ rivals'[f] \subseteq Around(f) \cup {Torn}
  <2>1. CASE UNCHANGED <<disk, rivals>>
    BY <2>1 DEF TypeInv, Around
  <2>2. CASE FileOf(pc[c]) \in Files /\ Written(c)
    BY <2>2, WriteEnds
  <2>3. QED BY <2>1, <2>2 DEF Shelved
<1>2. \A f \in Files : /\ snap'[f][c] = image[f]
                       /\ \A d \in Clients \ {c} : snap'[f][d] = snap[f][d]
  BY MovedOne
<1>3. ASSUME NEW f \in Files, NEW x \in Around(f)'
      PROVE  x \in Around(f) \cup {Missing, Torn} \/ ImageOK(f, x, calls', (files \cup asked)')
  <2>1. CASE x = disk'[f]
    BY <1>1, <2>1
  <2>2. CASE x \in rivals'[f]
    BY <1>1, <2>2
  <2>3. ASSUME NEW d \in Clients, x = snap'[f][d]
        PROVE  x \in Around(f) \cup {Missing, Torn} \/ ImageOK(f, x, calls', (files \cup asked)')
    <3>1. CASE d = c
      BY <1>2, <2>3, <3>1
    <3>2. CASE d # c
      BY <1>2, <2>3, <3>2 DEF Around
    <3>3. QED BY <3>1, <3>2
  <2>4. QED BY <2>1, <2>2, <2>3 DEF Around
<1>4. ImagesOK'
  BY <1>3, ImagesStay DEF TypeInv
<1>5. DOMAIN disk' = Files /\ DOMAIN rivals' = Files
  BY <1>1
<1>6. QED BY <1>1, <1>4, <1>5

-----------------------------------------------------------------------------
(* The types, the files and the calls                                        *)

\* The memory, the files and the histories have their types, and what is listed has
\* a file.
Tidy ==
    /\ faults \in 0..MaxFaults /\ calls \in 0..MaxCalls
    /\ listed \subseteq (1..calls) \cap (files \cup asked) /\ index \subseteq 1..calls
    /\ cache \subseteq 1..calls /\ files \subseteq 1..calls
    /\ uploads \subseteq Records(calls)
    /\ acked \subseteq Records(calls) /\ asked \subseteq 1..calls
    /\ mixed \in BOOLEAN
    /\ obj \in [Ids -> Metas] /\ call \in [Clients -> Calls(calls)]

\* What the numbers of calls are.
LEMMA NumberTypes ==
  ASSUME calls \in 0..MaxCalls
  PROVE  calls \in Nat /\ MaxCalls \in Nat /\ calls + 1 \in Nat
         /\ (calls < MaxCalls => calls + 1 \in 1..MaxCalls)
BY DocumentStoreAssumption

LEMMA TidyIs == ASSUME BaseInv PROVE Tidy
BY DEF BaseInv, TypeInv, TypeOK, DocumentsHaveFiles, Tidy, Records

\* A call whose client does nothing is as it was.
LEMMA OthersOK ==
  ASSUME BaseInv, NEW c \in Clients, NEW d \in Clients \ {c}, phase' = phase,
         \A e \in Clients \ {c} : pc'[e] = pc[e] /\ call'[e] = call[e],
         asked \subseteq asked',
         \/ acked' = acked
         \/ Uploading(c) /\ \E i \in Ids : acked' = acked \cup {<<call[c].upload, i>>},
         Uploading(c)' => \/ Uploading(c) /\ call'[c].upload = call[c].upload
                          \/ call'[c].upload = calls + 1
  PROVE  CallOK(d)'
<1>1. pc'[d] = pc[d] /\ call'[d] = call[d] /\ CallOK(d)
  BY DEF BaseInv
<1>2. /\ pc'[d] # "idle" => phase' = "up" /\ call'[d].id # 0
      /\ pc'[d] \in Saving => call'[d].kind \in {"store", "update"}
      /\ pc'[d] = "loading" => call'[d].kind \in {"store", "update", "get"}
      /\ pc'[d] \in Removing => call'[d].id \in asked'
      /\ pc'[d] # "idle" /\ call'[d].kind = "update" => call'[d].old # 0
      /\ pc'[d] \in {"storing", "metadata", "index"} => call'[d].fresh
  BY <1>1 DEF CallOK
<1>3. ASSUME Uploading(d)'
      PROVE  /\ call'[d].upload # 0
             /\ call'[d].fresh <=> call'[d].id = call'[d].upload
             /\ \A i \in Ids : <<call'[d].upload, i>> \notin acked'
             /\ \A e \in Clients \ {d} : Uploading(e)' => call'[e].upload # call'[d].upload
  <2>1. Uploading(d)
    BY <1>1, <1>3 DEF Uploading
  <2>2. /\ call[d].upload # 0
        /\ call[d].fresh <=> call[d].id = call[d].upload
        /\ \A i \in Ids : <<call[d].upload, i>> \notin acked
        /\ \A e \in Clients \ {d} : Uploading(e) => call[e].upload # call[d].upload
    BY <1>1, <2>1 DEF CallOK
  <2>3. call[d].upload \in 0..calls /\ calls \in Nat
    BY NumberTypes DEF BaseInv, TypeInv, TypeOK, Calls
  <2>4. \A i \in Ids : <<call[d].upload, i>> \notin acked'
    BY <2>2
  <2>5. ASSUME NEW e \in Clients \ {d}, Uploading(e)' PROVE call'[e].upload # call[d].upload
    <3>1. CASE e = c
      BY <2>2, <2>3, <2>5, <3>1
    <3>2. CASE e # c
      BY <2>2, <2>5, <3>2 DEF Uploading
    <3>3. QED BY <3>1, <3>2
  <2>6. QED BY <1>1, <2>2, <2>4, <2>5
<1>4. QED BY <1>2, <1>3 DEF CallOK

\* The step of a call keeps all this when it keeps its own part.
LEMMA CallStep ==
  ASSUME BaseInv, NEW c \in Clients, NEW step \in Steps, NEW image,
         Moves(c, step, image),
         UNCHANGED <<disk, rivals>> \/ (FileOf(pc[c]) \in Files /\ Written(c)) \/ Shelved,
         \A f \in Files : image[f] = Missing \/ ImageOK(f, image[f], calls', (files \cup asked)'),
         phase = "up", phase' = "up", calls <= calls', faults <= faults', Tidy',
         files \cup asked \subseteq (files \cup asked)', asked \subseteq asked',
         \A d \in Clients \ {c} : call'[d] = call[d],
         \/ acked' = acked
         \/ Uploading(c) /\ \E i \in Ids : acked' = acked \cup {<<call[c].upload, i>>},
         Uploading(c)' => \/ Uploading(c) /\ call'[c].upload = call[c].upload
                          \/ call'[c].upload = calls + 1,
         CallOK(c)'
  PROVE  BaseInv'
<1>1. calls' \in Nat /\ faults' \in Nat /\ faults \in Nat
  BY DocumentStoreAssumption DEF Tidy, BaseInv, TypeInv, TypeOK
<1>2. TypeInv /\ ImagesOK
  BY DEF BaseInv
<1>3. /\ ImagesOK'
      /\ disk' = [f \in Files |-> disk'[f]] /\ rivals' = [f \in Files |-> rivals'[f]]
      /\ DOMAIN disk' = Files /\ DOMAIN rivals' = Files
  BY <1>1, <1>2, CallImages
<1>4. /\ pc' \in [Clients -> Steps]
      /\ \A d \in Clients \ {c} : pc'[d] = pc[d]
      /\ snap' = [f \in Files |-> [d \in Clients |-> snap'[f][d]]]
  BY <1>2, MovedOne
<1>5. TypeInv'
  BY <1>3, <1>4 DEF Tidy, TypeInv, TypeOK, Records
<1>6. DocumentsHaveFiles' /\ DownOK'
  BY DEF Tidy, DocumentsHaveFiles, DownOK
<1>7. \A d \in Clients \ {c} : CallOK(d)'
  BY <1>4, OthersOK
<1>8. QED BY <1>3, <1>5, <1>6, <1>7 DEF BaseInv

\* An entry in the types of more calls.
LEMMA MoreCalls ==
  ASSUME NEW n \in Nat
  PROVE  /\ Calls(n) \subseteq Calls(n + 1) /\ Records(n) \subseteq Records(n + 1)
         /\ 1..n \subseteq 1..(n + 1)
<1>1. 1..n \subseteq 1..(n + 1) /\ 0..n \subseteq 0..(n + 1)
  OBVIOUS
<1>2. QED BY <1>1 DEF Calls, Records

\* storeDocument and updateDocument up to the first await.
LEMMA BeginBase ==
  ASSUME BaseInv, NEW c \in Clients, NEW kind \in {"store", "update"}, NEW old \in {0} \cup listed,
         kind = "update" => old # 0, NEW x \in Contents, Begin(c, kind, old, x)
  PROVE  BaseInv'
<1>1. /\ phase = "up" /\ pc[c] = "idle" /\ calls < MaxCalls /\ calls' = calls + 1
      /\ Moves(c, "recording", [f \in Files |-> Missing]) /\ mixed' = mixed
      /\ UNCHANGED <<phase, faults, listed, index, uploads, cache, files, disk, rivals, acked, asked>>
  BY AwaitMoves DEF Begin, diskVars, history
<1>2. PICK i \in (IF Same(x) = {} THEN {calls + 1} ELSE Same(x)) :
          call' = [call EXCEPT ![c] = [kind |-> kind, upload |-> calls + 1, id |-> i,
                                       old |-> old, fresh |-> Same(x) = {}]]
  BY DEF Begin
<1>3. Tidy /\ TypeInv
  BY TidyIs DEF BaseInv
<1>4. /\ calls \in Nat /\ calls + 1 \in Nat /\ calls + 1 \in 1..MaxCalls
      /\ Calls(calls) \subseteq Calls(calls + 1) /\ Records(calls) \subseteq Records(calls + 1)
      /\ 1..calls \subseteq 1..(calls + 1)
  BY <1>1, <1>3, NumberTypes, MoreCalls DEF Tidy
<1>5. /\ i \in 1..(calls + 1) /\ i # 0
      /\ Same(x) = {} <=> i = calls + 1
  <2>1. Same(x) \subseteq 1..calls
    BY <1>3 DEF Same, Tidy
  <2> HIDE DEF Ids
  <2>2. CASE Same(x) = {}
    <3>1. i = calls + 1
      BY <1>2, <2>2
    <3>2. QED BY <1>4, <2>2, <3>1
  <2>3. CASE Same(x) # {}
    <3>1. i \in 1..calls
      BY <1>2, <2>1, <2>3
    <3>2. i # calls + 1 /\ i \in 1..(calls + 1) /\ i # 0
      BY <1>4, <3>1
    <3>3. QED BY <2>3, <3>2
  <2>4. QED BY <2>2, <2>3
<1>6. /\ call' \in [Clients -> Calls(calls')]
      /\ \A d \in Clients \ {c} : call'[d] = call[d]
      /\ call'[c] = [kind |-> kind, upload |-> calls + 1, id |-> i, old |-> old, fresh |-> Same(x) = {}]
  <2>1. old \in 0..(calls + 1)
    BY <1>3, <1>4 DEF Tidy
  <2>2. i \in 0..(calls + 1) /\ calls + 1 \in 0..(calls + 1) /\ calls' = calls + 1
    BY <1>1, <1>4, <1>5
  <2>3. [kind |-> kind, upload |-> calls + 1, id |-> i, old |-> old, fresh |-> Same(x) = {}]
            \in Calls(calls')
    BY <2>1, <2>2 DEF Calls
  <2>4. call \in [Clients -> Calls(calls')]
    BY <1>1, <1>3, <1>4 DEF Tidy
  <2>5. QED BY <1>2, <2>3, <2>4
<1>7. obj' \in [Ids -> Metas]
  <2>1. obj' = obj \/ obj' = [obj EXCEPT ![calls + 1].content = x]
    BY DEF Begin
  <2>2. obj \in [Ids -> Metas] /\ calls + 1 \in Ids
    BY <1>3, <1>4 DEF Tidy
  <2>3. QED BY <2>1, <2>2 DEF Metas
<1>8. Tidy'
  BY <1>1, <1>3, <1>4, <1>6, <1>7 DEF Tidy
<1>9. pc'[c] = "recording"
  BY <1>1, <1>3, MovedOne
<1>10. \A j \in Ids : <<calls + 1, j>> \notin acked
  BY <1>3, <1>4 DEF Tidy, Records
<1>11. \A d \in Clients \ {c} : pc'[d] = pc[d] /\ call'[d].upload # calls + 1
  <2>1. ASSUME NEW d \in Clients \ {c} PROVE pc'[d] = pc[d] /\ call[d].upload \in 0..calls
    BY <1>1, <1>3, MovedOne DEF Tidy, Calls
  <2>2. QED BY <1>4, <1>6, <2>1
<1>12. CallOK(c)'
  <2>1. /\ call'[c].kind \in {"store", "update"} /\ call'[c].upload = calls + 1
        /\ call'[c].id = i /\ call'[c].old = old /\ call'[c].kind = kind
        /\ calls + 1 # 0
    BY <1>4, <1>6
  <2>2. call'[c].fresh <=> call'[c].id = call'[c].upload
    <3>1. call'[c].fresh = (Same(x) = {})
      BY <1>6
    <3>2. QED BY <1>5, <2>1, <3>1
  <2>3. /\ \A j \in Ids : <<call'[c].upload, j>> \notin acked'
        /\ \A d \in Clients \ {c} : call'[d].upload # call'[c].upload
    BY <1>1, <1>10, <1>11, <2>1
  <2>4. QED BY <1>1, <1>5, <1>9, <2>1, <2>2, <2>3 DEF CallOK, Uploading
<1>13. calls <= calls' /\ faults <= faults'
  BY <1>1, <1>3, <1>4 DEF Tidy
<1>14. QED
  <2> DEFINE image == [f \in Files |-> Missing]
  <2>1. /\ \A f \in Files : image[f] = Missing
        /\ files \cup asked \subseteq (files \cup asked)' /\ asked \subseteq asked'
        /\ call'[c].upload = calls + 1
    BY <1>1, <1>6
  <2>2. Moves(c, "recording", image) /\ "recording" \in Steps /\ UNCHANGED <<disk, rivals>>
    BY <1>1
  <2> HIDE DEF image
  <2>3. QED BY <1>1, <1>6, <1>8, <1>12, <1>13, <2>1, <2>2, CallStep

\* A call that goes on is still what it was.
LEMMA GoesOn ==
  ASSUME BaseInv, NEW c \in Clients, NEW step \in Steps, pc'[c] = step, phase' = phase,
         \A d \in Clients \ {c} : pc'[d] = pc[d],
         call' = call, acked' = acked, asked' = asked, pc[c] # "idle",
         step \in Saving => pc[c] \in Saving,
         step = "loading" => pc[c] \in Saving,
         step \in Removing => pc[c] \in Removing,
         step \in {"storing", "metadata", "index"} => call[c].fresh
  PROVE  CallOK(c)'
<1>1. CallOK(c) /\ (Uploading(c)' => Uploading(c))
  BY DEF BaseInv, Uploading
<1>2. \A d \in Clients \ {c} : Uploading(d)' <=> Uploading(d)
  BY DEF Uploading
<1>3. /\ pc'[c] # "idle" => phase' = "up" /\ call'[c].id # 0
      /\ pc'[c] \in Saving => call'[c].kind \in {"store", "update"}
      /\ pc'[c] = "loading" => call'[c].kind \in {"store", "update", "get"}
      /\ pc'[c] \in Removing => call'[c].id \in asked'
      /\ pc'[c] # "idle" /\ call'[c].kind = "update" => call'[c].old # 0
      /\ pc'[c] \in {"storing", "metadata", "index"} => call'[c].fresh
  BY <1>1 DEF CallOK
<1>4. ASSUME Uploading(c)'
      PROVE  /\ call'[c].upload # 0
             /\ call'[c].fresh <=> call'[c].id = call'[c].upload
             /\ \A i \in Ids : <<call'[c].upload, i>> \notin acked'
             /\ \A d \in Clients \ {c} : Uploading(d)' => call'[d].upload # call'[c].upload
  BY <1>1, <1>2, <1>4 DEF CallOK
<1>5. QED BY <1>3, <1>4 DEF CallOK

\* A client that is done has no call.
LEMMA Ends == ASSUME NEW c, pc'[c] = "idle" PROVE CallOK(c)' /\ ~Uploading(c)'
BY DEF CallOK, Uploading

\* What is about to be written is right when the image is.
LEMMA WritesWell ==
  ASSUME NEW step, NEW image, NEW n, NEW F, ImageOK(FileOf(step), image, n, F)
  PROVE  \A f \in Files : \/ Writing(step, image)[f] = Missing
                          \/ ImageOK(f, Writing(step, image)[f], n, F)
BY DEF Writing

\* An image of the metadata map.
LEMMA MapImage ==
  ASSUME NEW n \in Nat, n <= MaxCalls, NEW F, NEW L, L \subseteq (1..n) \cap F,
         NEW O \in [Ids -> Metas]
  PROVE  /\ ImageOK("metadata", Image(L, O), n, F)
         /\ DOMAIN Image(L, O) = L /\ Image(L, O) # Missing
<1>1. L \subseteq 1..MaxCalls
  BY DocumentStoreAssumption
<1>2. DOMAIN Image(L, O) = L /\ Image(L, O) \in [L -> Metas]
  BY <1>1 DEF Image
<1>3. Image(L, O) # Missing
  BY <1>1, <1>2, DocumentStoreAssumption
<1>4. QED BY <1>2, <1>3 DEF ImageOK

\* The other images.
LEMMA OtherImage ==
  ASSUME NEW n, NEW F, NEW image
  PROVE  /\ image \subseteq 1..n => ImageOK("index", image, n, F)
         /\ image \subseteq Records(n) => ImageOK("uploads", image, n, F)
BY DEF ImageOK

\* The step of a call that makes none and is not asked to delete.
LEMMA Continues ==
  ASSUME BaseInv, NEW c \in Clients, NEW step \in Steps, NEW image,
         Moves(c, step, image),
         UNCHANGED <<disk, rivals>> \/ (FileOf(pc[c]) \in Files /\ Written(c)),
         \A f \in Files : image[f] = Missing \/ ImageOK(f, image[f], calls', (files \cup asked)'),
         pc[c] # "idle", UNCHANGED <<phase, calls, call, acked, asked>>, faults <= faults', Tidy',
         files \cup asked \subseteq files' \cup asked,
         step \in Saving => pc[c] \in Saving,
         step = "loading" => pc[c] \in Saving,
         step \in Removing => pc[c] \in Removing,
         step \in {"storing", "metadata", "index"} => call[c].fresh
  PROVE  BaseInv'
<1>1. TypeInv /\ CallOK(c)
  BY DEF BaseInv
<1>2. phase = "up"
  BY <1>1 DEF CallOK
<1>3. pc'[c] = step /\ \A d \in Clients \ {c} : pc'[d] = pc[d]
  BY <1>1, MovedOne
<1>4. CallOK(c)'
  BY <1>3, GoesOn
<1>5. Uploading(c)' => Uploading(c) /\ call'[c].upload = call[c].upload
  BY DEF Uploading
<1>6. calls <= calls'
  BY <1>1, NumberTypes DEF TypeInv, TypeOK
<1>7. QED BY <1>2, <1>4, <1>5, <1>6, CallStep

\* The call of a client stands for what it says.
LEMMA CallType ==
  ASSUME BaseInv, NEW c \in Clients, pc[c] # "idle"
  PROVE  /\ calls \in Nat /\ calls <= MaxCalls /\ faults \in Nat
         /\ phase = "up" /\ call[c].id \in 1..calls /\ call[c].id \in Ids
         /\ pc[c] \in Saving => /\ call[c].kind \in {"store", "update"} /\ Uploading(c)
                                /\ call[c].upload \in 1..calls
                                /\ <<call[c].upload, call[c].id>> \in Records(calls)
         /\ pc[c] \in Saving /\ call[c].kind = "update" => call[c].old \in 1..calls
<1>1. TypeInv /\ CallOK(c)
  BY DEF BaseInv
<1>2. calls \in Nat /\ calls <= MaxCalls /\ MaxCalls \in Nat /\ faults \in Nat
  BY <1>1, DocumentStoreAssumption DEF TypeInv, TypeOK
<1>3. call[c].id \in 0..calls /\ call[c].upload \in 0..calls /\ call[c].old \in 0..calls
  BY <1>1 DEF TypeInv, Calls
<1>4. phase = "up" /\ call[c].id # 0
  BY <1>1 DEF CallOK
<1>5. pc[c] \in Saving => /\ call[c].kind \in {"store", "update"} /\ Uploading(c)
                          /\ call[c].upload # 0
                          /\ call[c].kind = "update" => call[c].old # 0
  BY <1>1 DEF CallOK, Uploading
<1>6. call[c].id \in 1..calls /\ call[c].id \in Ids
  BY <1>2, <1>3, <1>4
<1>7. pc[c] \in Saving => call[c].upload \in 1..calls
  BY <1>2, <1>3, <1>5
<1>8. pc[c] \in Saving /\ call[c].kind = "update" => call[c].old \in 1..calls
  BY <1>2, <1>3, <1>5
<1>9. QED BY <1>2, <1>4, <1>5, <1>6, <1>7, <1>8 DEF Records

LEMMA RecordUploadBase == ASSUME BaseInv, NEW c \in Clients, RecordUpload(c) PROVE BaseInv'
<1>1. /\ pc[c] = "recording" /\ uploads' = uploads \cup {<<call[c].upload, call[c].id>>}
      /\ Save(c, "uploads", uploads')
      /\ UNCHANGED <<phase, faults, calls, listed, obj, index, cache, files, disk, rivals, call, acked, asked>>
  BY DEF RecordUpload, diskVars, history
<1>2. Tidy /\ Moves(c, "uploads", Writing("uploads", uploads')) /\ mixed' \in BOOLEAN
  BY <1>1, TidyIs, SaveMoves DEF Save
<1>3. faults \in Nat /\ <<call[c].upload, call[c].id>> \in Records(calls)
  BY <1>1, CallType
<1>4. Tidy'
  BY <1>1, <1>2, <1>3 DEF Tidy
<1>5. ImageOK("uploads", uploads', calls', (files \cup asked)')
  BY <1>4, OtherImage DEF Tidy
<1>6. FileOf("uploads") = "uploads"
  BY DEF FileOf
<1> DEFINE W == Writing("uploads", uploads')
<1>7. \A f \in Files : W[f] = Missing \/ ImageOK(f, W[f], calls', (files \cup asked)')
  BY <1>5, <1>6, WritesWell
<1>8. Moves(c, "uploads", W) /\ UNCHANGED <<disk, rivals>> /\ faults <= faults'
  BY <1>1, <1>2, <1>3
<1> HIDE DEF W
<1>9. QED BY <1>1, <1>4, <1>7, <1>8, Continues

\* storeDocument answers.
LEMMA StoredBase ==
  ASSUME BaseInv, NEW c \in Clients, pc[c] \in {"uploads", "index"}, Written(c), Stored(c),
         UNCHANGED <<phase, faults, calls, listed, index, uploads, cache, call, acked, asked>>
  PROVE  BaseInv'
<1>1. TypeInv /\ Tidy /\ FileOf(pc[c]) \in Files
  BY TidyIs DEF BaseInv, FileOf
<1>2. /\ calls \in Nat /\ calls <= MaxCalls /\ faults \in Nat
      /\ call[c].id \in Ids /\ call[c].kind \in {"store", "update"}
      /\ call[c].kind = "update" => call[c].old \in 1..calls
  BY CallType
<1>3. files' = files
  BY <1>1, WriteEnds
<1>4. ASSUME NEW step \in {"loading", "idle"}, Await(c, step), UNCHANGED obj
      PROVE  BaseInv'
  <2>1. Moves(c, step, [f \in Files |-> Missing]) /\ mixed' = mixed
    BY <1>4, AwaitMoves
  <2>2. Tidy'
    BY <1>1, <1>3, <1>4, <2>1 DEF Tidy
  <2>3. QED BY <1>1, <1>2, <1>3, <2>1, <2>2, Continues
<1>5. ASSUME NEW O, O = [[obj EXCEPT ![call[c].id].prev = <<call[c].old>> \o obj[call[c].old].prev]
                             EXCEPT ![call[c].old].latest = FALSE],
             call[c].kind = "update", obj' = O, Save(c, "linking", Image(listed, O))
      PROVE  BaseInv'
  <2>1. /\ Moves(c, "linking", Writing("linking", Image(listed, O))) /\ mixed' \in BOOLEAN
        /\ FileOf("linking") = "metadata"
    BY <1>1, <1>5, SaveMoves DEF Save, Tidy, FileOf
  <2>2. O \in [Ids -> Metas]
    <3>1. obj \in [Ids -> Metas] /\ call[c].old \in Nat /\ call[c].old \in Ids
      <4>1. call[c].old \in 1..calls /\ MaxCalls \in Nat
        BY <1>2, <1>5, DocumentStoreAssumption
      <4>2. call[c].old \in Nat /\ call[c].old \in Ids
        BY <1>2, <4>1
      <4>3. QED BY <1>1, <4>2 DEF Tidy
    <3>2. obj[call[c].old].prev \in Seq(Nat)
      BY <1>2, <1>5, <3>1 DEF Metas
    <3>3. <<call[c].old>> \o obj[call[c].old].prev \in Seq(Nat)
      BY <3>1, <3>2
    <3>4. [obj EXCEPT ![call[c].id].prev = <<call[c].old>> \o obj[call[c].old].prev] \in [Ids -> Metas]
      BY <1>2, <3>1, <3>3 DEF Metas
    <3>5. QED BY <1>5, <3>4 DEF Metas
  <2>3. Tidy'
    BY <1>1, <1>3, <1>5, <2>1, <2>2 DEF Tidy
  <2>4. ImageOK("metadata", Image(listed, O), calls', (files \cup asked)')
    BY <1>1, <1>2, <1>3, <2>2, MapImage DEF Tidy
  <2> DEFINE W == Writing("linking", Image(listed, O))
  <2>5. \A f \in Files : W[f] = Missing \/ ImageOK(f, W[f], calls', (files \cup asked)')
    BY <2>1, <2>4, WritesWell
  <2>6. Moves(c, "linking", W) /\ FileOf(pc[c]) \in Files /\ Written(c) /\ faults <= faults'
    BY <1>1, <1>2, <2>1
  <2> HIDE DEF W
  <2>7. QED BY <1>3, <2>3, <2>5, <2>6, Continues
<1> DEFINE P == [[obj EXCEPT ![call[c].id].prev = <<call[c].old>> \o obj[call[c].old].prev]
                     EXCEPT ![call[c].old].latest = FALSE]
<1>6. \/ \E step \in {"loading", "idle"} : Await(c, step) /\ UNCHANGED obj
      \/ call[c].kind = "update" /\ obj' = P /\ Save(c, "linking", Image(listed, P))
  BY DEF Stored
<1> HIDE DEF P
<1>7. call[c].kind = "update" /\ obj' = P /\ Save(c, "linking", Image(listed, P)) => BaseInv'
  BY <1>5 DEF P
<1>8. QED BY <1>4, <1>6, <1>7

LEMMA UploadsSavedBase == ASSUME BaseInv, NEW c \in Clients, UploadsSaved(c) PROVE BaseInv'
<1>1. /\ pc[c] = "uploads" /\ Written(c)
      /\ UNCHANGED <<phase, faults, calls, listed, index, uploads, cache, call, acked, asked>>
  BY DEF UploadsSaved, history
<1>2. CASE call[c].fresh /\ Await(c, "storing") /\ UNCHANGED obj
  <2>1. TypeInv /\ Tidy /\ FileOf(pc[c]) \in Files
    BY <1>1, TidyIs DEF BaseInv, FileOf
  <2>2. files' = files /\ faults \in Nat
    BY <1>1, <2>1, WriteEnds, CallType
  <2>3. Moves(c, "storing", [f \in Files |-> Missing]) /\ mixed' = mixed
    BY <1>2, AwaitMoves
  <2>4. Tidy'
    BY <1>1, <1>2, <2>1, <2>2, <2>3 DEF Tidy
  <2>5. QED BY <1>1, <1>2, <2>1, <2>2, <2>3, <2>4, Continues
<1>3. CASE Stored(c)
  BY <1>1, <1>3, StoredBase
<1>4. QED BY <1>2, <1>3 DEF UploadsSaved

LEMMA DocumentSavedBase == ASSUME BaseInv, NEW c \in Clients, DocumentSaved(c) PROVE BaseInv'
<1> DEFINE i == call[c].id
           O == [obj EXCEPT ![i].latest = TRUE]
<1>1. /\ pc[c] = "storing" /\ files' = files \cup {i} /\ listed' = listed \cup {i} /\ obj' = O
      /\ Save(c, "metadata", Image(listed \cup {i}, O))
      /\ UNCHANGED <<phase, faults, calls, index, uploads, cache, disk, rivals, call, acked, asked>>
  BY DEF DocumentSaved, history
<1>2. /\ calls \in Nat /\ calls <= MaxCalls /\ faults \in Nat /\ i \in 1..calls /\ i \in Ids
      /\ Tidy /\ CallOK(c)
  BY <1>1, CallType, TidyIs DEF BaseInv
<1>3. /\ Moves(c, "metadata", Writing("metadata", Image(listed \cup {i}, O))) /\ mixed' \in BOOLEAN
      /\ FileOf("metadata") = "metadata"
  BY <1>1, <1>2, SaveMoves DEF Save, Tidy, FileOf
<1>4. O \in [Ids -> Metas]
  BY <1>2 DEF Tidy, Metas
<1> HIDE DEF i, O
<1>5. Tidy'
  BY <1>1, <1>2, <1>3, <1>4 DEF Tidy
<1>6. ImageOK("metadata", Image(listed \cup {i}, O), calls', (files \cup asked)')
  BY <1>1, <1>2, <1>4, <1>5, MapImage DEF Tidy
<1>7. \A f \in Files : \/ Writing("metadata", Image(listed \cup {i}, O))[f] = Missing
                       \/ ImageOK(f, Writing("metadata", Image(listed \cup {i}, O))[f],
                                  calls', (files \cup asked)')
  BY <1>3, <1>6, WritesWell
<1>8. call[c].fresh
  BY <1>1, <1>2 DEF CallOK
<1>9. files \cup asked \subseteq files' \cup asked
  BY <1>1
<1>10. QED BY <1>1, <1>2, <1>3, <1>5, <1>7, <1>8, <1>9, Continues

LEMMA MetadataSavedBase == ASSUME BaseInv, NEW c \in Clients, MetadataSaved(c) PROVE BaseInv'
<1>1. /\ pc[c] = "metadata" /\ Written(c) /\ index' = index \cup {call[c].id}
      /\ Save(c, "index", index')
      /\ UNCHANGED <<phase, faults, calls, listed, obj, uploads, cache, call, acked, asked>>
  BY DEF MetadataSaved, history
<1>2. /\ TypeInv /\ Tidy /\ CallOK(c) /\ FileOf(pc[c]) \in Files
      /\ call[c].id \in 1..calls /\ faults \in Nat
  BY <1>1, TidyIs, CallType DEF BaseInv, FileOf
<1>3. files' = files
  BY <1>1, <1>2, WriteEnds
<1>4. /\ Moves(c, "index", Writing("index", index')) /\ mixed' \in BOOLEAN /\ FileOf("index") = "index"
  BY <1>1, <1>2, SaveMoves DEF Save, Tidy, FileOf
<1>5. Tidy'
  BY <1>1, <1>2, <1>3, <1>4 DEF Tidy
<1>6. ImageOK("index", index', calls', (files \cup asked)')
  BY <1>5, OtherImage DEF Tidy
<1> DEFINE W == Writing("index", index')
<1>7. \A f \in Files : W[f] = Missing \/ ImageOK(f, W[f], calls', (files \cup asked)')
  BY <1>4, <1>6, WritesWell
<1>8. call[c].fresh /\ faults <= faults' /\ Moves(c, "index", W)
  BY <1>1, <1>2, <1>4 DEF CallOK
<1> HIDE DEF W
<1>9. QED BY <1>1, <1>2, <1>3, <1>5, <1>7, <1>8, Continues

LEMMA IndexSavedBase == ASSUME BaseInv, NEW c \in Clients, IndexSaved(c) PROVE BaseInv'
BY StoredBase DEF IndexSaved, history

LEMMA LinkedBase == ASSUME BaseInv, NEW c \in Clients, Linked(c) PROVE BaseInv'
<1>1. /\ pc[c] = "linking" /\ Written(c) /\ cache' = cache \ {call[c].old} /\ Await(c, "loading")
      /\ UNCHANGED <<phase, faults, calls, listed, obj, index, uploads, call, acked, asked>>
  BY DEF Linked, history
<1>2. TypeInv /\ Tidy /\ FileOf(pc[c]) \in Files /\ faults \in Nat
  BY <1>1, TidyIs, CallType DEF BaseInv, FileOf
<1>3. files' = files
  BY <1>1, <1>2, WriteEnds
<1>4. Moves(c, "loading", [f \in Files |-> Missing]) /\ mixed' = mixed
  BY <1>1, AwaitMoves
<1>5. Tidy'
  BY <1>1, <1>2, <1>3, <1>4 DEF Tidy
<1>6. QED BY <1>1, <1>2, <1>3, <1>4, <1>5, Continues

LEMMA GetDocumentBase == ASSUME BaseInv, NEW c \in Clients, GetDocument(c) PROVE BaseInv'
<1>1. /\ phase = "up" /\ pc[c] = "idle" /\ Await(c, "loading")
      /\ UNCHANGED <<phase, faults, calls, listed, obj, index, uploads, cache, files, disk, rivals,
                     acked, asked>>
  BY DEF GetDocument, memVars, diskVars, history
<1>2. PICK i \in listed : call' = [call EXCEPT ![c] = [NoCall EXCEPT !.kind = "get", !.id = i]]
  BY DEF GetDocument
<1>3. /\ TypeInv /\ Tidy /\ calls \in Nat /\ faults \in Nat
  BY TidyIs, NumberTypes, DocumentStoreAssumption DEF BaseInv, Tidy
<1>4. i \in 1..calls /\ i \in 0..calls /\ i # 0
  BY <1>2, <1>3 DEF Tidy
<1>5. [NoCall EXCEPT !.kind = "get", !.id = i] \in Calls(calls)
  <2>1. NoCall \in Calls(calls)
    BY <1>3 DEF NoCall, Calls
  <2>2. [NoCall EXCEPT !.kind = "get"] \in Calls(calls)
    BY <2>1 DEF Calls
  <2>3. QED BY <1>4, <2>1, <2>2 DEF Calls
<1>6. /\ call' \in [Clients -> Calls(calls)]
      /\ call'[c].kind = "get" /\ call'[c].id = i
      /\ \A d \in Clients \ {c} : call'[d] = call[d]
  BY <1>2, <1>3, <1>5 DEF Tidy, NoCall
<1> DEFINE W == [f \in Files |-> Missing]
<1>7. Moves(c, "loading", W) /\ mixed' = mixed
  BY <1>1, AwaitMoves
<1>8. pc'[c] = "loading" /\ \A f \in Files : W[f] = Missing
  BY <1>3, <1>7, MovedOne
<1>9. CallOK(c)' /\ ~Uploading(c)'
  BY <1>1, <1>4, <1>6, <1>8 DEF CallOK, Uploading
<1>10. Tidy' /\ calls <= calls' /\ faults <= faults'
  BY <1>1, <1>3, <1>6, <1>7 DEF Tidy
<1> HIDE DEF W
<1>11. QED BY <1>1, <1>6, <1>7, <1>8, <1>9, <1>10, CallStep

\* A call that is over.
LEMMA EndsBase ==
  ASSUME BaseInv, NEW c \in Clients, phase = "up", Await(c, "idle"), call' = [call EXCEPT ![c] = NoCall],
         UNCHANGED <<disk, rivals>> \/ (FileOf(pc[c]) \in Files /\ Written(c)) \/ Shelved,
         UNCHANGED <<phase, calls, listed, obj, index, uploads, files, asked>>,
         cache' \subseteq 1..calls, faults' \in 0..MaxFaults, faults <= faults',
         \/ acked' = acked
         \/ Uploading(c) /\ \E i \in 1..calls : acked' = acked \cup {<<call[c].upload, i>>}
  PROVE  BaseInv'
<1>1. TypeInv /\ Tidy /\ calls \in Nat /\ CallOK(c) /\ MaxCalls \in Nat /\ calls <= MaxCalls
  BY TidyIs, NumberTypes, DocumentStoreAssumption DEF BaseInv, Tidy
<1> DEFINE W == [f \in Files |-> Missing]
<1>2. Moves(c, "idle", W) /\ mixed' = mixed
  BY AwaitMoves
<1>3. pc'[c] = "idle" /\ \A f \in Files : W[f] = Missing
  BY <1>1, <1>2, MovedOne
<1>4. CallOK(c)' /\ ~Uploading(c)'
  BY <1>3, Ends
<1>5. NoCall \in Calls(calls)
  BY <1>1 DEF NoCall, Calls
<1>6. call' \in [Clients -> Calls(calls)] /\ \A d \in Clients \ {c} : call'[d] = call[d]
  BY <1>1, <1>5 DEF Tidy
<1>7. /\ acked' \subseteq Records(calls)
      /\ \/ acked' = acked
         \/ Uploading(c) /\ \E i \in Ids : acked' = acked \cup {<<call[c].upload, i>>}
  <2>1. CASE acked' = acked
    BY <1>1, <2>1 DEF Tidy
  <2>2. CASE Uploading(c) /\ \E i \in 1..calls : acked' = acked \cup {<<call[c].upload, i>>}
    <3>1. PICK i \in 1..calls : acked' = acked \cup {<<call[c].upload, i>>}
      BY <2>2
    <3>2. call[c].upload \in 0..calls
      BY <1>1 DEF Tidy, Calls
    <3>3. call[c].upload # 0
      BY <1>1, <2>2 DEF CallOK
    <3>4. call[c].upload \in 1..calls /\ i \in Ids
      BY <1>1, <3>2, <3>3
    <3>5. QED BY <1>1, <2>2, <3>1, <3>4 DEF Tidy, Records
  <2>3. QED BY <2>1, <2>2
<1>8. Tidy' /\ calls <= calls'
  BY <1>1, <1>2, <1>6, <1>7 DEF Tidy
<1> HIDE DEF W
<1>9. "idle" \in Steps /\ phase' = "up" /\ files \cup asked \subseteq (files \cup asked)' /\ asked \subseteq asked'
  OBVIOUS
<1>10. QED BY <1>2, <1>3, <1>4, <1>6, <1>7, <1>8, <1>9, CallStep

\* A cache that is put a document into.
LEMMA CachedType ==
  ASSUME NEW i, Cached(i) PROVE cache' \subseteq cache \cup {i}
BY DEF Cached

LEMMA LoadedBase == ASSUME BaseInv, NEW c \in Clients, Loaded(c) PROVE BaseInv'
<1>1. /\ pc[c] = "loading" /\ Await(c, "idle") /\ call' = [call EXCEPT ![c] = NoCall]
      /\ UNCHANGED <<phase, faults, calls, listed, obj, index, uploads, files, disk, rivals, asked>>
      /\ IF call[c].id \in files THEN Cached(call[c].id) ELSE UNCHANGED cache
      /\ acked' = IF call[c].kind = "get" THEN acked ELSE acked \cup {<<call[c].upload, call[c].id>>}
  BY DEF Loaded, diskVars
<1>2. Tidy /\ CallOK(c) /\ phase = "up" /\ call[c].id \in 1..calls /\ faults \in Nat
  BY <1>1, TidyIs, CallType DEF BaseInv
<1>3. cache' \subseteq 1..calls
  BY <1>1, <1>2, CachedType DEF Tidy
<1>4. call[c].kind # "get" => Uploading(c)
  BY <1>1, <1>2 DEF CallOK, Uploading
<1>5. faults' \in 0..MaxFaults /\ faults <= faults'
  BY <1>1, <1>2 DEF Tidy
<1>6. \/ acked' = acked
      \/ Uploading(c) /\ \E i \in 1..calls : acked' = acked \cup {<<call[c].upload, i>>}
  BY <1>1, <1>2, <1>4
<1>7. QED BY <1>1, <1>2, <1>3, <1>5, <1>6, EndsBase

LEMMA ExpireBase == ASSUME BaseInv, Expire PROVE BaseInv'
<1>1. /\ UNCHANGED <<phase, faults, calls, listed, obj, index, uploads, files, disk, rivals,
                     pc, call, snap, mixed, acked, asked>>
      /\ cache' \subseteq cache
  BY DEF Expire, diskVars, callVars, history
<1>2. TypeInv' /\ DocumentsHaveFiles' /\ DownOK'
  BY <1>1 DEF BaseInv, TypeInv, TypeOK, DocumentsHaveFiles, DownOK
<1>3. ImagesOK'
  BY <1>1 DEF BaseInv, ImagesOK, Around
<1>4. \A c \in Clients : CallOK(c)'
  BY <1>1 DEF BaseInv, CallOK, Uploading
<1>5. QED BY <1>2, <1>3, <1>4 DEF BaseInv

LEMMA DeleteDocumentBase == ASSUME BaseInv, NEW c \in Clients, DeleteDocument(c) PROVE BaseInv'
<1>1. /\ phase = "up" /\ pc[c] = "idle" /\ Await(c, "unlinking")
      /\ UNCHANGED <<phase, faults, calls, listed, obj, index, uploads, cache, files, disk, rivals, acked>>
  BY DEF DeleteDocument, memVars, diskVars
<1>2. PICK i \in listed : /\ call' = [call EXCEPT ![c] = [NoCall EXCEPT !.kind = "delete", !.id = i]]
                          /\ asked' = asked \cup {i}
  BY DEF DeleteDocument
<1>3. TypeInv /\ Tidy /\ calls \in Nat /\ faults \in Nat
  BY TidyIs, NumberTypes, DocumentStoreAssumption DEF BaseInv, Tidy
<1>4. i \in 1..calls /\ i \in 0..calls /\ i # 0
  BY <1>2, <1>3 DEF Tidy
<1>5. [NoCall EXCEPT !.kind = "delete", !.id = i] \in Calls(calls)
  <2>1. NoCall \in Calls(calls)
    BY <1>3 DEF NoCall, Calls
  <2>2. [NoCall EXCEPT !.kind = "delete"] \in Calls(calls)
    BY <2>1 DEF Calls
  <2>3. QED BY <1>4, <2>1, <2>2 DEF Calls
<1>6. /\ call' \in [Clients -> Calls(calls)]
      /\ call'[c].kind = "delete" /\ call'[c].id = i
      /\ \A d \in Clients \ {c} : call'[d] = call[d]
  BY <1>2, <1>3, <1>5 DEF Tidy, NoCall
<1> DEFINE W == [f \in Files |-> Missing]
<1>7. Moves(c, "unlinking", W) /\ mixed' = mixed
  BY <1>1, AwaitMoves
<1>8. pc'[c] = "unlinking" /\ \A f \in Files : W[f] = Missing
  BY <1>3, <1>7, MovedOne
<1>9. CallOK(c)' /\ ~Uploading(c)'
  BY <1>1, <1>2, <1>4, <1>6, <1>8 DEF CallOK, Uploading
<1>10. Tidy' /\ calls <= calls' /\ faults <= faults'
  BY <1>1, <1>2, <1>3, <1>4, <1>6, <1>7 DEF Tidy
<1> HIDE DEF W
<1>11. files \cup asked \subseteq (files \cup asked)' /\ asked \subseteq asked' /\ "unlinking" \in Steps
  BY <1>1, <1>2
<1>12. QED BY <1>1, <1>6, <1>7, <1>8, <1>9, <1>10, <1>11, CallStep

LEMMA UnlinkedBase == ASSUME BaseInv, NEW c \in Clients, Unlinked(c) PROVE BaseInv'
<1> DEFINE i == call[c].id
<1>1. /\ pc[c] = "unlinking" /\ listed' = listed \ {i}
      /\ files' = files \ {i} \/ files' = files
      /\ faults' = faults \/ (faults < MaxFaults /\ faults' = faults + 1)
      /\ Save(c, "unlisting", Image(listed \ {i}, obj))
      /\ UNCHANGED <<phase, calls, obj, index, uploads, cache, disk, rivals, call, acked, asked>>
  BY DEF Unlinked, history
<1>2. /\ calls \in Nat /\ calls <= MaxCalls /\ faults \in Nat
      /\ Tidy /\ CallOK(c) /\ i \in asked
  BY <1>1, CallType, TidyIs DEF BaseInv, CallOK
<1> HIDE DEF i
<1> DEFINE W == Writing("unlisting", Image(listed \ {i}, obj))
<1>3. /\ Moves(c, "unlisting", W) /\ mixed' \in BOOLEAN /\ FileOf("unlisting") = "metadata"
  BY <1>1, <1>2, SaveMoves DEF Save, Tidy, FileOf
<1>4. faults <= faults' /\ faults' \in 0..MaxFaults /\ MaxFaults \in Nat
  BY <1>1, <1>2, DocumentStoreAssumption DEF Tidy
<1>5. Tidy' /\ files \cup asked \subseteq files' \cup asked
  BY <1>1, <1>2, <1>3, <1>4 DEF Tidy
<1>6. ImageOK("metadata", Image(listed \ {i}, obj), calls', (files \cup asked)')
  BY <1>1, <1>2, <1>5, MapImage DEF Tidy
<1>7. \A f \in Files : W[f] = Missing \/ ImageOK(f, W[f], calls', (files \cup asked)')
  BY <1>3, <1>6, WritesWell
<1> HIDE DEF W
<1>8. QED BY <1>1, <1>3, <1>4, <1>5, <1>7, Continues

LEMMA UnlistedBase == ASSUME BaseInv, NEW c \in Clients, Unlisted(c) PROVE BaseInv'
<1>1. /\ pc[c] = "unlisting" /\ Written(c) /\ index' = index \ {call[c].id}
      /\ Save(c, "unindexing", index')
      /\ UNCHANGED <<phase, faults, calls, listed, obj, uploads, cache, call, acked, asked>>
  BY DEF Unlisted, history
<1>2. /\ TypeInv /\ Tidy /\ FileOf(pc[c]) \in Files /\ faults \in Nat
  BY <1>1, TidyIs, CallType DEF BaseInv, FileOf
<1>3. files' = files
  BY <1>1, <1>2, WriteEnds
<1> DEFINE W == Writing("unindexing", index')
<1>4. /\ Moves(c, "unindexing", W) /\ mixed' \in BOOLEAN /\ FileOf("unindexing") = "index"
  BY <1>1, <1>2, SaveMoves DEF Save, Tidy, FileOf
<1>5. Tidy' /\ faults <= faults'
  <2>1. faults <= faults'
    BY <1>1, <1>2
  <2>2. QED BY <1>1, <1>2, <1>3, <1>4, <2>1 DEF Tidy
<1>6. ImageOK("index", index', calls', (files \cup asked)')
  BY <1>5, OtherImage DEF Tidy
<1>7. \A f \in Files : W[f] = Missing \/ ImageOK(f, W[f], calls', (files \cup asked)')
  BY <1>4, <1>6, WritesWell
<1> HIDE DEF W
<1>8. QED BY <1>1, <1>2, <1>3, <1>4, <1>5, <1>7, Continues

LEMMA UnindexedBase == ASSUME BaseInv, NEW c \in Clients, Unindexed(c) PROVE BaseInv'
<1>1. /\ pc[c] = "unindexing" /\ Written(c) /\ cache' = cache \ {call[c].id}
      /\ Await(c, "idle") /\ call' = [call EXCEPT ![c] = NoCall]
      /\ UNCHANGED <<phase, faults, calls, listed, obj, index, uploads, acked, asked>>
  BY DEF Unindexed, history
<1>2. TypeInv /\ Tidy /\ FileOf(pc[c]) \in Files /\ faults \in Nat /\ phase = "up"
  BY <1>1, TidyIs, CallType DEF BaseInv, FileOf
<1>3. files' = files
  BY <1>1, <1>2, WriteEnds
<1>4. cache' \subseteq 1..calls /\ faults' \in 0..MaxFaults /\ faults <= faults'
  <2>1. faults <= faults'
    BY <1>1, <1>2
  <2>2. QED BY <1>1, <1>2, <2>1 DEF Tidy
<1>5. QED BY <1>1, <1>2, <1>3, <1>4, EndsBase

\* A write that fails leaves the file as it was, or one that does not parse.
LEMMA FailureShelved ==
  ASSUME TypeInv, NEW c \in Clients, WriteFails(c)
  PROVE  Shelved
<1> DEFINE g == FileOf(pc[c])
<1>1. /\ \A f \in Files : disk[f] \in Around(f) /\ rivals[f] \subseteq Around(f)
      /\ disk = [f \in Files |-> disk[f]] /\ rivals = [f \in Files |-> rivals[f]]
  BY DEF Around, TypeInv
<1>2. CASE UNCHANGED <<disk, rivals>>
  BY <1>1, <1>2 DEF Shelved
<1>3. CASE disk' = [disk EXCEPT ![g] = Torn] /\ rivals' = [rivals EXCEPT ![g] = {}]
  BY <1>1, <1>3 DEF Shelved
<1>4. CASE rivals' = [rivals EXCEPT ![g] = @ \cup {Torn}] /\ disk' = disk
  <2> HIDE DEF g
  <2>1. QED BY <1>1, <1>4 DEF Shelved
<1>5. QED BY <1>2, <1>3, <1>4 DEF WriteFails

LEMMA WriteFailsBase == ASSUME BaseInv, NEW c \in Clients, WriteFails(c) PROVE BaseInv'
<1>1. /\ pc[c] \in {"recording", "storing"} \/ FileOf(pc[c]) # "none"
      /\ faults < MaxFaults /\ faults' = faults + 1
      /\ Await(c, "idle") /\ call' = [call EXCEPT ![c] = NoCall]
      /\ UNCHANGED <<phase, calls, listed, obj, index, uploads, cache, files, acked, asked>>
  BY DEF WriteFails, memVars, history
<1>2. TypeInv /\ Tidy /\ pc[c] # "idle"
  BY <1>1, TidyIs DEF BaseInv, FileOf
<1>3. phase = "up" /\ faults \in Nat
  BY <1>2, CallType
<1>4. cache' \subseteq 1..calls /\ faults' \in 0..MaxFaults /\ faults <= faults'
  BY <1>1, <1>2, <1>3, DocumentStoreAssumption DEF Tidy
<1>5. Shelved
  BY <1>2, FailureShelved
<1>6. QED BY <1>1, <1>3, <1>4, <1>5, EndsBase

\* A process that is not up has no calls.
LEMMA NobodyCalls ==
  ASSUME BaseInv, phase # "up" PROVE \A c \in Clients : pc[c] = "idle"
BY DEF BaseInv, CallOK

\* What the end of the process leaves in a file was around, or does not parse.
LEMMA RemainsAround ==
  ASSUME NEW f \in Files PROVE Remains(f) \subseteq Around(f) \cup {Torn}
BY DEF Remains, Around, Writers

LEMMA CrashBase == ASSUME BaseInv, Crash PROVE BaseInv'
<1>1. /\ phase = "up" /\ phase' = "down" /\ faults < MaxFaults /\ faults' = faults + 1
      /\ rivals' = [f \in Files |-> {}]
      /\ listed' = {} /\ index' = {} /\ uploads' = {} /\ cache' = {}
      /\ pc' = [c \in Clients |-> "idle"] /\ call' = [c \in Clients |-> NoCall]
      /\ snap' = [f \in Files |-> [c \in Clients |-> Missing]]
      /\ UNCHANGED <<calls, obj, mixed, acked, asked>>
  BY DEF Crash, history
<1>2. /\ disk' = [f \in Files |-> disk'[f]]
      /\ \A f \in Files : disk'[f] \in Around(f) \cup {Torn}
  <2>1. PICK m \in Remains("metadata"), x \in Remains("index"), u \in Remains("uploads") :
            disk' = [f \in Files |-> IF f = "metadata" THEN m ELSE IF f = "index" THEN x ELSE u]
    BY DEF Crash
  <2>2. /\ m \in Around("metadata") \cup {Torn}
        /\ x \in Around("index") \cup {Torn}
        /\ u \in Around("uploads") \cup {Torn}
    BY <2>1, RemainsAround
  <2>3. QED BY <2>1, <2>2
<1>3. TypeInv /\ Tidy /\ calls \in Nat /\ faults' \in 0..MaxFaults
  BY <1>1, TidyIs, NumberTypes, DocumentStoreAssumption DEF BaseInv, Tidy
<1>4. files \subseteq files' /\ files' \subseteq 1..calls
  <2>1. PICK W \in SUBSET {call[c].id : c \in {d \in Clients : pc[d] = "storing"}} :
            files' = files \cup W
    BY DEF Crash
  <2>2. \A c \in Clients : pc[c] = "storing" => call[c].id \in 1..calls
    BY CallType
  <2>3. QED BY <1>3, <2>1, <2>2 DEF Tidy
<1>5. /\ call' \in [Clients -> Calls(calls')]
      /\ pc' \in [Clients -> Steps]
  BY <1>1, <1>3 DEF NoCall, Calls
<1>6. TypeInv'
  BY <1>1, <1>2, <1>3, <1>4, <1>5 DEF Tidy, TypeInv, TypeOK, Records
<1>7. ImagesOK'
  <2>1. ASSUME NEW f \in Files, NEW image \in Around(f)'
        PROVE  image \in Around(f) \cup {Missing, Torn}
    BY <1>1, <1>2 DEF Around
  <2>2. calls' = calls /\ asked' = asked
    BY <1>1
  <2>3. calls' \in Nat /\ calls <= calls'
    BY <1>3, <2>2
  <2>4. files \cup asked \subseteq (files \cup asked)'
    BY <1>4, <2>2
  <2>5. QED BY <2>1, <2>3, <2>4, ImagesStay DEF BaseInv, TypeInv
<1>8. DocumentsHaveFiles' /\ DownOK'
  BY <1>1, <1>3, DocumentStoreAssumption DEF DocumentsHaveFiles, DownOK, Tidy
<1>9. \A c \in Clients : CallOK(c)'
  BY <1>1, Ends
<1>10. QED BY <1>6, <1>7, <1>8, <1>9 DEF BaseInv

LEMMA RestartBase == ASSUME BaseInv, Restart PROVE BaseInv'
<1>1. /\ phase = "down"
      /\ UNCHANGED <<faults, calls, cache, files, disk, rivals, pc, call, snap, mixed, acked, asked>>
  BY DEF Restart, diskVars, callVars, history
<1>2. TypeInv /\ Tidy /\ faults # 0 /\ calls \in Nat
  BY <1>1, TidyIs, NumberTypes DEF BaseInv, DownOK, Tidy
<1>3. \A f \in Files : ImageOK(f, disk[f], calls, files \cup asked)
  BY DEF BaseInv, ImagesOK, Around
<1>4. ImagesOK' /\ \A c \in Clients : CallOK(c)'
  <2>1. ImagesOK'
    BY <1>1 DEF BaseInv, ImagesOK, Around
  <2>2. \A c \in Clients : pc'[c] = "idle"
    BY <1>1, NobodyCalls
  <2>3. QED BY <2>1, <2>2, Ends
<1>5. CASE phase' = "failed" /\ UNCHANGED <<listed, obj, index, uploads>>
  BY <1>1, <1>2, <1>4, <1>5 DEF BaseInv, TypeInv, TypeOK, DocumentsHaveFiles, DownOK
<1>6. CASE /\ Torn \notin {disk["metadata"], disk["index"]}
           /\ phase' = "up" /\ LoadMetadata /\ LoadSearchIndex /\ LoadUploads
  <2>1. /\ listed' \subseteq (1..calls) \cap (files \cup asked)
        /\ \A i \in listed' : disk["metadata"][i] \in Metas
    BY <1>3, <1>6 DEF LoadMetadata, ImageOK
  <2>2. obj' \in [Ids -> Metas]
    <3>1. NoMeta \in Metas
      BY DEF NoMeta, Metas
    <3>2. QED BY <1>6, <2>1, <3>1 DEF LoadMetadata
  <2>3. index' \subseteq 1..calls /\ uploads' \subseteq Records(calls)
    BY <1>3, <1>6, <2>1 DEF LoadSearchIndex, LoadUploads, ImageOK
  <2>4. TypeInv'
    BY <1>1, <1>2, <1>6, <2>1, <2>2, <2>3 DEF TypeInv, TypeOK, Records
  <2>5. DocumentsHaveFiles' /\ DownOK'
    BY <1>1, <1>2, <1>6, <2>1 DEF DocumentsHaveFiles, DownOK
  <2>6. QED BY <1>4, <2>4, <2>5 DEF BaseInv
<1>7. QED BY <1>5, <1>6 DEF Restart

LEMMA InitBase == Init => BaseInv
<1> SUFFICES ASSUME Init PROVE BaseInv
  OBVIOUS
<1>1. /\ phase = "up" /\ faults = 0 /\ calls = 0
      /\ listed = {} /\ obj = [i \in Ids |-> NoMeta]
      /\ index = {} /\ uploads = {} /\ cache = {} /\ files = {}
      /\ disk = [f \in Files |-> Missing] /\ rivals = [f \in Files |-> {}] /\ mixed = FALSE
      /\ pc = [c \in Clients |-> "idle"] /\ call = [c \in Clients |-> NoCall]
      /\ snap = [f \in Files |-> [c \in Clients |-> Missing]]
      /\ acked = {} /\ asked = {}
  BY DEF Init
<1>2. obj \in [Ids -> Metas] /\ call \in [Clients -> Calls(calls)] /\ pc \in [Clients -> Steps]
  <2>1. NoMeta \in Metas /\ NoCall \in Calls(0)
    BY DEF NoMeta, Metas, NoCall, Calls
  <2>2. QED BY <1>1, <2>1
<1>3. TypeInv
  <2>1. faults \in 0..MaxFaults /\ calls \in 0..MaxCalls
    BY <1>1, DocumentStoreAssumption
  <2>2. DOMAIN disk = Files /\ DOMAIN rivals = Files
    BY <1>1
  <2>3. TypeOK
    BY <1>1, <2>1, <2>2 DEF TypeOK
  <2>4. /\ disk = [f \in Files |-> disk[f]] /\ rivals = [f \in Files |-> rivals[f]]
        /\ snap = [f \in Files |-> [c \in Clients |-> snap[f][c]]]
    BY <1>1
  <2>5. QED BY <1>2, <2>3, <2>4 DEF TypeInv
<1>4. ImagesOK
  BY <1>1 DEF ImagesOK, Around, ImageOK
<1>5. DocumentsHaveFiles /\ DownOK /\ \A c \in Clients : CallOK(c)
  BY <1>1 DEF DocumentsHaveFiles, DownOK, CallOK, Uploading
<1>6. QED BY <1>3, <1>4, <1>5 DEF BaseInv

LEMMA BaseStep == ASSUME BaseInv, [Next]_vars PROVE BaseInv'
<1>1. ASSUME NEW c \in Clients, Call(c) PROVE BaseInv'
  <2>1. CASE StoreDocument(c)
    BY <2>1, BeginBase DEF StoreDocument
  <2>2. CASE UpdateDocument(c)
    <3>1. PICK x \in Contents, old \in listed : Begin(c, "update", old, x)
      BY <2>2 DEF UpdateDocument
    <3>2. old # 0
      BY DEF BaseInv, TypeInv, TypeOK
    <3>3. QED BY <3>1, <3>2, BeginBase
  <2>3. QED BY <1>1, <2>1, <2>2, GetDocumentBase, DeleteDocumentBase DEF Call
<1>2. ASSUME NEW c \in Clients, Continue(c) PROVE BaseInv'
  BY <1>2, RecordUploadBase, UploadsSavedBase, DocumentSavedBase, MetadataSavedBase, IndexSavedBase,
     LinkedBase, LoadedBase, UnlinkedBase, UnlistedBase, UnindexedBase DEF Continue
<1>3. ASSUME NEW c \in Clients, WriteFails(c) PROVE BaseInv'
  BY <1>3, WriteFailsBase
<1>4. CASE UNCHANGED vars
  <2>1. UNCHANGED <<phase, faults, calls, listed, obj, index, uploads, cache, files, disk, rivals,
                    pc, call, snap, mixed, acked, asked>>
    BY <1>4 DEF vars, memVars, diskVars, callVars, history
  <2>2. TypeInv' /\ DocumentsHaveFiles' /\ DownOK'
    BY <2>1 DEF BaseInv, TypeInv, TypeOK, DocumentsHaveFiles, DownOK
  <2>3. ImagesOK'
    BY <2>1 DEF BaseInv, ImagesOK, Around
  <2>4. \A c \in Clients : CallOK(c)'
    BY <2>1 DEF BaseInv, CallOK, Uploading
  <2>5. QED BY <2>2, <2>3, <2>4 DEF BaseInv
<1>5. QED BY <1>1, <1>2, <1>3, <1>4, ExpireBase, CrashBase, RestartBase DEF Next

-----------------------------------------------------------------------------
(* The records and the search index while nothing has failed                 *)

\* Every step is one of these.
LEMMA StepIs ==
  ASSUME [Next]_vars
  PROVE  \/ \E c \in Clients : Call(c) \/ Continue(c) \/ WriteFails(c)
         \/ Expire \/ Crash \/ Restart \/ UNCHANGED vars
BY DEF Next

\* Where a client is after a step of its own.
LEMMA StepTo ==
  ASSUME TypeInv, NEW c \in Clients, NEW step \in Steps,
         Await(c, step) \/ \E image : Save(c, step, image)
  PROVE  pc'[c] = step /\ \A d \in Clients \ {c} : pc'[d] = pc[d]
BY DEF Await, Save, TypeInv

\* Where storeDocument leaves its caller.
LEMMA StoredTo ==
  ASSUME TypeInv, NEW c \in Clients, Stored(c)
  PROVE  pc'[c] \in {"loading", "linking", "idle"}
<1>1. \/ \E step \in {"loading", "idle"} : Await(c, step)
      \/ \E image : Save(c, "linking", image)
  BY DEF Stored
<1>2. QED BY <1>1, StepTo

\* A client that does nothing has the call it had.
LEMMA OthersWait ==
  ASSUME TypeInv, NEW c \in Clients, Call(c) \/ Continue(c) \/ WriteFails(c), NEW d \in Clients \ {c}
  PROVE  pc'[d] = pc[d] /\ call'[d] = call[d]
<1>1. pc' = [pc EXCEPT ![c] = pc'[c]]
  <2>1. \E step : pc' = [pc EXCEPT ![c] = step]
    BY DEF Call, Continue, StoreDocument, UpdateDocument, Begin, GetDocument, DeleteDocument,
           RecordUpload, UploadsSaved, Stored, DocumentSaved, MetadataSaved, IndexSaved, Linked, Loaded,
           Unlinked, Unlisted, Unindexed, WriteFails, Await, Save
  <2>2. QED BY <2>1 DEF TypeInv
<1>2. call' = call \/ \E x : call' = [call EXCEPT ![c] = x]
  BY DEF Call, Continue, StoreDocument, UpdateDocument, Begin, GetDocument, DeleteDocument,
         RecordUpload, UploadsSaved, Stored, DocumentSaved, MetadataSaved, IndexSaved, Linked, Loaded,
         Unlinked, Unlisted, Unindexed, WriteFails
<1>3. QED BY <1>1, <1>2 DEF TypeInv

\* An upload that is past its record goes on with the same call.  What it brings is
\* recorded by then, and the search index has it only after metadata.json.
LEMMA UploadMoves ==
  ASSUME BaseInv, [Next]_vars, NEW d \in Clients, Uploading(d)', pc'[d] # "recording"
  PROVE  /\ Uploading(d) /\ call'[d] = call[d]
         /\ pc[d] = "recording" => <<call[d].upload, call[d].id>> \in uploads'
         /\ pc'[d] = "metadata" => pc[d] = "metadata" \/ DocumentSaved(d)
         /\ call[d].fresh /\ pc'[d] \in {"index", "linking", "loading"} =>
                pc[d] \in {"index", "linking", "loading"} \/ MetadataSaved(d)
<1> USE DEF Uploading
<1>1. TypeInv /\ CallOK(d)
  BY DEF BaseInv
<1>2. ASSUME NEW c \in Clients \ {d}, Call(c) \/ Continue(c) \/ WriteFails(c)
      PROVE  pc'[d] = pc[d] /\ call'[d] = call[d]
  BY <1>1, <1>2, OthersWait
<1>3. CASE Call(d)
  <2>1. CASE \E x, kind, old : Begin(d, kind, old, x)
    BY <1>1, <2>1, StepTo DEF Begin
  <2>2. CASE GetDocument(d)
    <3>1. pc'[d] = "loading"
      BY <1>1, <2>2, StepTo DEF GetDocument
    <3>2. call'[d].kind = "get"
      BY <1>1, <2>2 DEF GetDocument, NoCall, TypeInv, Calls
    <3>3. QED BY <3>2
  <2>3. CASE DeleteDocument(d)
    <3>1. call'[d].kind = "delete"
      BY <1>1, <2>3 DEF DeleteDocument, NoCall, TypeInv, Calls
    <3>2. QED BY <3>1
  <2>4. QED BY <1>3, <2>1, <2>2, <2>3 DEF Call, StoreDocument, UpdateDocument
<1>4. CASE Continue(d)
  <2>1. CASE RecordUpload(d)
    BY <1>1, <2>1, StepTo DEF RecordUpload
  <2>2. CASE UploadsSaved(d)
    <3>1. pc[d] = "uploads" /\ call' = call
      BY <2>2 DEF UploadsSaved
    <3>2. pc'[d] = "storing" \/ (~call[d].fresh /\ pc'[d] \in {"loading", "linking", "idle"})
      BY <1>1, <2>2, StepTo, StoredTo DEF UploadsSaved
    <3>3. QED BY <1>1, <3>1, <3>2 DEF CallOK
  <2>3. CASE DocumentSaved(d)
    BY <1>1, <2>3, StepTo DEF DocumentSaved
  <2>4. CASE MetadataSaved(d)
    BY <1>1, <2>4, StepTo DEF MetadataSaved
  <2>5. CASE IndexSaved(d)
    <3>1. pc[d] = "index" /\ call' = call /\ pc'[d] \in {"loading", "linking", "idle"}
      BY <1>1, <2>5, StoredTo DEF IndexSaved
    <3>2. QED BY <1>1, <3>1 DEF CallOK
  <2>6. CASE Linked(d)
    BY <1>1, <2>6, StepTo DEF Linked
  <2>7. CASE Loaded(d)
    BY <1>1, <2>7, StepTo DEF Loaded
  <2>8. CASE Unlinked(d)
    BY <1>1, <2>8, StepTo DEF Unlinked, CallOK
  <2>9. CASE Unlisted(d)
    BY <1>1, <2>9, StepTo DEF Unlisted
  <2>10. CASE Unindexed(d)
    BY <1>1, <2>10, StepTo DEF Unindexed
  <2>11. QED BY <1>4, <2>1, <2>2, <2>3, <2>4, <2>5, <2>6, <2>7, <2>8, <2>9, <2>10 DEF Continue
<1>5. CASE WriteFails(d)
  BY <1>1, <1>5, StepTo DEF WriteFails
<1>6. CASE Expire \/ UNCHANGED vars
  BY <1>6 DEF Expire, vars, callVars
<1>7. CASE Crash
  BY <1>1, <1>7 DEF Crash
<1>8. CASE Restart
  BY <1>8 DEF Restart, callVars
<1>9. QED BY <1>2, <1>3, <1>4, <1>5, <1>6, <1>7, <1>8, StepIs

\* What the steps may do to the histories: a call that is answered was loading its
\* document.
LEMMA HistoryMoves ==
  ASSUME BaseInv, [Next]_vars
  PROVE  /\ asked \subseteq asked' /\ (faults' = 0 => faults = 0)
         /\ \/ acked' = acked
            \/ \E c \in Clients : /\ Loaded(c) /\ pc[c] = "loading" /\ Uploading(c)
                                  /\ acked' = acked \cup {<<call[c].upload, call[c].id>>}
<1>1. asked \subseteq asked'
  BY StepIs DEF Call, Continue, StoreDocument, UpdateDocument, Begin, GetDocument, DeleteDocument,
         RecordUpload, UploadsSaved, Stored, DocumentSaved, MetadataSaved, IndexSaved, Linked, Loaded,
         Unlinked, Unlisted, Unindexed, WriteFails, Expire, Crash, Restart, vars, history
<1>2. faults' = 0 => faults = 0
  <2>1. faults' = faults \/ faults' = faults + 1
    BY StepIs DEF Call, Continue, StoreDocument, UpdateDocument, Begin, GetDocument, DeleteDocument,
           RecordUpload, UploadsSaved, Stored, DocumentSaved, MetadataSaved, IndexSaved, Linked, Loaded,
           Unlinked, Unlisted, Unindexed, WriteFails, Expire, Crash, Restart, vars
  <2>2. faults \in Nat
    BY DocumentStoreAssumption DEF BaseInv, TypeInv, TypeOK
  <2>3. QED BY <2>1, <2>2
<1>3. acked' = acked \/ \E c \in Clients : Loaded(c)
  BY StepIs DEF Call, Continue, StoreDocument, UpdateDocument, Begin, GetDocument, DeleteDocument,
         RecordUpload, UploadsSaved, DocumentSaved, MetadataSaved, IndexSaved, Linked,
         Unlinked, Unlisted, Unindexed, WriteFails, Expire, Crash, Restart, vars, history
<1>4. ASSUME NEW c \in Clients, Loaded(c)
      PROVE  \/ acked' = acked
             \/ /\ pc[c] = "loading" /\ Uploading(c)
                /\ acked' = acked \cup {<<call[c].upload, call[c].id>>}
  BY <1>4 DEF Loaded, BaseInv, CallOK, Uploading
<1>5. QED BY <1>1, <1>2, <1>3, <1>4

\* What they may do to memory while nothing fails: no record is lost, only what is to be
\* deleted leaves the search index, and what comes into the map was stored.
LEMMA MemoryMoves ==
  ASSUME BaseInv, [Next]_vars, faults' = 0
  PROVE  /\ uploads \subseteq uploads' /\ index \subseteq index' \cup asked'
         /\ \A i \in listed' : i \in listed \/ \E c \in Clients : pc[c] = "storing" /\ i = call[c].id
<1>1. faults \in Nat /\ phase = "up"
  BY HistoryMoves, DocumentStoreAssumption DEF BaseInv, TypeInv, TypeOK, DownOK
<1>2. ~Crash /\ ~Restart
  BY <1>1 DEF Crash, Restart
<1>3. uploads \subseteq uploads'
  BY <1>2, StepIs DEF Call, Continue, StoreDocument, UpdateDocument, Begin, GetDocument, DeleteDocument,
         RecordUpload, UploadsSaved, Stored, DocumentSaved, MetadataSaved, IndexSaved, Linked, Loaded,
         Unlinked, Unlisted, Unindexed, WriteFails, Expire, vars, memVars
<1>4. index \subseteq index' \cup asked'
  <2>1. index' = index \/ (\E c \in Clients : index' = index \cup {call[c].id})
            \/ \E c \in Clients : Unlisted(c)
    BY <1>2, StepIs DEF Call, Continue, StoreDocument, UpdateDocument, Begin, GetDocument, DeleteDocument,
           RecordUpload, UploadsSaved, Stored, DocumentSaved, MetadataSaved, IndexSaved, Linked, Loaded,
           Unlinked, Unindexed, WriteFails, Expire, vars, memVars
  <2>2. ASSUME NEW c \in Clients, Unlisted(c) PROVE index' = index \ {call[c].id} /\ call[c].id \in asked
    BY <2>2 DEF Unlisted, BaseInv, CallOK
  <2>3. QED BY <2>1, <2>2, HistoryMoves
<1>5. \A i \in listed' : i \in listed \/ \E c \in Clients : pc[c] = "storing" /\ i = call[c].id
  <2>1. listed' \subseteq listed \/ \E c \in Clients : DocumentSaved(c)
    BY <1>2, StepIs DEF Call, Continue, StoreDocument, UpdateDocument, Begin, GetDocument, DeleteDocument,
           RecordUpload, UploadsSaved, Stored, MetadataSaved, IndexSaved, Linked, Loaded,
           Unlinked, Unlisted, Unindexed, WriteFails, Expire, vars, memVars
  <2>2. QED BY <2>1 DEF DocumentSaved
<1>6. QED BY <1>3, <1>4, <1>5

\* The record of an upload, and the entry in the search index, come before the answer.
LEMMA FaultlessStep ==
  ASSUME BaseInv, FaultlessOK, [Next]_vars, BaseInv' PROVE FaultlessOK'
<1> SUFFICES ASSUME faults' = 0
             PROVE  /\ \A c \in Clients : RecordOK(c)' /\ IndexOK(c)'
                    /\ UploadsRecorded'
                    /\ Created' \subseteq index' \cup asked'
  BY DEF FaultlessOK
<1>1. /\ faults = 0 /\ asked \subseteq asked'
      /\ uploads \subseteq uploads' /\ index \subseteq index' \cup asked'
      /\ \A i \in listed' : i \in listed \/ \E c \in Clients : pc[c] = "storing" /\ i = call[c].id
  BY HistoryMoves, MemoryMoves
<1>2. /\ \A c \in Clients : RecordOK(c) /\ IndexOK(c)
      /\ acked \subseteq uploads
      /\ \A i \in listed : \E u \in Ids : <<u, i>> \in uploads
      /\ Created \subseteq index \cup asked
  BY <1>1 DEF FaultlessOK, UploadsRecorded
<1>3. ASSUME NEW c \in Clients PROVE RecordOK(c)'
  BY <1>1, <1>2, UploadMoves DEF RecordOK
<1>4. ASSUME NEW c \in Clients PROVE IndexOK(c)'
  <2>1. SUFFICES ASSUME Uploading(c)', call'[c].fresh, pc'[c] \in {"index", "linking", "loading"}
                 PROVE  call'[c].id \in index' \cup asked'
    BY DEF IndexOK
  <2>2. /\ Uploading(c) /\ call'[c] = call[c]
        /\ pc[c] \in {"index", "linking", "loading"} \/ MetadataSaved(c)
    BY <2>1, UploadMoves
  <2>3. CASE pc[c] \in {"index", "linking", "loading"}
    BY <1>1, <1>2, <2>1, <2>2, <2>3 DEF IndexOK
  <2>4. CASE MetadataSaved(c)
    BY <2>2, <2>4 DEF MetadataSaved
  <2>5. QED BY <2>2, <2>3, <2>4
<1>5. acked' \subseteq uploads' /\ Created' \subseteq index' \cup asked'
  <2>1. CASE acked' = acked
    BY <1>1, <1>2, <2>1 DEF Created
  <2>2. ASSUME NEW c \in Clients, pc[c] = "loading", Uploading(c),
               acked' = acked \cup {<<call[c].upload, call[c].id>>}
        PROVE  acked' \subseteq uploads' /\ Created' \subseteq index' \cup asked'
    <3>1. <<call[c].upload, call[c].id>> \in uploads
      BY <1>2, <2>2 DEF RecordOK
    <3>2. call[c].upload = call[c].id => call[c].id \in index \cup asked
      <4>1. call[c].fresh <=> call[c].id = call[c].upload
        BY <2>2 DEF BaseInv, CallOK
      <4>2. QED BY <1>2, <2>2, <4>1 DEF IndexOK
    <3>3. \A i \in Created' : i \in Created \/ (i = call[c].id /\ call[c].upload = call[c].id)
      BY <2>2 DEF Created
    <3>4. QED BY <1>1, <1>2, <2>2, <3>1, <3>2, <3>3
  <2>3. QED BY <2>1, <2>2, HistoryMoves
<1>6. ASSUME NEW i \in listed' PROVE \E u \in Ids : <<u, i>> \in uploads'
  <2>1. CASE i \in listed
    BY <1>1, <1>2, <2>1
  <2>2. ASSUME NEW c \in Clients, pc[c] = "storing", i = call[c].id
        PROVE  \E u \in Ids : <<u, i>> \in uploads'
    <3>1. /\ Uploading(c) /\ call[c].upload \in 1..calls
          /\ calls \in Nat /\ calls <= MaxCalls
      BY <2>2, CallType
    <3>2. call[c].upload \in Ids
      BY <3>1, DocumentStoreAssumption
    <3>3. <<call[c].upload, i>> \in uploads
      BY <1>2, <2>2, <3>1 DEF RecordOK
    <3>4. QED BY <1>1, <3>2, <3>3
  <2>3. QED BY <1>1, <2>1, <2>2
<1>7. QED BY <1>3, <1>4, <1>5, <1>6 DEF UploadsRecorded

-----------------------------------------------------------------------------
(* The documents that last while writes of metadata.json do not overlap      *)

\* metadata.json is written by one call at most, and no write has left its image.
OneWriter == rivals["metadata"] = {} /\ \A c, d \in Writers("metadata") : c = d

\* metadata.json is as it was, was written, or does not parse.
MetadataKept ==
    /\ rivals'["metadata"] = {}
    /\ \/ disk'["metadata"] \in {disk["metadata"], Torn}
       \/ \E d \in Writers("metadata") : disk'["metadata"] = snap["metadata"][d]

LEMMA WrittenKeeps ==
  ASSUME TypeInv, OneWriter, NEW c \in Clients, FileOf(pc[c]) \in Files, Written(c)
  PROVE  /\ MetadataKept
         /\ FileOf(pc[c]) = "metadata" => disk'["metadata"] = snap["metadata"][c]
<1>1. CASE FileOf(pc[c]) = "metadata"
  <2>1. Writers("metadata") = {c}
    BY <1>1 DEF OneWriter, Writers
  <2>2. rivals' = [rivals EXCEPT !["metadata"] = {}] /\ disk' = [disk EXCEPT !["metadata"] = snap["metadata"][c]]
    BY <1>1, <2>1 DEF Written, OneWriter
  <2>3. QED BY <2>1, <2>2 DEF MetadataKept, TypeInv, TypeOK
<1>2. CASE FileOf(pc[c]) # "metadata"
  <2>1. rivals'["metadata"] = rivals["metadata"] /\ disk'["metadata"] = disk["metadata"]
    <3> DEFINE g == FileOf(pc[c])
    <3>1. /\ rivals' = rivals \/ \E x : rivals' = [rivals EXCEPT ![g] = x]
          /\ disk' = disk \/ \E x : disk' = [disk EXCEPT ![g] = x]
      BY DEF Written
    <3> HIDE DEF g
    <3>2. QED BY <1>2, <3>1 DEF g, TypeInv, TypeOK
  <2>2. QED BY <1>2, <2>1 DEF MetadataKept, OneWriter
<1>3. QED BY <1>1, <1>2

LEMMA FailureKeeps ==
  ASSUME TypeInv, OneWriter, NEW c \in Clients, WriteFails(c)
  PROVE  MetadataKept
<1>1. CASE FileOf(pc[c]) = "metadata"
  <2>1. Writers("metadata") = {c}
    BY <1>1 DEF OneWriter, Writers
  <2>2. rivals' = [rivals EXCEPT !["metadata"] = {}] /\ disk' = [disk EXCEPT !["metadata"] = Torn]
    BY <1>1, <2>1 DEF WriteFails
  <2>3. QED BY <2>2 DEF MetadataKept, TypeInv, TypeOK
<1>2. CASE FileOf(pc[c]) # "metadata"
  <2> DEFINE g == FileOf(pc[c])
  <2>1. /\ rivals' = rivals \/ \E x : rivals' = [rivals EXCEPT ![g] = x]
        /\ disk' = disk \/ \E x : disk' = [disk EXCEPT ![g] = x]
    BY DEF WriteFails
  <2> HIDE DEF g
  <2>2. rivals'["metadata"] = rivals["metadata"] /\ disk'["metadata"] = disk["metadata"]
    BY <1>2, <2>1 DEF g, TypeInv, TypeOK
  <2>3. QED BY <2>2 DEF MetadataKept, OneWriter
<1>3. QED BY <1>1, <1>2

\* A step of a call keeps metadata.json so.
LEMMA ActionKeeps ==
  ASSUME BaseInv, OneWriter, NEW c \in Clients, Call(c) \/ Continue(c) \/ WriteFails(c)
  PROVE  MetadataKept
<1>1. CASE UNCHANGED <<disk, rivals>>
  BY <1>1 DEF MetadataKept, OneWriter
<1>2. CASE FileOf(pc[c]) \in Files /\ Written(c)
  BY <1>2, WrittenKeeps DEF BaseInv
<1>3. CASE WriteFails(c)
  BY <1>3, FailureKeeps DEF BaseInv
<1>4. CASE Call(c)
  BY <1>1, <1>4 DEF Call, StoreDocument, UpdateDocument, Begin, GetDocument, DeleteDocument, diskVars
<1>5. CASE Continue(c)
  <2>1. UNCHANGED <<disk, rivals>> \/ (pc[c] \in {"uploads", "metadata", "index", "linking", "unlisting", "unindexing"} /\ Written(c))
    BY <1>5 DEF Continue, RecordUpload, UploadsSaved, DocumentSaved, MetadataSaved, IndexSaved, Linked,
                Loaded, Unlinked, Unlisted, Unindexed, diskVars
  <2>2. QED BY <1>1, <1>2, <2>1 DEF FileOf
<1>6. QED BY <1>3, <1>4, <1>5

\* A call goes on to a step; when it begins to write metadata.json it writes the map as it
\* then is, and a write that overlaps is known.
Goes(c, step) ==
    /\ pc' = [pc EXCEPT ![c] = step]
    /\ \A d \in Clients \ {c} : snap'["metadata"][d] = snap["metadata"][d]
    /\ ~mixed' => ~mixed
    /\ FileOf(step) = "metadata" => /\ snap'["metadata"][c] = Image(listed', obj')
                                    /\ ~mixed' => Writers("metadata") \ {c} = {}

LEMMA AwaitGoes ==
  ASSUME TypeInv, NEW c \in Clients, NEW step, FileOf(step) # "metadata", Await(c, step)
  PROVE  Goes(c, step)
BY DEF TypeInv, Await, Goes

LEMMA SaveGoes ==
  ASSUME TypeInv, NEW c \in Clients, NEW step, NEW image, Save(c, step, image),
         FileOf(step) = "metadata" => image = Image(listed', obj')
  PROVE  Goes(c, step)
<1>1. /\ \A d \in Clients \ {c} : snap'["metadata"][d] = snap["metadata"][d]
      /\ FileOf(step) = "metadata" => snap'["metadata"][c] = image
  <2>1. snap'["metadata"] = [snap["metadata"] EXCEPT ![c] = IF "metadata" = FileOf(step) THEN image ELSE Missing]
    BY DEF Save
  <2>2. snap["metadata"] = [d \in Clients |-> snap["metadata"][d]]
    BY DEF TypeInv
  <2> DEFINE M == snap["metadata"]
             N == snap'["metadata"]
             v == IF "metadata" = FileOf(step) THEN image ELSE Missing
  <2>3. N = [M EXCEPT ![c] = v] /\ M = [d \in Clients |-> M[d]] /\ (FileOf(step) = "metadata" => v = image)
    BY <2>1, <2>2
  <2> HIDE DEF M, N, v
  <2>4. (\A d \in Clients \ {c} : N[d] = M[d]) /\ N[c] = v
    BY <2>3
  <2>5. QED BY <2>3, <2>4 DEF M, N, v
<1>2. QED BY <1>1 DEF Save, Goes

LEMMA ActionGoes ==
  ASSUME BaseInv, NEW c \in Clients, Call(c) \/ Continue(c) \/ WriteFails(c)
  PROVE  \E step \in Steps : Goes(c, step)
<1>1. TypeInv
  BY DEF BaseInv
<1>2. ASSUME NEW step \in {"recording", "storing", "loading", "idle", "unlinking"}, Await(c, step)
      PROVE  \E s \in Steps : Goes(c, s)
  BY <1>1, <1>2, AwaitGoes DEF FileOf
<1>3. ASSUME NEW step \in {"uploads", "index", "unindexing"}, NEW image, Save(c, step, image)
      PROVE  \E s \in Steps : Goes(c, s)
  BY <1>1, <1>3, SaveGoes DEF FileOf
<1>4. ASSUME NEW step \in {"metadata", "linking", "unlisting"}, Save(c, step, Image(listed', obj'))
      PROVE  \E s \in Steps : Goes(c, s)
  BY <1>1, <1>4, SaveGoes
<1>5. CASE Call(c)
  BY <1>2, <1>5 DEF Call, StoreDocument, UpdateDocument, Begin, GetDocument, DeleteDocument
<1>6. CASE RecordUpload(c) \/ MetadataSaved(c) \/ Unlisted(c)
  BY <1>3, <1>6 DEF RecordUpload, MetadataSaved, Unlisted
<1>7. CASE DocumentSaved(c)
  BY <1>4, <1>7 DEF DocumentSaved
<1>8. CASE Unlinked(c)
  BY <1>4, <1>8 DEF Unlinked
<1>9. ASSUME Stored(c), listed' = listed PROVE \E s \in Steps : Goes(c, s)
  BY <1>2, <1>4, <1>9 DEF Stored
<1>10. CASE UploadsSaved(c) \/ IndexSaved(c)
  BY <1>2, <1>9, <1>10 DEF UploadsSaved, IndexSaved
<1>11. CASE Linked(c) \/ Loaded(c) \/ Unindexed(c) \/ WriteFails(c)
  BY <1>2, <1>11 DEF Linked, Loaded, Unindexed, WriteFails
<1>12. QED BY <1>5, <1>6, <1>7, <1>8, <1>10, <1>11 DEF Continue

\* What the steps of calls do to the map: nothing leaves it that is not to be deleted.
LEMMA ListedKept ==
  ASSUME BaseInv, NEW c \in Clients, Call(c) \/ Continue(c) \/ WriteFails(c)
  PROVE  listed \subseteq listed' \cup asked' /\ phase = "up" /\ phase' = "up"
<1>1. listed \subseteq listed' \/ Unlinked(c)
  BY DEF Call, Continue, StoreDocument, UpdateDocument, Begin, GetDocument, DeleteDocument,
         RecordUpload, UploadsSaved, Stored, DocumentSaved, MetadataSaved, IndexSaved, Linked, Loaded,
         Unlisted, Unindexed, WriteFails, memVars
<1>2. Unlinked(c) => listed' = listed \ {call[c].id} /\ call[c].id \in asked /\ asked' = asked
  BY DEF Unlinked, BaseInv, CallOK, history
<1>3. phase' = phase /\ (phase = "up" \/ pc[c] # "idle")
  BY DEF Call, Continue, StoreDocument, UpdateDocument, Begin, GetDocument, DeleteDocument,
         RecordUpload, UploadsSaved, DocumentSaved, MetadataSaved, IndexSaved, Linked, Loaded,
         Unlinked, Unlisted, Unindexed, WriteFails, FileOf
<1>4. QED BY <1>1, <1>2, <1>3 DEF BaseInv, CallOK

\* An image of the map holds what is listed.
LEMMA MapHolds ==
  ASSUME BaseInv', NEW i \in listed' PROVE Holds(Image(listed', obj'), i)
<1>1. /\ calls' \in Nat /\ calls' <= MaxCalls /\ listed' \subseteq (1..calls') \cap (1..calls')
      /\ obj' \in [Ids -> Metas]
  BY DocumentStoreAssumption DEF BaseInv, TypeInv, TypeOK
<1> DEFINE n == calls'
           L == listed'
           O == obj'
<1>2. n \in Nat /\ n <= MaxCalls /\ L \subseteq (1..n) \cap (1..n) /\ O \in [Ids -> Metas]
  BY <1>1
<1> HIDE DEF n, L, O
<1>3. DOMAIN Image(L, O) = L /\ Image(L, O) # Missing
  BY <1>2, MapImage
<1>4. Holds(Image(L, O), i)
  BY <1>3 DEF Holds, L
<1>5. QED BY <1>4 DEF L, O

\* Who writes metadata.json after a step of a call.
LEMMA WritersAfter ==
  ASSUME TypeInv, NEW c \in Clients, NEW step \in Steps, Goes(c, step)
  PROVE  /\ FileOf(step) = "metadata" => Writers("metadata")' \subseteq Writers("metadata") \cup {c}
         /\ FileOf(step) # "metadata" => Writers("metadata")' \subseteq Writers("metadata") \ {c}
<1>1. pc'[c] = step /\ \A d \in Clients \ {c} : pc'[d] = pc[d]
  BY DEF Goes, TypeInv
<1>2. QED BY <1>1 DEF Writers

LEMMA CallLasts ==
  ASSUME BaseInv, BaseInv', OneWriter, ~mixed', NEW c \in Clients, Call(c) \/ Continue(c) \/ WriteFails(c)
  PROVE  /\ OneWriter' /\ ~mixed
         /\ \A i \in Ids \ asked' : Lasting(i) => Lasting(i)'
<1>1. MetadataKept /\ listed \subseteq listed' \cup asked' /\ phase = "up" /\ phase' = "up"
  BY ActionKeeps, ListedKept
<1>2. PICK step \in Steps : Goes(c, step)
  BY ActionGoes
<1>3. TypeInv /\ ~mixed
  BY <1>2 DEF BaseInv, Goes
<1>4. OneWriter'
  <2>1. CASE FileOf(step) = "metadata"
    <3>1. Writers("metadata")' \subseteq {c}
      BY <1>2, <1>3, <2>1, WritersAfter DEF Goes
    <3>2. QED BY <1>1, <3>1 DEF OneWriter, MetadataKept
  <2>2. CASE FileOf(step) # "metadata"
    BY <1>1, <1>2, <1>3, <2>2, WritersAfter DEF OneWriter, MetadataKept
  <2>3. QED BY <2>1, <2>2
<1>5. ASSUME NEW i \in Ids \ asked', Lasting(i) PROVE Lasting(i)'
  <2>1. i \in listed' /\ Holds(disk'["metadata"], i)
    BY <1>1, <1>5 DEF Lasting, MetadataKept, Holds
  <2>2. ASSUME NEW d \in Writers("metadata")' PROVE Holds(snap'["metadata"][d], i)
    <3>1. CASE d = c
      <4>1. FileOf(step) = "metadata"
        BY <1>2, <1>3, <2>2, <3>1, WritersAfter
      <4>2. snap'["metadata"][c] = Image(listed', obj')
        BY <1>2, <4>1 DEF Goes
      <4>3. Holds(Image(listed', obj'), i)
        BY <2>1, MapHolds
      <4>4. QED BY <3>1, <4>2, <4>3
    <3>2. CASE d # c
      <4>1. d \in Clients /\ d \in Writers("metadata")
        BY <1>2, <1>3, <3>2, WritersAfter DEF Writers
      <4>2. snap'["metadata"][d] = snap["metadata"][d]
        BY <1>2, <3>2, <4>1 DEF Goes
      <4>3. QED BY <1>5, <4>1, <4>2 DEF Lasting
    <3>3. QED BY <3>1, <3>2
  <2>3. QED BY <2>1, <2>2 DEF Lasting
<1>6. QED BY <1>3, <1>4, <1>5

LEMMA CrashLasts ==
  ASSUME BaseInv, OneWriter, Crash
  PROVE  /\ OneWriter' /\ mixed' = mixed
         /\ \A i \in Ids \ asked' : Lasting(i) => Lasting(i)'
<1>1. /\ phase = "up" /\ phase' = "down" /\ rivals' = [f \in Files |-> {}]
      /\ pc' = [c \in Clients |-> "idle"] /\ mixed' = mixed
  BY DEF Crash
<1>2. \A c \in Clients : FileOf(pc'[c]) # "metadata"
  BY <1>1 DEF FileOf
<1>3. Writers("metadata")' = {} /\ rivals'["metadata"] = {}
  BY <1>1, <1>2 DEF Writers
<1>4. disk'["metadata"] \in Remains("metadata")
  BY DEF Crash
<1>5. ASSUME NEW i, Lasting(i) PROVE Holds(disk'["metadata"], i)
  BY <1>4, <1>5 DEF Remains, Lasting, Holds, OneWriter
<1>6. QED BY <1>1, <1>3, <1>5 DEF OneWriter, Lasting

LEMMA RestartLasts ==
  ASSUME BaseInv, OneWriter, Restart
  PROVE  /\ OneWriter' /\ mixed' = mixed
         /\ \A i \in Ids \ asked' : Lasting(i) => Lasting(i)'
<1>1. UNCHANGED <<disk, rivals, pc, snap, mixed>> /\ phase = "down"
  BY DEF Restart, diskVars, callVars
<1>2. Writers("metadata")' = Writers("metadata")
  BY <1>1 DEF Writers
<1>3. ASSUME NEW i, Lasting(i), phase' = "up" PROVE i \in listed'
  BY <1>1, <1>3 DEF Restart, LoadMetadata, Lasting, Holds
<1>4. QED BY <1>1, <1>2, <1>3 DEF OneWriter, Lasting

\* Whatever lasts goes on to last.
LEMMA Lasts ==
  ASSUME BaseInv, BaseInv', OneWriter, [Next]_vars, ~mixed'
  PROVE  /\ OneWriter' /\ ~mixed
         /\ \A i \in Ids \ asked' : Lasting(i) => Lasting(i)'
<1>1. CASE Expire \/ UNCHANGED vars
  <2>1. UNCHANGED <<phase, listed, disk, rivals, pc, snap, mixed>>
    BY <1>1 DEF Expire, vars, memVars, diskVars, callVars
  <2>2. QED BY <2>1 DEF OneWriter, Lasting, Writers
<1>2. QED BY <1>1, StepIs, CallLasts, CrashLasts, RestartLasts

\* A write of metadata.json that goes on is of the same image.
LEMMA WritesOn ==
  ASSUME BaseInv, [Next]_vars, NEW d \in Clients, pc[d] = "metadata", pc'[d] = "metadata"
  PROVE  snap'["metadata"][d] = snap["metadata"][d] /\ listed \subseteq listed' \cup asked'
<1>1. TypeInv /\ phase = "up"
  BY DEF BaseInv, CallOK
<1>2. ASSUME NEW c \in Clients \ {d}, Call(c) \/ Continue(c) \/ WriteFails(c)
      PROVE  snap'["metadata"][d] = snap["metadata"][d] /\ listed \subseteq listed' \cup asked'
  BY <1>2, ActionGoes, ListedKept DEF Goes
<1>3. ~Call(d)
  BY DEF Call, StoreDocument, UpdateDocument, Begin, GetDocument, DeleteDocument
<1>4. ~Continue(d)
  <2>1. ~MetadataSaved(d)
    BY <1>1, StepTo DEF MetadataSaved
  <2>2. QED BY <2>1 DEF Continue, RecordUpload, UploadsSaved, DocumentSaved, IndexSaved, Linked,
                        Loaded, Unlinked, Unlisted, Unindexed
<1>5. ~WriteFails(d)
  BY <1>1, StepTo DEF WriteFails
<1>6. ~Crash /\ ~Restart
  BY <1>1 DEF Crash, Restart
<1>7. CASE Expire \/ UNCHANGED vars
  BY <1>7 DEF Expire, vars, memVars, callVars
<1>8. QED BY <1>2, <1>3, <1>4, <1>5, <1>6, <1>7, StepIs

\* A document lasts from the end of the write that brings it.
LEMMA OrderlyStep ==
  ASSUME BaseInv, OrderlyOK, [Next]_vars, BaseInv' PROVE OrderlyOK'
<1> SUFFICES ASSUME ~mixed'
             PROVE  /\ OneWriter'
                    /\ \A i \in Created' : i \in asked' \/ Lasting(i)'
                    /\ \A c \in Clients : Coming(c)' /\ Come(c)'
  BY DEF OrderlyOK, OneWriter
<1>1. ~mixed
  <2>1. ASSUME NEW c \in Clients, Call(c) \/ Continue(c) \/ WriteFails(c) PROVE ~mixed
    BY <2>1, ActionGoes DEF Goes
  <2>2. CASE Expire \/ Crash \/ Restart \/ UNCHANGED vars
    BY <2>2 DEF Expire, Crash, Restart, vars, callVars
  <2>3. QED BY <2>1, <2>2, StepIs
<1>2. /\ OneWriter
      /\ \A i \in Created : i \in asked \/ Lasting(i)
      /\ \A c \in Clients : Coming(c) /\ Come(c)
  BY <1>1 DEF OrderlyOK, OneWriter
<1>3. /\ OneWriter' /\ asked \subseteq asked'
      /\ \A i \in Ids \ asked' : Lasting(i) => Lasting(i)'
  BY <1>2, Lasts, HistoryMoves
<1>4. ASSUME NEW i \in Created' PROVE i \in asked' \/ Lasting(i)'
  <2>1. CASE i \in Created
    BY <1>2, <1>3, <2>1 DEF Created
  <2>2. CASE i \notin Created
    <3>1. PICK c \in Clients : /\ pc[c] = "loading" /\ Uploading(c)
                               /\ i = call[c].id /\ i = call[c].upload
      BY <1>4, <2>2, HistoryMoves DEF Created
    <3>2. call[c].fresh
      BY <3>1 DEF BaseInv, CallOK
    <3>3. i \in asked \/ Lasting(i)
      BY <1>2, <3>1, <3>2 DEF Come
    <3>4. QED BY <1>3, <1>4, <3>3 DEF Created
  <2>3. QED BY <2>1, <2>2
<1>5. ASSUME NEW c \in Clients PROVE Coming(c)'
  <2>1. SUFFICES ASSUME Uploading(c)', call'[c].fresh, pc'[c] = "metadata", call'[c].id \notin asked'
                 PROVE  call'[c].id \in listed' /\ Holds(snap'["metadata"][c], call'[c].id)
    BY DEF Coming
  <2>2. Uploading(c) /\ call'[c] = call[c] /\ (pc[c] = "metadata" \/ DocumentSaved(c))
    BY <2>1, UploadMoves
  <2>3. CASE DocumentSaved(c)
    <3>1. call'[c].id \in listed' /\ Save(c, "metadata", Image(listed', obj'))
      BY <2>2, <2>3 DEF DocumentSaved
    <3>2. Goes(c, "metadata")
      BY <3>1, SaveGoes DEF BaseInv
    <3>3. snap'["metadata"][c] = Image(listed', obj')
      BY <3>2 DEF Goes, FileOf
    <3>4. QED BY <3>1, <3>3, MapHolds
  <2>4. CASE pc[c] = "metadata"
    <3>1. call[c].id \in listed /\ Holds(snap["metadata"][c], call[c].id)
      BY <1>2, <1>3, <2>1, <2>2, <2>4 DEF Coming
    <3>2. QED BY <2>1, <2>2, <2>4, <3>1, WritesOn
  <2>5. QED BY <2>2, <2>3, <2>4
<1>6. ASSUME NEW c \in Clients PROVE Come(c)'
  <2>1. SUFFICES ASSUME Uploading(c)', call'[c].fresh, pc'[c] \in {"index", "linking", "loading"},
                        call'[c].id \notin asked'
                 PROVE  Lasting(call[c].id)' /\ call'[c] = call[c]
    BY DEF Come, Lasting
  <2>2. /\ Uploading(c) /\ call'[c] = call[c]
        /\ pc[c] \in {"index", "linking", "loading"} \/ MetadataSaved(c)
    BY <2>1, UploadMoves
  <2>3. call[c].id \in Ids \ asked'
    BY <2>1, <2>2, CallType DEF Uploading
  <2>4. CASE pc[c] \in {"index", "linking", "loading"}
    BY <1>2, <1>3, <2>1, <2>2, <2>3, <2>4 DEF Come
  <2>5. CASE MetadataSaved(c)
    <3>1. /\ pc[c] = "metadata" /\ Written(c) /\ Save(c, "index", index')
          /\ listed' = listed /\ TypeInv
      BY <2>5 DEF MetadataSaved, BaseInv
    <3>2. call[c].id \in listed /\ Holds(snap["metadata"][c], call[c].id)
      BY <1>2, <1>3, <2>1, <2>2, <3>1 DEF Coming
    <3>3. disk'["metadata"] = snap["metadata"][c]
      BY <1>2, <3>1, WrittenKeeps DEF FileOf
    <3>4. Goes(c, "index")
      BY <3>1, SaveGoes DEF FileOf
    <3>5. Writers("metadata")' = {}
      <4>1. Writers("metadata") \subseteq {c}
        BY <1>2, <3>1 DEF OneWriter, Writers, FileOf
      <4>2. QED BY <3>1, <3>4, <4>1, WritersAfter DEF FileOf
    <3>6. QED BY <2>2, <3>1, <3>2, <3>3, <3>5 DEF Lasting
  <2>6. QED BY <2>2, <2>4, <2>5
<1>7. QED BY <1>3, <1>4, <1>5, <1>6

-----------------------------------------------------------------------------
(* The theorems                                                              *)

LEMMA InitInv == Init => IInv
<1> SUFFICES ASSUME Init PROVE IInv
  OBVIOUS
<1>1. BaseInv
  BY InitBase
<1>2. FaultlessOK
  BY DEF Init, FaultlessOK, RecordOK, IndexOK, UploadsRecorded, Created, Uploading
<1>3. OrderlyOK
  <2>1. Writers("metadata") = {} /\ rivals["metadata"] = {} /\ Created = {}
    BY DEF Init, Writers, FileOf, Created
  <2>2. \A c \in Clients : ~Uploading(c)
    BY DEF Init, Uploading
  <2>3. QED BY <2>1, <2>2 DEF OrderlyOK, Coming, Come
<1>4. QED BY <1>1, <1>2, <1>3 DEF IInv

LEMMA InvStep == IInv /\ [Next]_vars => IInv'
BY BaseStep, FaultlessStep, OrderlyStep DEF IInv

LEMMA Invariance == Spec => []IInv
BY InitInv, InvStep, PTL DEF Spec

-----------------------------------------------------------------------------
(* Pages and the search                                                      *)

\* The number of members of K below k.
Below(K, k) == Cardinality({m \in K : m < k})

\* The members of a finite set of numbers are told apart by how many are below, from
\* none to all but one.
LEMMA Ranks ==
  ASSUME NEW K \in SUBSET Nat, IsFiniteSet(K)
  PROVE  /\ Cardinality(K) \in Nat
         /\ \A k \in K : Below(K, k) \in 0..(Cardinality(K) - 1)
         /\ \A j, k \in K : Below(K, j) = Below(K, k) => j = k
         /\ \A n \in 0..(Cardinality(K) - 1) : \E k \in K : Below(K, k) = n
<1>1. Cardinality(K) \in Nat
  BY FS_CardinalityType
<1>2. ASSUME NEW k \in K PROVE Below(K, k) \in 0..(Cardinality(K) - 1)
  <2> DEFINE below == {m \in K : m < k}
  <2>1. below \in SUBSET K /\ k \notin below
    OBVIOUS
  <2> HIDE DEF below
  <2>2. IsFiniteSet(below) /\ Cardinality(below) <= Cardinality(K) /\ Cardinality(below) # Cardinality(K)
    BY <2>1, FS_Subset
  <2>3. Cardinality(below) \in Nat
    BY <2>2, FS_CardinalityType
  <2>4. Cardinality(below) \in 0..(Cardinality(K) - 1)
    BY <1>1, <2>2, <2>3
  <2>5. QED BY <2>4 DEF Below, below
<1>3. ASSUME NEW j \in K, NEW k \in K, j < k PROVE Below(K, j) < Below(K, k)
  <2> DEFINE a == {m \in K : m < j}
             b == {m \in K : m < k}
  <2>1. a \in SUBSET b /\ j \in b /\ j \notin a /\ b \in SUBSET K
    <3>1. \A m \in K : m < j => m < k
      BY <1>3
    <3>2. a \in SUBSET b
      BY <3>1
    <3>3. j \in b /\ j \notin a /\ b \in SUBSET K
      BY <1>3
    <3>4. QED BY <3>2, <3>3
  <2> HIDE DEF a, b
  <2>2. IsFiniteSet(b)
    BY <2>1, FS_Subset
  <2>3. IsFiniteSet(a) /\ Cardinality(a) <= Cardinality(b) /\ Cardinality(a) # Cardinality(b)
    BY <2>1, <2>2, FS_Subset
  <2>4. Cardinality(a) \in Nat /\ Cardinality(b) \in Nat
    BY <2>2, <2>3, FS_CardinalityType
  <2>5. Cardinality(a) < Cardinality(b)
    BY <2>3, <2>4
  <2>6. QED BY <2>5 DEF Below, a, b
<1>4. ASSUME NEW j \in K, NEW k \in K, Below(K, j) = Below(K, k) PROVE j = k
  <2>1. Below(K, j) \in Int /\ Below(K, k) \in Int
    BY <1>1, <1>2
  <2>2. ~(j < k) /\ ~(k < j)
    BY <1>3, <1>4, <2>1
  <2>3. QED BY <2>2
<1>5. ASSUME NEW n \in 0..(Cardinality(K) - 1) PROVE \E k \in K : Below(K, k) = n
  <2> DEFINE rank == [k \in K |-> Below(K, k)]
             N == 0..(Cardinality(K) - 1)
  <2>1. rank \in [K -> N]
    BY <1>2
  <2>2. \A j, k \in K : rank[j] = rank[k] => j = k
    BY <1>4
  <2>3. rank \in Injection(K, N)
    BY <2>1, <2>2 DEF Injection, IsInjective
  <2>4. IsFiniteSet(N) /\ Cardinality(N) = Cardinality(K)
    <3>1. Cardinality(K) - 1 \in Int /\ 0 \in Int
      BY <1>1
    <3>2. IsFiniteSet(N) /\ Cardinality(N) = IF 0 > Cardinality(K) - 1 THEN 0 ELSE (Cardinality(K) - 1) - 0 + 1
      BY <3>1, FS_Interval
    <3>3. QED BY <1>1, <3>2
  <2> HIDE DEF N, rank
  <2>5. rank \in Surjection(K, N)
    BY <2>3, <2>4, FS_Injection
  <2>6. n \in N
    BY DEF N
  <2>7. \E k \in K : rank[k] = n
    BY <2>5, <2>6 DEF Surjection
  <2>8. QED BY <2>7 DEF rank
<1>6. QED BY <1>1, <1>2, <1>4, <1>5

\* The listing has every document once.
LEMMA OrderIs ==
  ASSUME IsFiniteSet(listed)
  PROVE  /\ Cardinality(listed) \in Nat
         /\ Order \in [1..Cardinality(listed) -> listed]
         /\ Len(Order) = Cardinality(listed)
         /\ \A a, b \in 1..Cardinality(listed) : Order[a] = Order[b] => a = b
         /\ \A i \in listed : \E a \in 1..Cardinality(listed) : Order[a] = i
<1> DEFINE N == Cardinality(listed)
<1>1. N \in Nat /\ ExistsBijection(1..N, listed)
  BY FS_CardinalityType
<1>2. PICK g : g \in Bijection(1..N, listed)
  BY <1>1 DEF ExistsBijection
<1>3. g \in [1..N -> listed] /\ IsInjective(g)
  BY <1>2 DEF Bijection, Injection
<1>4. Order \in [1..N -> listed] /\ IsInjective(Order)
  BY <1>3 DEF Order, SetToSeq
<1> HIDE DEF N
<1>5. \A a, b \in 1..N : Order[a] = Order[b] => a = b
  BY <1>4 DEF IsInjective
<1>6. Order \in Surjection(1..N, listed)
  <2>1. Order \in Injection(1..N, listed)
    BY <1>4 DEF Injection
  <2>2. IsFiniteSet(1..N) /\ Cardinality(1..N) = N
    <3>1. 1 \in Int /\ N \in Int
      BY <1>1
    <3>2. IsFiniteSet(1..N) /\ Cardinality(1..N) = IF 1 > N THEN 0 ELSE N - 1 + 1
      BY <3>1, FS_Interval
    <3>3. QED BY <1>1, <3>2
  <2>3. Cardinality(1..N) = Cardinality(listed)
    BY <2>2 DEF N
  <2>4. QED BY <2>1, <2>3, FS_Injection
<1>7. \A i \in listed : \E a \in 1..N : Order[a] = i
  BY <1>6 DEF Surjection
<1>8. Len(Order) = N
  BY <1>1, <1>4
<1>9. QED BY <1>1, <1>4, <1>5, <1>7, <1>8 DEF N

\* A page is the part of the listing from its offset to its limit or to the end.
LEMMA PageIs ==
  ASSUME IsFiniteSet(listed), NEW offset \in Nat, NEW limit \in Nat
  PROVE  /\ DOMAIN Page(offset, limit) =
                {n \in 1..limit : offset + n \in 1..Cardinality(listed)}
         /\ \A n \in DOMAIN Page(offset, limit) : Page(offset, limit)[n] = Order[offset + n]
<1> DEFINE N   == Cardinality(listed)
           end == IF offset + limit < N THEN offset + limit ELSE N
           pg  == SubSeq(Order, offset + 1, end)
<1>1. N \in Nat /\ Order \in [1..N -> listed] /\ Len(Order) = N
  BY OrderIs
<1>2. Page(offset, limit) = pg
  BY <1>1 DEF Page
<1> HIDE DEF N
<1>3. end \in Nat /\ end <= N /\ offset + 1 \in Nat /\ offset + 1 >= 1
  BY <1>1
<1>4. \A n \in 1..(end - (offset + 1) + 1) : (offset + 1) + n - 1 = offset + n
  BY <1>3
<1>5. /\ pg \in Seq(listed)
      /\ Len(pg) = IF offset + 1 <= end THEN end - (offset + 1) + 1 ELSE 0
      /\ \A n \in 1..(end - (offset + 1) + 1) : pg[n] = Order[(offset + 1) + n - 1]
  <2> HIDE DEF pg
  <2>1. \A n \in (offset + 1)..end : Order[n] \in listed
    BY <1>1, <1>3
  <2>2. QED
    <3> DEFINE e == end
    <3>1. e \in Int /\ offset + 1 \in Int /\ \A n \in (offset + 1)..e : Order[n] \in listed
      BY <1>3, <2>1
    <3>2. pg = SubSeq(Order, offset + 1, e)
      BY DEF pg
    <3> HIDE DEF e
    <3>3. /\ SubSeq(Order, offset + 1, e) \in Seq(listed)
          /\ Len(SubSeq(Order, offset + 1, e)) = IF offset + 1 <= e THEN e - (offset + 1) + 1 ELSE 0
          /\ \A n \in 1..(e - (offset + 1) + 1) :
                 SubSeq(Order, offset + 1, e)[n] = Order[(offset + 1) + n - 1]
      BY <3>1, SubSeqProperties
    <3>4. QED BY <3>2, <3>3 DEF e
<1> HIDE DEF pg
<1>6. DOMAIN pg = 1..(IF offset + 1 <= end THEN end - (offset + 1) + 1 ELSE 0)
  BY <1>5, LenProperties
<1> HIDE DEF end
<1>7. DOMAIN pg = {n \in 1..limit : offset + n \in 1..N}
  BY <1>1, <1>3, <1>6 DEF end
<1>8. \A n \in DOMAIN pg : pg[n] = Order[offset + n]
  BY <1>3, <1>4, <1>5, <1>6
<1>9. QED BY <1>2, <1>7, <1>8 DEF N

\* What is left of a page are the documents in it that pass, in its order.
LEMMA LeftIs ==
  ASSUME IsFiniteSet(listed), NEW P, NEW offset \in Nat, NEW limit \in Nat
  PROVE  LET page == Page(offset, limit)
             kept == Passing(page, P)
             left == ListDocuments(P, offset, limit)
         IN  /\ \A n \in DOMAIN left : \E k \in kept : Below(kept, k) = n - 1 /\ left[n] = page[k]
             /\ \A k \in kept : \E n \in DOMAIN left : Below(kept, k) = n - 1 /\ left[n] = page[k]
             /\ \A j, k \in kept : Below(kept, j) = Below(kept, k) => j = k
             /\ DOMAIN left \in SUBSET Nat
<1> DEFINE page == Page(offset, limit)
           kept == Passing(page, P)
           left == ListDocuments(P, offset, limit)
           N    == Cardinality(kept)
<1>1. kept \in SUBSET (1..limit)
  <2>1. DOMAIN page \in SUBSET (1..limit)
    BY PageIs
  <2>2. kept \in SUBSET DOMAIN page
    BY DEF Passing
  <2> HIDE DEF page, kept
  <2>3. QED BY <2>1, <2>2
<1>2. IsFiniteSet(1..limit)
  BY FS_Interval
<1>3. kept \in SUBSET Nat /\ IsFiniteSet(kept)
  <2> HIDE DEF kept, page
  <2>1. IsFiniteSet(kept)
    BY <1>1, <1>2, FS_Subset
  <2>2. QED BY <1>1, <2>1
<1>4. left = [n \in 1..N |-> page[CHOOSE k \in kept : Below(kept, k) = n - 1]]
  BY DEF ListDocuments, Below
<1> HIDE DEF page, kept, left
<1>5. /\ N \in Nat
      /\ \A k \in kept : Below(kept, k) \in 0..(N - 1)
      /\ \A j, k \in kept : Below(kept, j) = Below(kept, k) => j = k
      /\ \A n \in 0..(N - 1) : \E k \in kept : Below(kept, k) = n
  BY <1>3, Ranks
<1> HIDE DEF N
<1>6. ASSUME NEW n \in DOMAIN left
      PROVE  \E k \in kept : Below(kept, k) = n - 1 /\ left[n] = page[k]
  <2>1. n \in 1..N /\ n - 1 \in 0..(N - 1)
    BY <1>4, <1>5
  <2>2. \E k \in kept : Below(kept, k) = n - 1
    BY <1>5, <2>1
  <2> DEFINE h == CHOOSE k \in kept : Below(kept, k) = n - 1
  <2>3. h \in kept /\ Below(kept, h) = n - 1
    BY <2>2
  <2>4. left[n] = page[h]
    BY <1>4, <2>1
  <2>5. QED BY <2>3, <2>4
<1>7. ASSUME NEW k \in kept
      PROVE  \E n \in DOMAIN left : Below(kept, k) = n - 1 /\ left[n] = page[k]
  <2> DEFINE n == Below(kept, k) + 1
  <2>1. n \in 1..N /\ Below(kept, k) = n - 1
    BY <1>5
  <2>2. n \in DOMAIN left
    BY <1>4, <2>1
  <2> HIDE DEF n
  <2>3. PICK h \in kept : Below(kept, h) = n - 1 /\ left[n] = page[h]
    BY <1>6, <2>2
  <2>4. h = k
    BY <1>5, <2>1, <2>3
  <2>5. QED BY <2>1, <2>2, <2>3, <2>4
<1>8. DOMAIN left \in SUBSET Nat
  BY <1>4, <1>5
<1>9. QED BY <1>5, <1>6, <1>7, <1>8 DEF page, kept, left

\* Every place of the listing is on one page.
LEMMA PageOf ==
  ASSUME NEW a \in Nat \ {0}, NEW limit \in Nat \ {0}
  PROVE  \E k \in 1..a, n \in 1..limit : a = (k - 1) * limit + n
<1> DEFINE q == (a - 1) \div limit
           r == (a - 1) % limit
<1>1. q \in Nat /\ r \in 0..(limit - 1) /\ a - 1 = limit * q + r
  OBVIOUS
<1> HIDE DEF q, r
<1>2. q <= limit * q
  BY <1>1
<1>3. q + 1 \in 1..a /\ r + 1 \in 1..limit /\ (q + 1) - 1 = q
  BY <1>1, <1>2
<1>4. a = q * limit + (r + 1)
  BY <1>1
<1>5. QED BY <1>3, <1>4

LEMMA OnePageOf ==
  ASSUME NEW limit \in Nat, NEW k \in Nat, NEW l \in Nat, NEW m \in 1..limit, NEW n \in 1..limit,
         k * limit + m = l * limit + n
  PROVE  k = l /\ m = n
<1>1. ASSUME NEW x \in Nat, NEW y \in Nat, x < y PROVE x * limit + limit <= y * limit
  <2>1. PICK d \in Nat : y = x + 1 + d
    BY <1>1
  <2>2. y * limit = x * limit + limit + d * limit /\ d * limit \in Nat
    BY <2>1
  <2>3. x * limit \in Nat
    OBVIOUS
  <2>4. QED BY <2>2, <2>3
<1>2. k * limit \in Nat /\ l * limit \in Nat
  OBVIOUS
<1>3. ~(k < l)
  BY <1>1, <1>2
<1>4. ~(l < k)
  BY <1>1, <1>2
<1>5. k = l
  BY <1>3, <1>4
<1>6. QED BY <1>2, <1>5

\* The place n of a page k that the nth document left of it, m - 1 of which pass before
\* it, had.
LEMMA LeftFrom ==
  ASSUME IsFiniteSet(listed), NEW P, NEW limit \in Nat, NEW k \in Nat \ {0}
  PROVE  LET offset == (k - 1) * limit
             kept   == Passing(Page(offset, limit), P)
             left   == ListDocuments(P, offset, limit)
         IN  /\ \A m \in DOMAIN left : \E n \in 1..limit :
                    /\ offset + n \in 1..Cardinality(listed)
                    /\ left[m] = Order[offset + n] /\ obj[Order[offset + n]].content \in P
                    /\ Below(kept, n) = m - 1
             /\ \A n \in 1..limit :
                    /\ offset + n \in 1..Cardinality(listed)
                    /\ obj[Order[offset + n]].content \in P
                    => \E m \in DOMAIN left : left[m] = Order[offset + n]
             /\ DOMAIN left \in SUBSET Nat
<1> DEFINE offset == (k - 1) * limit
           page   == Page(offset, limit)
           kept   == Passing(page, P)
           left   == ListDocuments(P, offset, limit)
<1>1. offset \in Nat
  OBVIOUS
<1> HIDE DEF offset
<1>2. /\ DOMAIN page = {n \in 1..limit : offset + n \in 1..Cardinality(listed)}
      /\ \A n \in DOMAIN page : page[n] = Order[offset + n]
  BY <1>1, PageIs
<1>3. /\ \A m \in DOMAIN left : \E n \in kept : Below(kept, n) = m - 1 /\ left[m] = page[n]
      /\ \A n \in kept : \E m \in DOMAIN left : Below(kept, n) = m - 1 /\ left[m] = page[n]
      /\ DOMAIN left \in SUBSET Nat
  BY <1>1, LeftIs
<1>4. kept = {n \in DOMAIN page : obj[page[n]].content \in P}
  BY DEF Passing
<1> HIDE DEF page, kept, left
<1>5. ASSUME NEW n \in kept
      PROVE  /\ n \in 1..limit /\ offset + n \in 1..Cardinality(listed)
             /\ page[n] = Order[offset + n] /\ obj[Order[offset + n]].content \in P
  BY <1>2, <1>4
<1>6. ASSUME NEW n \in 1..limit, offset + n \in 1..Cardinality(listed),
             obj[Order[offset + n]].content \in P
      PROVE  n \in kept /\ page[n] = Order[offset + n]
  BY <1>2, <1>4, <1>6
<1>7. ASSUME NEW m \in DOMAIN left
      PROVE  \E n \in 1..limit :
                 /\ offset + n \in 1..Cardinality(listed)
                 /\ left[m] = Order[offset + n] /\ obj[Order[offset + n]].content \in P
                 /\ Below(kept, n) = m - 1
  <2>1. PICK n \in kept : Below(kept, n) = m - 1 /\ left[m] = page[n]
    BY <1>3
  <2>2. QED BY <1>5, <2>1
<1>8. ASSUME NEW n \in 1..limit, offset + n \in 1..Cardinality(listed),
             obj[Order[offset + n]].content \in P
      PROVE  \E m \in DOMAIN left : left[m] = Order[offset + n]
  BY <1>3, <1>6, <1>8
<1>9. QED BY <1>3, <1>7, <1>8 DEF offset, page, kept, left

\* The pages of a filtered listing agree with the search.
LEMMA SearchIsPaged ==
  ASSUME IsFiniteSet(listed), NEW P, NEW limit \in Nat \ {0}
  PROVE  PagesAgree(P, limit)
<1> DEFINE N      == Cardinality(listed)
           kept   == [k \in 1..N |-> Passing(Page((k - 1) * limit, limit), P)]
           pages  == [k \in 1..N |-> ListDocuments(P, (k - 1) * limit, limit)]
           places == UNION {{k} \X DOMAIN pages[k] : k \in DOMAIN pages}
<1>1. /\ N \in Nat /\ Order \in [1..N -> listed]
      /\ \A a, b \in 1..N : Order[a] = Order[b] => a = b
      /\ \A i \in listed : \E a \in 1..N : Order[a] = i
  BY OrderIs
<1>2. ASSUME NEW k \in 1..N
      PROVE  /\ \A m \in DOMAIN pages[k] : \E n \in 1..limit :
                    /\ (k - 1) * limit + n \in 1..N
                    /\ pages[k][m] = Order[(k - 1) * limit + n]
                    /\ obj[Order[(k - 1) * limit + n]].content \in P
                    /\ Below(kept[k], n) = m - 1
             /\ \A n \in 1..limit :
                    /\ (k - 1) * limit + n \in 1..N
                    /\ obj[Order[(k - 1) * limit + n]].content \in P
                    => \E m \in DOMAIN pages[k] : pages[k][m] = Order[(k - 1) * limit + n]
             /\ DOMAIN pages[k] \in SUBSET Nat
  <2>1. k \in Nat \ {0} /\ limit \in Nat
    BY <1>1
  <2>2. /\ pages[k] = ListDocuments(P, (k - 1) * limit, limit)
        /\ kept[k] = Passing(Page((k - 1) * limit, limit), P)
    OBVIOUS
  <2> HIDE DEF pages, kept, N, places
  <2> DEFINE offset == (k - 1) * limit
             before == Passing(Page(offset, limit), P)
             left   == ListDocuments(P, offset, limit)
  <2>3. /\ \A m \in DOMAIN left : \E n \in 1..limit :
               /\ offset + n \in 1..Cardinality(listed)
               /\ left[m] = Order[offset + n] /\ obj[Order[offset + n]].content \in P
               /\ Below(before, n) = m - 1
        /\ \A n \in 1..limit :
               /\ offset + n \in 1..Cardinality(listed)
               /\ obj[Order[offset + n]].content \in P
               => \E m \in DOMAIN left : left[m] = Order[offset + n]
        /\ DOMAIN left \in SUBSET Nat
    BY <2>1, LeftFrom
  <2>4. pages[k] = left /\ kept[k] = before /\ N = Cardinality(listed)
    BY <2>2 DEF N
  <2> HIDE DEF before, left
  <2>5. QED BY <2>3, <2>4
<1>3. ASSUME NEW p \in places
      PROVE  p = <<p[1], p[2]>> /\ p[1] \in 1..N /\ p[2] \in DOMAIN pages[p[1]]
  <2>1. DOMAIN pages = 1..N
    OBVIOUS
  <2>2. PICK k \in 1..N : p \in {k} \X DOMAIN pages[k]
    BY <2>1
  <2> HIDE DEF pages, places
  <2>3. QED BY <2>2
<1>4. ASSUME NEW k \in 1..N, NEW m \in DOMAIN pages[k] PROVE <<k, m>> \in places
  <2>1. k \in DOMAIN pages
    OBVIOUS
  <2>2. <<k, m>> \in {k} \X DOMAIN pages[k]
    OBVIOUS
  <2> HIDE DEF pages
  <2>3. QED BY <2>1, <2>2
<1> HIDE DEF N, kept, pages, places
<1>5. ASSUME NEW p \in places
      PROVE  \E n \in 1..limit :
                 /\ (p[1] - 1) * limit + n \in 1..N
                 /\ pages[p[1]][p[2]] = Order[(p[1] - 1) * limit + n]
                 /\ obj[Order[(p[1] - 1) * limit + n]].content \in P
                 /\ Below(kept[p[1]], n) = p[2] - 1
  BY <1>2, <1>3
<1>6. ASSUME NEW p \in places PROVE pages[p[1]][p[2]] \in SearchDocuments(P)
  <2>1. PICK a \in 1..N : pages[p[1]][p[2]] = Order[a] /\ obj[Order[a]].content \in P
    BY <1>5
  <2>2. QED BY <1>1, <2>1 DEF SearchDocuments
<1>7. ASSUME NEW i \in SearchDocuments(P) PROVE \E p \in places : i = pages[p[1]][p[2]]
  <2>1. i \in listed /\ obj[i].content \in P
    BY DEF SearchDocuments
  <2>2. PICK a \in 1..N : Order[a] = i
    BY <1>1, <2>1
  <2>3. a \in Nat \ {0}
    BY <1>1
  <2>4. PICK k \in 1..a, n \in 1..limit : a = (k - 1) * limit + n
    BY <2>3, PageOf
  <2>5. k \in 1..N
    BY <1>1, <2>4
  <2>6. PICK m \in DOMAIN pages[k] : pages[k][m] = Order[(k - 1) * limit + n]
    BY <1>2, <2>1, <2>2, <2>4, <2>5
  <2>7. <<k, m>> \in places /\ pages[<<k, m>>[1]][<<k, m>>[2]] = i
    BY <1>4, <2>2, <2>4, <2>5, <2>6
  <2>8. QED BY <2>7
<1>8. ASSUME NEW p \in places, NEW q \in places, pages[p[1]][p[2]] = pages[q[1]][q[2]] PROVE p = q
  <2>1. PICK n \in 1..limit : /\ (p[1] - 1) * limit + n \in 1..N
                              /\ pages[p[1]][p[2]] = Order[(p[1] - 1) * limit + n]
                              /\ Below(kept[p[1]], n) = p[2] - 1
    BY <1>5
  <2>2. PICK m \in 1..limit : /\ (q[1] - 1) * limit + m \in 1..N
                              /\ pages[q[1]][q[2]] = Order[(q[1] - 1) * limit + m]
                              /\ Below(kept[q[1]], m) = q[2] - 1
    BY <1>5
  <2>3. (p[1] - 1) * limit + n = (q[1] - 1) * limit + m
    <3> DEFINE a == (p[1] - 1) * limit + n
               b == (q[1] - 1) * limit + m
    <3>1. a \in 1..N /\ b \in 1..N /\ Order[a] = Order[b]
      BY <1>8, <2>1, <2>2
    <3> HIDE DEF a, b
    <3>2. a = b
      BY <1>1, <3>1
    <3>3. QED BY <3>2 DEF a, b
  <2>4. p[1] \in 1..N /\ q[1] \in 1..N /\ p[1] - 1 \in Nat /\ q[1] - 1 \in Nat
    BY <1>1, <1>3
  <2> DEFINE k == p[1] - 1
             l == q[1] - 1
  <2>5. k \in Nat /\ l \in Nat /\ k * limit + n = l * limit + m
    BY <2>3, <2>4
  <2> HIDE DEF k, l
  <2>6. k = l /\ n = m
    BY <2>5, OnePageOf
  <2>7. p[1] = q[1]
    BY <1>1, <2>4, <2>6 DEF k, l
  <2>8. p[2] - 1 = q[2] - 1
    BY <2>1, <2>2, <2>6, <2>7
  <2>9. p[2] \in Nat /\ q[2] \in Nat
    BY <1>2, <1>3
  <2>10. p[2] = q[2]
    BY <2>8, <2>9
  <2>11. QED BY <1>3, <2>7, <2>10
<1>9. {pages[p[1]][p[2]] : p \in places} = SearchDocuments(P)
  BY <1>6, <1>7
<1>10. QED BY <1>8, <1>9 DEF PagesAgree, N, pages, places

-----------------------------------------------------------------------------
(* The theorems                                                              *)

\* The map of documents, the files and the upload records agree with each other: what
\* is listed can be read unless its deletion has begun, however the calls interleave,
\* writes fail and the process ends (initialize, storeDocument 199-310).
THEOREM StoreCorrect == Spec => []StoreIsConsistent
<1>1. IInv => StoreIsConsistent
  BY DEF IInv, BaseInv, TypeInv, StoreIsConsistent
<1>2. QED BY <1>1, Invariance, PTL

\* A document whose creation was answered stays listed through any restart until its
\* deletion begins, as long as no two writes of metadata.json have overlapped (541),
\* and stays in the search index while nothing has failed.
THEOREM CreatedCorrect == Spec => []CreatedAreKept
<1>1. IInv => CreatedAreKept
  BY DEF IInv, FaultlessOK, OrderlyOK, Lasting, CreatedAreKept
<1>2. QED BY <1>1, Invariance, PTL

\* Until a fault strikes the history every call that was answered has its upload record,
\* and no document is listed before it has one (upload-history-manager.ts 38-64).
THEOREM RecordsCorrect == Spec => []UploadsRecorded
<1>1. IInv => UploadsRecorded
  BY DEF IInv, FaultlessOK, UploadsRecorded
<1>2. QED BY <1>1, Invariance, PTL

\* Whatever was stored, deleted or lost before, the pages of a listing, each filtered
\* after it was cut, together hold what the search with the same filter finds, each
\* document once, for any filter and page size (396-424, 359-394).
THEOREM PagesCorrect == Spec => []PagesMatchSearch
<1>1. ASSUME IInv PROVE PagesMatchSearch
  <2>1. IsFiniteSet(listed)
    <3>1. listed \subseteq 1..calls /\ calls \in Int
      BY <1>1 DEF IInv, BaseInv, TypeInv, TypeOK
    <3>2. IsFiniteSet(1..calls)
      BY <3>1, FS_Interval
    <3>3. QED BY <3>1, <3>2, FS_Subset
  <2>2. ASSUME NEW limit \in 1..MaxCalls PROVE limit \in Nat \ {0}
    BY DocumentStoreAssumption
  <2>3. QED BY <2>1, <2>2, SearchIsPaged DEF PagesMatchSearch
<1>2. QED BY <1>1, Invariance, PTL
=============================================================================
