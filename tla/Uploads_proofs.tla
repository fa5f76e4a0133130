----------------------------- MODULE Uploads_proofs -----------------------------
(***************************************************************************)
(* Theorems about module Uploads, for any number of requests and names.    *)
(***************************************************************************)
EXTENDS Uploads, TLAPS

USE ClockAssumption, NoneAssumption, SenderAssumption

(* Every step keeps the types. *)
LEMMA TypeStep == TypeOK /\ Inv /\ [Next]_vars => TypeOK'
<1> SUFFICES ASSUME TypeOK, Inv, [Next]_vars PROVE TypeOK'
  OBVIOUS
<1> USE DEF TypeOK, Goto, storage
<1>1. ASSUME NEW s \in Senders, Upload(s) \/ BucketExists(s) \/ MakeBucket(s) PROVE TypeOK'
  BY <1>1 DEF Upload, BucketExists, MakeBucket
<1>2. ASSUME NEW s \in Senders, Stamp(s) PROVE TypeOK'
  BY <1>2 DEF Stamp
<1>3. ASSUME NEW s \in Senders, PutObject(s) \/ PutObjectFails(s) \/ PutLate(s) PROVE TypeOK'
  BY <1>3 DEF PutObject, PutObjectFails, PutLate
<1>4. ASSUME NEW r \in Readers, ReaderStep(r) PROVE TypeOK'
  <2>1. CASE GetFile(r)
    BY <2>1 DEF GetFile
  <2>2. CASE Stat(r)
    <3>0. key[r] \in Times
      BY <2>2 DEF Stat, Inv, ReaderOK
    <3>1. header' \in [Readers -> Senders \cup {None}]
      BY <2>2, <3>0 DEF Stat
    <3> QED BY <2>2, <3>1 DEF Stat
  <2>3. CASE Copy(r)
    <3>0. key[r] \in Times
      BY <2>3 DEF Copy, Inv, ReaderOK
    <3>1. content' \in [Readers -> Senders \cup {None}]
      BY <2>3, <3>0 DEF Copy
    <3> QED BY <2>3, <3>1 DEF Copy
  <2>4. CASE Fail(r)
    BY <2>4 DEF Fail
  <2> QED BY <1>4, <2>1, <2>2, <2>3, <2>4 DEF ReaderStep
<1>5. ASSUME NEW s \in Senders, Fail(s) PROVE TypeOK'
  BY <1>5 DEF Fail
<1>6. CASE Tick
  BY <1>6 DEF Tick
<1>7. CASE UNCHANGED vars
  BY <1>7 DEF vars
<1> QED BY <1>1, <1>2, <1>3, <1>4, <1>5, <1>6, <1>7 DEF Next, SenderStep

(* What a step that stores nothing must keep: it is of one request q, which  *)
(* is not answered with a new name, and the files stay where they are.     *)
Quiet(q) ==
  /\ objects' = objects /\ answer' = answer
  /\ bucket => bucket'
  /\ \A p \in (Senders \cup Readers) \ {q} : pc'[p] = pc[p] /\ key'[p] = key[p]
  /\ q \in Senders => pc[q] # "answered" /\ header' = header /\ content' = content
  /\ \A r \in Readers \ {q} : header'[r] = header[r] /\ content'[r] = content[r]

(* Such a step need only be checked for its request. *)
LEMMA QuietKeeps ==
  ASSUME TypeOK, Inv, NEW q \in Senders \cup Readers, Quiet(q),
         q \in Senders => /\ SenderOK(q)'
                          /\ pc'[q] \in {"stamp", "put", "underway", "answered"} => bucket',
         q \in Readers => /\ ReaderOK(q)'
                          /\ pc'[q] = "answered" => header'[q] \in Namesakes(key[q]) /\ content'[q] \in Namesakes(key[q])
                          /\ pc[q] # "idle" => key'[q] = key[q]
                          /\ pc'[q] = "answered" => pc[q] # "idle"
  PROVE  Inv'
<1>1. \A t \in Times, s \in Senders : s \in Namesakes(t) => s \in Namesakes(t)'
  BY DEF Quiet, Namesakes
<1>2. OwnFile'
  <2>1. ASSUME NEW s \in Senders, answer[s] # None
        PROVE  objects[answer[s]] = s \/ objects[answer[s]] \in Namesakes(answer[s])' \ {s}
    <3>1. answer[s] \in Times
      BY <2>1 DEF TypeOK
    <3>2. objects[answer[s]] = s \/ objects[answer[s]] \in Namesakes(answer[s]) \ {s}
      BY <2>1 DEF Inv, FilesFound, OwnFile
    <3>3. answer'[s] = answer[s]
      BY DEF Quiet
    <3> QED BY <1>1, <3>1, <3>2, <3>3 DEF Namesakes
  <2>2. ASSUME NEW t \in Times, objects[t] # None PROVE objects[t] \in Namesakes(t)'
    BY <1>1, <2>2 DEF Inv, FilesFound, OwnFile, TypeOK
  <2> QED BY <2>1, <2>2 DEF Quiet, OwnFile, Namesakes
<1>3. OneAnswer'
  <2> SUFFICES ASSUME NEW r \in Readers, pc'[r] = "answered"
               PROVE  header'[r] \in Namesakes(key[r])' /\ content'[r] \in Namesakes(key[r])'
    BY DEF OneAnswer
  <2>1. key'[r] = key[r] /\ header'[r] \in Namesakes(key[r]) /\ content'[r] \in Namesakes(key[r])
    BY DEF Quiet, Inv, OneAnswer
  <2>2. key[r] \in Times
    <3>1. PICK w \in Senders : key[w] = key[r] /\ pc[w] = "answered"
      BY <2>1 DEF Namesakes
    <3> QED BY <3>1 DEF Inv, SenderOK
  <2> QED BY <1>1, <2>1, <2>2 DEF Namesakes
<1>4. BucketFirst'
  BY DEF Quiet, Inv, FilesFound, BucketFirst
<1>5. ASSUME NEW s \in Senders PROVE SenderOK(s)'
  BY DEF Quiet, Inv, SenderOK
<1>6. ASSUME NEW r \in Readers PROVE ReaderOK(r)'
  <2>1. CASE r # q
    BY <1>1, <2>1 DEF Quiet, Inv, ReaderOK, Namesakes
  <2> QED BY <2>1
<1> QED BY <1>2, <1>3, <1>4, <1>5, <1>6 DEF Inv, FilesFound

(* An upload stores its file under the name it has taken. *)
LEMMA StoreKeeps ==
  ASSUME TypeOK, Inv, NEW s \in Senders,
         pc[s] \in {"put", "underway"}, pc' = [pc EXCEPT ![s] = "answered"],
         objects' = [objects EXCEPT ![key[s]] = s] \/ (objects' = objects /\ answer' = answer),
         answer' = [answer EXCEPT ![s] = key[s]] \/ answer' = answer,
         UNCHANGED <<bucket, key, header, content>>
  PROVE  Inv'
<1>1. key[s] \in Times /\ answer[s] = None /\ bucket
  BY DEF Inv, FilesFound, SenderOK, BucketFirst
<1>2. /\ pc'[s] = "answered" /\ \A p \in (Senders \cup Readers) \ {s} : pc'[p] = pc[p]
      /\ \A w \in Senders \ {s} : answer'[w] = answer[w]
      /\ \A t \in Times : t # key[s] => objects'[t] = objects[t]
      /\ answer'[s] # None => answer'[s] = key[s] /\ objects'[key[s]] = s
      /\ objects'[key[s]] = s \/ objects'[key[s]] = objects[key[s]]
  BY <1>1 DEF TypeOK
<1>3. /\ \A t \in Times, w \in Senders : w \in Namesakes(t) => w \in Namesakes(t)'
      /\ s \in Namesakes(key[s])'
  BY <1>2 DEF Namesakes
<1>4. \A t \in Times : objects'[t] # None => objects'[t] \in Namesakes(t)'
  BY <1>1, <1>2, <1>3 DEF Inv, FilesFound, OwnFile, TypeOK
<1>5. ASSUME NEW w \in Senders, answer'[w] # None
      PROVE  objects'[answer'[w]] # None /\ answer'[w] = key[w] /\ key[w] \in Times
  BY <1>1, <1>2, <1>5 DEF Inv, SenderOK, TypeOK
<1>6. OwnFile'
  BY <1>4, <1>5 DEF OwnFile, Namesakes
<1>7. ASSUME NEW r \in Readers
      PROVE  ReaderOK(r)' /\ (pc'[r] = "answered" =>
               header[r] \in Namesakes(key[r])' /\ content[r] \in Namesakes(key[r])')
  <2>1. pc'[r] = pc[r]
    BY <1>2
  <2>2. pc[r] \in {"stat", "copy", "answered"} => key[r] \in Times
    BY DEF Inv, ReaderOK
  <2>3. /\ pc[r] \in {"copy", "answered"} => header[r] \in Namesakes(key[r]) /\ header[r] \in Senders
        /\ pc[r] = "answered" => content[r] \in Namesakes(key[r]) /\ content[r] \in Senders
        /\ pc[r] = "copy" => objects[key[r]] # None
    BY DEF Inv, ReaderOK, OneAnswer, Namesakes
  <2>4. pc[r] = "copy" => objects'[key[r]] # None
    BY <1>2, <2>2, <2>3
  <2>5. /\ pc[r] \in {"copy", "answered"} => header[r] \in Namesakes(key[r])'
        /\ pc[r] = "answered" => content[r] \in Namesakes(key[r])'
    BY <1>3, <2>2, <2>3 DEF Namesakes
  <2> QED BY <2>1, <2>2, <2>4, <2>5 DEF ReaderOK
<1>8. OneAnswer'
  BY <1>7 DEF OneAnswer
<1>9. BucketFirst'
  BY <1>1 DEF BucketFirst
<1>10. ASSUME NEW w \in Senders PROVE SenderOK(w)'
  BY <1>1, <1>2, <1>5 DEF Inv, SenderOK
<1> QED BY <1>6, <1>7, <1>8, <1>9, <1>10 DEF Inv, FilesFound

(* Every step of an upload keeps the invariant. *)
LEMMA SenderKeeps ==
  ASSUME TypeOK, Inv, NEW s \in Senders, SenderStep(s)
  PROVE  Inv'
<1> USE DEF Goto, storage
<1>1. s \notin Readers /\ SenderOK(s)
  BY DEF Inv
<1>2. CASE \/ PutObject(s)
           \/ PutObjectFails(s) /\ pc'[s] # "underway"
           \/ PutLate(s)
  <2>1. /\ pc[s] \in {"put", "underway"} /\ pc' = [pc EXCEPT ![s] = "answered"]
        /\ UNCHANGED <<bucket, key, header, content>>
    BY <1>2 DEF PutObject, PutObjectFails, PutLate, TypeOK
  <2>2. /\ objects' = [objects EXCEPT ![key[s]] = s] \/ (objects' = objects /\ answer' = answer)
        /\ answer' = [answer EXCEPT ![s] = key[s]] \/ answer' = answer
    BY <1>2 DEF PutObject, PutObjectFails, PutLate
  <2> QED BY <2>1, <2>2, StoreKeeps
<1>3. CASE Upload(s) \/ BucketExists(s) \/ MakeBucket(s) \/ Fail(s)
  <2>1. /\ pc[s] \in {"idle", "exists", "make"} /\ UNCHANGED <<objects, answer, key, header, content>>
        /\ bucket => bucket'
        /\ \A p \in (Senders \cup Readers) \ {s} : pc'[p] = pc[p]
        /\ pc'[s] \in {"exists", "make", "stamp", "failed"} /\ (pc'[s] = "stamp" => bucket')
    <3>1. CASE Upload(s)
      BY <3>1 DEF Upload, TypeOK
    <3>2. CASE BucketExists(s)
      BY <3>2 DEF BucketExists, TypeOK
    <3>3. CASE MakeBucket(s)
      BY <3>3 DEF MakeBucket, TypeOK
    <3>4. CASE Fail(s)
      <4>1. pc[s] \in {"exists", "make"}
        BY <1>1, <3>4 DEF Fail, Inv, SenderOK, TypeOK
      <4> QED BY <3>4, <4>1 DEF Fail, TypeOK
    <3> QED BY <1>3, <3>1, <3>2, <3>3, <3>4
  <2>2. Quiet(s)
    BY <1>1, <2>1 DEF Quiet
  <2>3. SenderOK(s)'
    BY <1>1, <2>1 DEF SenderOK
  <2> QED BY <1>1, <2>1, <2>2, <2>3, QuietKeeps
<1>4. CASE Stamp(s)
  <2>1. /\ pc[s] = "stamp" /\ pc'[s] = "put" /\ key'[s] = clock /\ clock \in Times
        /\ \A p \in (Senders \cup Readers) \ {s} : pc'[p] = pc[p] /\ key'[p] = key[p]
        /\ UNCHANGED <<bucket, objects, answer, header, content>>
    BY <1>4 DEF Stamp, TypeOK
  <2>2. Quiet(s)
    BY <1>1, <2>1 DEF Quiet
  <2>3. SenderOK(s)'
    BY <1>1, <2>1 DEF SenderOK
  <2>4. bucket'
    BY <2>1 DEF Inv, FilesFound, BucketFirst
  <2> QED BY <1>1, <2>2, <2>3, <2>4, QuietKeeps
<1>5. CASE PutObjectFails(s) /\ pc'[s] = "underway"
  <2>1. /\ pc[s] = "put" /\ UNCHANGED <<bucket, objects, answer, key, header, content>>
        /\ \A p \in (Senders \cup Readers) \ {s} : pc'[p] = pc[p]
    BY <1>5 DEF PutObjectFails, TypeOK
  <2>2. Quiet(s)
    BY <1>1, <2>1 DEF Quiet
  <2>3. SenderOK(s)'
    BY <1>1, <1>5, <2>1 DEF SenderOK
  <2>4. bucket'
    BY <2>1 DEF Inv, FilesFound, BucketFirst
  <2> QED BY <1>1, <2>2, <2>3, <2>4, QuietKeeps
<1> QED BY <1>2, <1>3, <1>4, <1>5 DEF SenderStep

(* Every step of a reader keeps the invariant. *)
LEMMA ReaderKeeps ==
  ASSUME TypeOK, Inv, NEW r \in Readers, ReaderStep(r)
  PROVE  Inv'
<1> USE DEF Goto, storage
<1>1. r \notin Senders /\ ReaderOK(r)
  BY DEF Inv
<1>2. /\ UNCHANGED <<bucket, objects, answer>> /\ pc[r] # "answered"
      /\ \A p \in (Senders \cup Readers) \ {r} : pc'[p] = pc[p] /\ key'[p] = key[p]
      /\ \A p \in Readers \ {r} : header'[p] = header[p] /\ content'[p] = content[p]
  BY DEF ReaderStep, GetFile, Stat, Copy, Fail, TypeOK
<1>3. Quiet(r)
  BY <1>1, <1>2 DEF Quiet
<1>4. CASE GetFile(r)
  <2>1. pc[r] = "idle" /\ pc'[r] = "stat" /\ key'[r] \in Times
    BY <1>4 DEF GetFile, TypeOK
  <2>2. ReaderOK(r)'
    BY <2>1 DEF ReaderOK
  <2> QED BY <1>1, <1>3, <2>1, <2>2, QuietKeeps
<1>5. ASSUME NEW k \in Times, k = key[r], objects[k] # None
      PROVE  objects[k] \in Namesakes(k)
  BY <1>5 DEF Inv, FilesFound, OwnFile
<1>6. \A w \in Senders : w \in Namesakes(key[r]) /\ key'[r] = key[r] => w \in Namesakes(key[r])'
  BY <1>1, <1>2 DEF Namesakes
<1>7. CASE Stat(r)
  <2>1. /\ pc[r] = "stat" /\ key'[r] = key[r] /\ header'[r] = objects[key[r]] /\ key[r] \in Times
        /\ pc'[r] = IF objects[key[r]] = None THEN "failed" ELSE "copy"
    BY <1>1, <1>7 DEF Stat, TypeOK, ReaderOK
  <2>2. pc'[r] = "copy" => header'[r] \in Namesakes(key[r])' /\ objects'[key'[r]] # None
    BY <1>2, <1>5, <1>6, <2>1 DEF Namesakes
  <2>3. ReaderOK(r)'
    BY <2>1, <2>2 DEF ReaderOK
  <2> QED BY <1>1, <1>3, <2>1, <2>3, QuietKeeps
<1>8. CASE Copy(r)
  <2>1. /\ pc[r] = "copy" /\ pc'[r] = "answered" /\ key'[r] = key[r] /\ key[r] \in Times
        /\ header'[r] = header[r] /\ content'[r] = objects[key[r]] /\ objects[key[r]] # None
        /\ header[r] \in Namesakes(key[r])
    BY <1>1, <1>8 DEF Copy, TypeOK, ReaderOK
  <2>2. content'[r] \in Namesakes(key[r])
    BY <1>5, <2>1
  <2>3. ReaderOK(r)'
    BY <1>6, <2>1 DEF ReaderOK, Namesakes
  <2> QED BY <1>1, <1>3, <2>1, <2>2, <2>3, QuietKeeps
<1>9. CASE Fail(r)
  <2>1. pc[r] # "idle" /\ pc'[r] = "failed" /\ key'[r] = key[r]
    BY <1>9 DEF Fail, TypeOK
  <2>2. ReaderOK(r)'
    BY <2>1 DEF ReaderOK
  <2> QED BY <1>1, <1>3, <2>1, <2>2, QuietKeeps
<1> QED BY <1>4, <1>7, <1>8, <1>9 DEF ReaderStep

(* The invariant of uploads: requests may overtake each other anywhere. *)
THEOREM UploadsInvariance == Spec => [](TypeOK /\ Inv)
<1>1. Init => TypeOK /\ Inv
  <2> SUFFICES ASSUME Init PROVE TypeOK /\ Inv
    OBVIOUS
  <2>1. TypeOK
    BY DEF Init, TypeOK, Times
  <2>2. Inv
    BY DEF Init, Inv, FilesFound, OwnFile, OneAnswer, BucketFirst, SenderOK, ReaderOK
  <2> QED BY <2>1, <2>2
<1>2. TypeOK /\ Inv /\ [Next]_vars => Inv'
  <2> SUFFICES ASSUME TypeOK, Inv, [Next]_vars PROVE Inv'
    OBVIOUS
  <2>1. CASE Tick \/ UNCHANGED vars
    <3>1. UNCHANGED <<bucket, objects, pc, key, answer, header, content>>
      BY <2>1 DEF Tick, vars, storage
    <3> QED BY <3>1 DEF Inv, FilesFound, OwnFile, OneAnswer, BucketFirst, SenderOK, ReaderOK, Namesakes
  <2> QED BY <2>1, SenderKeeps, ReaderKeeps DEF Next
<1> QED BY <1>1, <1>2, TypeStep, PTL DEF Spec

(* What is stored under a name, and read from it, is a file that was sent. *)
THEOREM Types == Spec => []TypeOK
<1> QED BY UploadsInvariance, PTL

(* Who is answered with a name finds the own file under it, unless another   *)
(* upload took the same millisecond.                                       *)
THEOREM UploadsFindTheirFile == Spec => []FilesFound
<1>1. Inv => FilesFound
  BY DEF Inv
<1> QED BY <1>1, UploadsInvariance, PTL

(* Type and bytes that a reader gets are of files stored under the name. *)
THEOREM ReadersGetOneFile == Spec => []OneAnswer
<1>1. Inv => OneAnswer
  BY DEF Inv
<1> QED BY <1>1, UploadsInvariance, PTL

(* What is served under a name once is served under it for ever. *)
THEOREM NamesAreKept == Spec => NamesStay
<1>1. TypeOK /\ Inv /\ [Next]_vars =>
        [\A t \in Times : objects[t] # None =>
           \/ objects'[t] = objects[t]
           \/ objects'[t] # None /\ key[objects'[t]] = t /\ pc[objects'[t]] \in {"put", "underway"}]_vars
  <2> SUFFICES ASSUME TypeOK, Inv, [Next]_vars, NEW t \in Times, objects[t] # None, objects'[t] # objects[t]
               PROVE  objects'[t] # None /\ key[objects'[t]] = t /\ pc[objects'[t]] \in {"put", "underway"}
    OBVIOUS
  <2>1. PICK s \in Senders : PutObject(s) \/ PutObjectFails(s) \/ PutLate(s)
    BY DEF Next, SenderStep, ReaderStep, Upload, BucketExists, MakeBucket, Stamp, Fail, GetFile, Stat,
           Copy, Tick, vars, storage
  <2>2. pc[s] \in {"put", "underway"} /\ objects' = [objects EXCEPT ![key[s]] = s]
    BY <2>1 DEF PutObject, PutObjectFails, PutLate
  <2>3. t = key[s] /\ objects'[t] = s
    BY <2>2 DEF TypeOK
  <2> QED BY <2>2, <2>3
<1> QED BY <1>1, UploadsInvariance, PTL DEF Spec, NamesStay
===============================================================================
