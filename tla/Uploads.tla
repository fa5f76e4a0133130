-------------------------------- MODULE Uploads --------------------------------
(***************************************************************************)
(* internal/upload over its object storage: a file is stored in one bucket *)
(* under the millisecond at which it is stored, and served to anybody who  *)
(* names that millisecond.                                                 *)
(***************************************************************************)
EXTENDS Naturals

CONSTANTS
  Senders,  \* requests that upload a file; the file is named by its request
  Readers,  \* requests for a file
  MaxClock, \* bound: the milliseconds of the wall clock
  None

Times == 0..MaxClock

ASSUME ClockAssumption == MaxClock \in Nat
ASSUME NoneAssumption == None \notin Senders \cup Times
ASSUME SenderAssumption == Senders \cap Readers = {}

VARIABLES
  bucket,  \* whether the bucket exists
  objects, \* the file stored under each name
  clock,   \* the wall clock, which may be set back
  pc,      \* where each request is
  key,     \* the name an upload has taken, or a reader asks for
  answer,  \* the name an upload is answered with: None is the empty name
  header,  \* the file whose Content-Type a reader is sent
  content  \* the file whose bytes it is sent

storage == <<bucket, objects>>
vars == <<storage, clock, pc, key, answer, header, content>>

Init ==
  /\ bucket \in BOOLEAN
  /\ objects = [t \in Times |-> None]
  /\ clock = 0
  /\ pc = [r \in Senders \cup Readers |-> "idle"]
  /\ key = [r \in Senders \cup Readers |-> None]
  /\ answer = [s \in Senders |-> None]
  /\ header = [r \in Readers |-> None]
  /\ content = [r \in Readers |-> None]

Goto(r, l) == pc' = [pc EXCEPT ![r] = l]

-------------------------------------------------------------------------------
(* The handler panics on a file name without a dot, which ends the request. *)
Upload(s) ==
  /\ pc[s] = "idle"
  /\ Goto(s, "exists") \/ Goto(s, "failed")
  /\ UNCHANGED <<storage, clock, key, answer, header, content>>

BucketExists(s) ==
  /\ pc[s] = "exists"
  /\ Goto(s, IF bucket THEN "stamp" ELSE "make")
  /\ UNCHANGED <<storage, clock, key, answer, header, content>>

(* Of several that find no bucket one makes it; for the others it is an error. *)
MakeBucket(s) ==
  /\ pc[s] = "make"
  /\ bucket' = TRUE
  /\ Goto(s, IF bucket THEN "failed" ELSE "stamp")
  /\ UNCHANGED <<objects, clock, key, answer, header, content>>

(* time.Now(), before PutObject sends the file. *)
Stamp(s) ==
  /\ pc[s] = "stamp"
  /\ key' = [key EXCEPT ![s] = clock]
  /\ Goto(s, "put")
  /\ UNCHANGED <<storage, clock, answer, header, content>>

(* The name is that of the moment when the file has arrived. *)
BugLateName(s) ==
  /\ pc[s] = "put"
  /\ objects' = [objects EXCEPT ![key[s]] = s]
  /\ answer' = [answer EXCEPT ![s] = clock]
  /\ Goto(s, "answered")
  /\ UNCHANGED <<bucket, clock, key, header, content>>

(* The answer carries the name that the file was sent with. *)
BugSentName(s) ==
  /\ pc[s] = "put"
  /\ objects' = [objects EXCEPT ![key[s]] = s]
  /\ answer' = [answer EXCEPT ![s] = s]
  /\ Goto(s, "answered")
  /\ UNCHANGED <<bucket, clock, key, header, content>>

PutObject(s) ==
  /\ pc[s] = "put"
  /\ objects' = [objects EXCEPT ![key[s]] = s]
  /\ answer' = [answer EXCEPT ![s] = key[s]]
  /\ Goto(s, "answered")
  /\ UNCHANGED <<bucket, clock, key, header, content>>

(* What is under the name is removed after an error. *)
BugCleansUp(s) ==
  /\ pc[s] = "put"
  /\ objects' = [objects EXCEPT ![key[s]] = None]
  /\ Goto(s, "answered")
  /\ UNCHANGED <<bucket, clock, key, answer, header, content>>

(* An error of PutObject is dropped, and the upload answered as a success    *)
(* with an empty name; the file may be stored all the same, or be on its   *)
(* way to the storage still.                                               *)
PutObjectFails(s) ==
  /\ pc[s] = "put"
  /\ \/ UNCHANGED objects /\ Goto(s, "answered")
     \/ objects' = [objects EXCEPT ![key[s]] = s] /\ Goto(s, "answered")
     \/ UNCHANGED objects /\ Goto(s, "underway")
  /\ UNCHANGED <<bucket, clock, key, answer, header, content>>

(* The storage stores a file whose sender has given up on it. *)
PutLate(s) ==
  /\ pc[s] = "underway"
  /\ objects' = [objects EXCEPT ![key[s]] = s]
  /\ Goto(s, "answered")
  /\ UNCHANGED <<bucket, clock, key, answer, header, content>>

(* Whoever asks names any millisecond. *)
GetFile(r) ==
  /\ pc[r] = "idle"
  /\ \E t \in Times : key' = [key EXCEPT ![r] = t]
  /\ Goto(r, "stat")
  /\ UNCHANGED <<storage, clock, answer, header, content>>

(* The object is not looked at before it is sent. *)
BugNoStat(r) ==
  /\ pc[r] = "stat"
  /\ header' = [header EXCEPT ![r] = objects[key[r]]]
  /\ Goto(r, "copy")
  /\ UNCHANGED <<storage, clock, key, answer, content>>

(* GetObject asks for nothing yet; Stat brings the Content-Type. *)
Stat(r) ==
  /\ pc[r] = "stat"
  /\ header' = [header EXCEPT ![r] = objects[key[r]]]
  /\ Goto(r, IF objects[key[r]] = None THEN "failed" ELSE "copy")
  /\ UNCHANGED <<storage, clock, key, answer, content>>

(* io.Copy: the bytes that are stored by then. *)
Copy(r) ==
  /\ pc[r] = "copy"
  /\ content' = [content EXCEPT ![r] = objects[key[r]]]
  /\ Goto(r, "answered")
  /\ UNCHANGED <<storage, clock, key, answer, header>>

(* The storage refuses, or the client leaves. *)
Fail(r) ==
  /\ pc[r] \in {"exists", "make", "stat", "copy"}
  /\ Goto(r, "failed")
  /\ UNCHANGED <<storage, clock, key, answer, header, content>>

Tick ==
  /\ clock' \in Times
  /\ UNCHANGED <<storage, pc, key, answer, header, content>>

-------------------------------------------------------------------------------
SenderStep(s) ==
  \/ Upload(s) \/ BucketExists(s) \/ MakeBucket(s) \/ Stamp(s) \/ PutObject(s)
  \/ PutObjectFails(s) \/ PutLate(s) \/ Fail(s)

ReaderStep(r) == GetFile(r) \/ Stat(r) \/ Copy(r) \/ Fail(r)

Next ==
  \/ \E s \in Senders : SenderStep(s)
  \/ \E r \in Readers : ReaderStep(r)
  \/ Tick

Spec == Init /\ [][Next]_vars

-------------------------------------------------------------------------------
TypeOK ==
  /\ bucket \in BOOLEAN
  /\ objects \in [Times -> Senders \cup {None}]
  /\ clock \in Times
  /\ pc \in [Senders \cup Readers ->
               {"idle", "exists", "make", "stamp", "put", "underway", "stat", "copy", "answered", "failed"}]
  /\ key \in [Senders \cup Readers -> Times \cup {None}]
  /\ answer \in [Senders -> Times \cup {None}]
  /\ header \in [Readers -> Senders \cup {None}]
  /\ content \in [Readers -> Senders \cup {None}]

(* The files stored under a name, now or before. *)
Namesakes(t) == {s \in Senders : key[s] = t /\ pc[s] = "answered"}

(* Nothing is sent to a bucket that does not exist, although the check and   *)
(* the creation are two steps and several uploads may find it missing.     *)
BucketFirst ==
  \A s \in Senders : pc[s] \in {"stamp", "put", "underway", "answered"} => bucket

(* An upload that is answered with a name finds its file under it, unless    *)
(* another upload has taken the same millisecond; and under no name is a     *)
(* file that was not stored for it (UploadFile, concurrent uploads).        *)
OwnFile ==
  /\ \A s \in Senders : answer[s] # None =>
       objects[answer[s]] = s \/ objects[answer[s]] \in Namesakes(answer[s]) \ {s}
  /\ \A t \in Times : objects[t] # None => objects[t] \in Namesakes(t)

(* UploadFile, however several of them interleave: what is answered can be   *)
(* found, in a bucket there is.                                            *)
FilesFound == BucketFirst /\ OwnFile

(* GetFile asks twice, for the type and for the bytes: both are there, and   *)
(* of files that were uploaded under the name, so of one file unless two    *)
(* uploads share the name.                                                 *)
OneAnswer ==
  \A r \in Readers : pc[r] = "answered" =>
    header[r] \in Namesakes(key[r]) /\ content[r] \in Namesakes(key[r])

(* A name that is served once is served for ever, and only an upload that    *)
(* took this name changes what it serves.                                  *)
NamesStay ==
  [][\A t \in Times : objects[t] # None =>
       \/ objects'[t] = objects[t]
       \/ objects'[t] # None /\ key[objects'[t]] = t /\ pc[objects'[t]] \in {"put", "underway"}]_vars

(* The inductive invariant: where a request is, and what it has. *)
SenderOK(s) ==
  /\ pc[s] \notin {"stat", "copy"}
  /\ pc[s] \in {"idle", "exists", "make", "stamp", "failed"} => key[s] = None /\ answer[s] = None
  /\ pc[s] \in {"put", "underway", "answered"} => key[s] \in Times
  /\ pc[s] \in {"put", "underway"} => answer[s] = None
  /\ answer[s] # None => answer[s] = key[s] /\ objects[key[s]] # None

ReaderOK(r) ==
  /\ pc[r] \in {"stat", "copy", "answered"} => key[r] \in Times
  /\ pc[r] \in {"copy", "answered"} => header[r] \in Namesakes(key[r])
  /\ pc[r] = "copy" => objects[key[r]] # None

Inv ==
  /\ FilesFound /\ OneAnswer
  /\ \A s \in Senders : SenderOK(s)
  /\ \A r \in Readers : ReaderOK(r)
===============================================================================
