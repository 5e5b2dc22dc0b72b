------------------------------ MODULE Uploads ------------------------------
(***************************************************************************)
(* How the files of an upload get into the file directory                   *)
(* (server/http/upload/upload.go, atomdl, internal/limread, maxsize.go) and *)
(* how uploads and thumbnails share the converters (server/http/upload/ff). *)
(*                                                                          *)
(* CreatePosts checks what the form says of its files, then stores each in  *)
(* a goroutine: sniff the type, write to a temporary name, compare with the *)
(* limit, rename, and measure the picture, if need be with ffprobe and      *)
(* ffmpeg.  These run under a semaphore: a job that finds no slot waits in  *)
(* line, with a timeout; a converter may take for ever.  What becomes of    *)
(* the rows of these files is in module Posts.                              *)
(***************************************************************************)
EXTENDS Integers, FiniteSets, SequencesExt

CONSTANTS
  Files,          \* the files that clients send
  Thumbs,         \* requests for thumbnails
  Types,          \* content types
  AllowedTypes,   \* UploadConfig.AllowedTypes
  Matching,       \* pairs <<type, key>>: the type contains the key of MaxSize
  KeySize,        \* MaxSize.vals: the size of each key
  MaxFileSize,    \* UploadConfig.MaxFileSize
  MaxBodySize,    \* HTTPConfig.MaxBodySize
  MaxFiles,       \* files in one upload
  Sizes,          \* the sizes of the files that clients send
  Slots,          \* weight of the semaphore, twice GOMAXPROCS
  MaxStuck,       \* bound: converters that take for ever
  MaxRestarts,    \* bound: restarts of the server
  None

Keys == DOMAIN KeySize
Jobs == Files \cup Thumbs

ASSUME UploadsAssumption ==
  /\ Files \cap Thumbs = {} /\ IsFiniteSet(Jobs)
  /\ AllowedTypes \subseteq Types /\ Matching \subseteq Types \X Keys
  /\ IsFiniteSet(Keys) /\ \A k \in Keys : KeySize[k] \in Nat
  /\ MaxFileSize \in Nat /\ MaxBodySize \in Nat /\ MaxFiles \in Nat
  /\ Sizes \subseteq Nat
  /\ Slots \in Nat \ {0} /\ MaxStuck \in Nat /\ MaxRestarts \in Nat
  /\ None \notin Nat

VARIABLES
  keys,       \* MaxSize.keys, in the order of one iteration over a Go map
  meta,       \* a file that was accepted: what its content is, and its size
  pc,         \* where the goroutine of a file, or the request of a thumbnail, is
  temp,       \* bytes under the temporary name, or None
  final,      \* bytes under the name that posts are served from, or None
  batches,    \* the uploads that CreatePosts waits for: sets of files
  holders,    \* jobs that have a slot of the semaphore
  waiters,    \* jobs in line for one
  running,    \* jobs whose converter has been started
  stuck,      \* those among them whose converter never ends
  restarts

disk == <<temp, final>>
sema == <<holders, waiters, running, stuck>>
vars == <<keys, meta, pc, disk, batches, sema, restarts>>

Form       == [declared : Types \cup {None}, type : Types, size : Sizes]
Storing    == {"open", "create", "copy", "rename", "undo"}
Converting == {"probe", "frame", "jpeg"}
Ended      == {"stored", "failed", "refused", "removed", "lost", "served"}
Places     == Storing \cup Converting \cup Ended \cup {"none", "decode", "done", "cleanup"}

-----------------------------------------------------------------------------
(* Limits *)

\* MaxSize.SizeLimit: every key that matches replaces the one before; zero is none.
SizeLimit(t) ==
  LET hits == {i \in DOMAIN keys : <<t, keys[i]>> \in Matching} IN
  IF hits = {} THEN 0 ELSE KeySize[keys[Max(hits)]]

\* WrapReader
Limit(t) == IF SizeLimit(t) > 0 THEN SizeLimit(t) ELSE MaxFileSize

\* NewLimitedReader and LimitedReader: n bytes have gone through.
TooLarge(n, max) == (max + 1) - n <= 0

\* Mutant: CreatePosts leaves the sizes to createPost.
AcceptsAnySize(b, form) ==
  /\ Cardinality(b) <= MaxFiles
  /\ \A f \in b : form[f].declared \in AllowedTypes \cup {None}

\* The fast path of CreatePosts: what the form says of the files.
Accepts(b, form) ==
  /\ Cardinality(b) <= MaxFiles
  /\ \A f \in b : form[f].size <= MaxFileSize /\ form[f].declared \in AllowedTypes \cup {None}

BodySize(b, form) == MapThenSumSet(LAMBDA f : form[f].size, b)

-----------------------------------------------------------------------------
(* An upload *)

Goto(f, place) == pc' = [pc EXCEPT ![f] = place]

\* All of some jobs move on.
GotoAll(js, place) == pc' = [j \in Jobs |-> IF j \in js THEN place ELSE pc[j]]

New(b) == b # {} /\ \A f \in b : pc[f] = "none"

\* preparseMultipart reads the body through a LimitedReader; then CreatePosts
\* starts its goroutines.
Submit(b, form) ==
  /\ New(b)
  /\ ~TooLarge(BodySize(b, form), MaxBodySize) /\ Accepts(b, form)
  /\ meta' = [f \in Files |->
       IF f \in b THEN [type |-> form[f].type, size |-> form[f].size] ELSE meta[f]]
  /\ batches' = batches \cup {b}
  /\ GotoAll(b, "open")
  /\ UNCHANGED <<keys, disk, sema, restarts>>

\* None of the files is looked at.
SubmitRefused(b, form) ==
  /\ New(b)
  /\ TooLarge(BodySize(b, form), MaxBodySize) \/ ~Accepts(b, form)
  /\ GotoAll(b, "refused")
  /\ UNCHANGED <<keys, meta, disk, batches, sema, restarts>>

\* WrapReader: the type is what the first bytes say.
Open(f) ==
  /\ pc[f] = "open"
  /\ Goto(f, IF meta[f].type \in AllowedTypes THEN "create" ELSE "failed")
  /\ UNCHANGED <<keys, meta, disk, batches, sema, restarts>>

\* header.Open or Peek fails.
OpenFails(f) ==
  /\ pc[f] = "open"
  /\ Goto(f, "failed")
  /\ UNCHANGED <<keys, meta, disk, batches, sema, restarts>>

\* os.Create of the temporary name
Create(f) ==
  /\ pc[f] = "create"
  /\ temp' = [temp EXCEPT ![f] = 0]
  /\ Goto(f, "copy")
  /\ UNCHANGED <<keys, meta, final, batches, sema, restarts>>

\* io.Copy uses WriteTo, which copies all there is.
Copy(f) ==
  /\ pc[f] = "copy" /\ temp[f] < meta[f].size
  /\ temp' = [temp EXCEPT ![f] = @ + 1]
  /\ UNCHANGED <<keys, meta, pc, final, batches, sema, restarts>>

\* Mutant: the result of WriteTo is not compared with the limit.
CopyEndsUnlimited(f) ==
  /\ pc[f] = "copy" /\ temp[f] = meta[f].size
  /\ Goto(f, "rename")
  /\ UNCHANGED <<keys, meta, disk, batches, sema, restarts>>

\* ... and only then compares it with the limit.
CopyEnds(f) ==
  /\ pc[f] = "copy" /\ temp[f] = meta[f].size
  /\ Goto(f, IF TooLarge(meta[f].size, Limit(meta[f].type)) THEN "undo" ELSE "rename")
  /\ UNCHANGED <<keys, meta, disk, batches, sema, restarts>>

\* The disk fails while the file is created, written or renamed.
DiskFails(f) ==
  /\ pc[f] \in {"create", "copy", "rename"}
  /\ Goto(f, "undo")
  /\ UNCHANGED <<keys, meta, disk, batches, sema, restarts>>

\* Mutant: the temporary file is left where it is.
UndoNothing(f) ==
  /\ pc[f] = "undo"
  /\ Goto(f, "failed")
  /\ UNCHANGED <<keys, meta, disk, batches, sema, restarts>>

\* Download removes the temporary file, if there is one.
Undo(f) ==
  /\ pc[f] = "undo"
  /\ temp' = [temp EXCEPT ![f] = None]
  /\ Goto(f, "failed")
  /\ UNCHANGED <<keys, meta, final, batches, sema, restarts>>

\* os.Rename
Rename(f) ==
  /\ pc[f] = "rename"
  /\ final' = [final EXCEPT ![f] = temp[f]]
  /\ temp' = [temp EXCEPT ![f] = None]
  /\ Goto(f, "decode")
  /\ UNCHANGED <<keys, meta, batches, sema, restarts>>

\* imaging.Open, or else the converters.
Decode(f) ==
  /\ pc[f] = "decode"
  /\ Goto(f, "done") \/ Goto(f, "probe")
  /\ UNCHANGED <<keys, meta, disk, batches, sema, restarts>>

\* errgroup.Wait; the handler saves the posts.
UploadSucceeds(b) ==
  /\ b \in batches /\ \A f \in b : pc[f] = "done"
  /\ batches' = batches \ {b}
  /\ GotoAll(b, "stored")
  /\ UNCHANGED <<keys, meta, disk, sema, restarts>>

\* Mutant: the files that were stored are left.
UploadFailsOnly(b) ==
  /\ b \in batches /\ \A f \in b : pc[f] \in {"done", "failed"}
  /\ batches' = batches \ {b}
  /\ GotoAll({f \in b : pc[f] = "done"}, "failed")
  /\ UNCHANGED <<keys, meta, disk, sema, restarts>>

\* A file could not be stored, or its post not be saved: CleanupPosts.
UploadFails(b) ==
  /\ b \in batches /\ \A f \in b : pc[f] \in {"done", "failed"}
  /\ batches' = batches \ {b}
  /\ GotoAll({f \in b : pc[f] = "done"}, "cleanup")
  /\ UNCHANGED <<keys, meta, disk, sema, restarts>>

\* The goroutine of CleanupPosts
CleanupPost(f) ==
  /\ pc[f] = "cleanup"
  /\ final' = [final EXCEPT ![f] = None]
  /\ Goto(f, "removed")
  /\ UNCHANGED <<keys, meta, temp, batches, sema, restarts>>

-----------------------------------------------------------------------------
(* The converters and their semaphore *)

\* serveThumbnail: not in the cache, and tryNativeJPEG fails.
Thumbnail(t) ==
  /\ pc[t] \in {"none", "served"}
  /\ Goto(t, "jpeg")
  /\ UNCHANGED <<keys, meta, disk, batches, sema, restarts>>

\* createPost asks for the size, then for a frame; neither has to succeed.
AfterConverter(place) ==
  CASE place = "probe" -> "frame" [] place = "frame" -> "done" [] OTHER -> "served"

\* Semaphore.Acquire: a free slot if nobody is in line, or else a place in line.
Acquire(j) ==
  /\ pc[j] \in Converting /\ j \notin holders /\ j \notin ToSet(waiters)
  /\ IF Cardinality(holders) < Slots /\ waiters = <<>>
     THEN /\ holders' = holders \cup {j} /\ running' = running \cup {j}
          /\ UNCHANGED waiters
     ELSE /\ waiters' = Append(waiters, j)
          /\ UNCHANGED <<holders, running>>
  /\ UNCHANGED <<keys, meta, pc, disk, batches, stuck, restarts>>

\* A job that was given a slot starts; so it does when its timeout comes too late.
Wake(j) ==
  /\ j \in holders \ running
  /\ running' = running \cup {j}
  /\ UNCHANGED <<keys, meta, pc, disk, batches, holders, waiters, stuck, restarts>>

\* Mutant: acq has no timeout.
WaitsForEver(j) == FALSE /\ UNCHANGED vars

\* acq gives up after waitDura; the job goes on without.
TimesOut(j) ==
  /\ \E i \in DOMAIN waiters : waiters[i] = j /\ waiters' = RemoveAt(waiters, i)
  /\ Goto(j, AfterConverter(pc[j]))
  /\ UNCHANGED <<keys, meta, disk, batches, holders, running, stuck, restarts>>

\* Mutant: Release does not look who is waiting.
ReleaseOnly(j) == holders' = holders \ {j} /\ UNCHANGED waiters

\* Semaphore.Release: the slot goes to the first in line.
Release(j) ==
  IF waiters = <<>> THEN holders' = holders \ {j} /\ UNCHANGED waiters
  ELSE /\ holders' = (holders \ {j}) \cup {Head(waiters)}
       /\ waiters' = Tail(waiters)

\* The converter ends, with a picture or an error; the slot is given back.
Converted(j) ==
  /\ j \in running \ stuck
  /\ Release(j)
  /\ running' = running \ {j}
  /\ Goto(j, AfterConverter(pc[j]))
  /\ UNCHANGED <<keys, meta, disk, batches, stuck, restarts>>

\* cmd.Output has no timeout.
Hangs(j) ==
  /\ j \in running \ stuck /\ Cardinality(stuck) < MaxStuck
  /\ stuck' = stuck \cup {j}
  /\ UNCHANGED <<keys, meta, pc, disk, batches, holders, waiters, running, restarts>>

-----------------------------------------------------------------------------
\* The server is stopped and started again: the disk stays, the configuration
\* is read again, and its keys come in any order.
Restart ==
  /\ restarts < MaxRestarts /\ restarts' = restarts + 1
  /\ pc' = [j \in Jobs |->
       IF j \in Thumbs THEN "none"
       ELSE IF pc[j] \in Ended \cup {"none"} THEN pc[j] ELSE "lost"]
  /\ keys' \in SetToSeqs(Keys)
  /\ batches' = {} /\ holders' = {} /\ waiters' = <<>>
  /\ running' = {} /\ stuck' = {}
  /\ UNCHANGED <<meta, disk>>

Init ==
  /\ keys \in SetToSeqs(Keys)
  /\ meta = [f \in Files |-> None]
  /\ pc = [j \in Jobs |-> "none"]
  /\ temp = [f \in Files |-> None] /\ final = [f \in Files |-> None]
  /\ batches = {}
  /\ holders = {} /\ waiters = <<>> /\ running = {} /\ stuck = {}
  /\ restarts = 0

\* createPost
Store(f) ==
  \/ Open(f) \/ OpenFails(f) \/ Create(f) \/ Copy(f) \/ CopyEnds(f) \/ DiskFails(f)
  \/ Undo(f) \/ Rename(f) \/ Decode(f)

\* FirstFrame, FirstFrameJPEG and ProbeSize
Convert(j) == Acquire(j) \/ Wake(j) \/ TimesOut(j) \/ Converted(j)

CreatePosts(b) == UploadSucceeds(b) \/ UploadFails(b)

Next ==
  \/ \E b \in SUBSET Files : \E form \in [b -> Form] :
       Submit(b, form) \/ SubmitRefused(b, form)
  \/ \E f \in Files : Store(f) \/ CleanupPost(f)
  \/ \E b \in SUBSET Files : CreatePosts(b)
  \/ \E t \in Thumbs : Thumbnail(t)
  \/ \E j \in Jobs : Convert(j) \/ Hangs(j)
  \/ Restart

Spec == Init /\ [][Next]_vars

\* Goroutines run, files have an end, and a timeout comes.  Of a converter that is
\* stuck nothing is assumed, nor of anyone to send or to ask for something.
FairSpec ==
  /\ Spec
  /\ \A f \in Files : WF_vars(Store(f)) /\ WF_vars(CleanupPost(f))
  /\ \A j \in Jobs : WF_vars(Convert(j))
  /\ \A b \in SUBSET Files : WF_vars(CreatePosts(b))

-----------------------------------------------------------------------------
(* Properties *)

\* The variables have their shapes; no temporary file outgrows MaxFileSize, though
\* its limit is looked at only when all of it has been written.
TypeOK ==
  /\ keys \in SetToSeqs(Keys)
  /\ meta \in [Files -> [type : Types, size : Sizes] \cup {None}]
  /\ pc \in [Jobs -> Places]
  /\ temp \in [Files -> (0 .. MaxFileSize) \cup {None}]
  /\ final \in [Files -> (0 .. MaxFileSize) \cup {None}]
  /\ batches \subseteq SUBSET Files
  /\ holders \subseteq Jobs /\ running \subseteq holders /\ stuck \subseteq running
  /\ waiters \in Seq(Jobs)
  /\ restarts \in 0 .. MaxRestarts

\* The keys that match a type give it one limit.
Agreed(t) ==
  \A k, l \in Keys :
    <<t, k>> \in Matching /\ <<t, l>> \in Matching => KeySize[k] = KeySize[l]

\* What a type may weigh.  Where several keys match and differ, the order of a Go map
\* decides, though config.default.toml:27 has the smallest count: MaxFileSize is all
\* that is said then.
Permitted(t) ==
  {n \in Sizes :
     /\ n <= MaxFileSize
     /\ Agreed(t) =>
          \A k \in Keys : <<t, k>> \in Matching => KeySize[k] = 0 \/ n <= KeySize[k]}

\* A temporary file is being written, or the server stopped while it was: every
\* error of the disk and every limit takes it away again.
TemporaryFilesGo ==
  \A f \in Files : temp[f] # None => pc[f] \in Storing \cup {"lost"}

\* A file outlives its upload only if all of the upload was stored, or the server
\* stopped: an upload of which one file fails leaves none.
UploadsLeaveAllOrNothing ==
  \A f \in Files : final[f] # None =>
    \/ pc[f] \in {"stored", "cleanup", "lost"}
    \/ \E b \in batches : f \in b

\* The semaphore: a slot is held by a job that is converting, no more than there
\* are; nobody is in line while a slot is free, nor twice, nor with a slot.
SlotsConserved ==
  /\ Cardinality(holders) <= Slots
  /\ \A j \in holders \cup ToSet(waiters) : pc[j] \in Converting
  /\ IsInjective(waiters) /\ holders \cap ToSet(waiters) = {}
  /\ waiters # <<>> => Cardinality(holders) = Slots

\* What becomes of a file, for those who look into the directory.
FateOf(f) ==
  CASE final[f] # None -> "stored"
    [] pc[f] = "removed" -> "removed"
    [] pc[f] \in {"failed", "refused", "lost"} -> "refused"
    [] OTHER -> "sent"

DirOf(f) ==
  IF final[f] = None THEN None ELSE [type |-> meta[f].type, size |-> final[f]]

\* The directory is what AtomicStore says it is.
Directory ==
  INSTANCE AtomicStore WITH
    Contents <- {c \in [type : AllowedTypes, size : Sizes] : c.size \in Permitted(c.type)},
    dir <- [f \in Files |-> DirOf(f)],
    fate <- [f \in Files |-> FateOf(f)]

StoreSpec == Directory!Spec

\* An upload comes to its end, with posts or an error, unless the converter of one
\* of its own files is stuck: those of others, or of thumbnails, do not stop it.
UploadsEnd ==
  \A b \in SUBSET Files :
    b \in batches ~> b \notin batches \/ (\E f \in b : f \in stuck)
=============================================================================
