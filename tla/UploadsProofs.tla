--------------------------- MODULE UploadsProofs ---------------------------
(***************************************************************************)
(* Proofs about Uploads, for any number of files, thumbnails, slots, types  *)
(* and keys of MaxSize.                                                     *)
(***************************************************************************)
EXTENDS Uploads, FiniteSetTheorems, SequenceTheorems, WellFoundedInduction, TLAPS

-----------------------------------------------------------------------------
(* The inductive invariant *)

Ongoing     == Storing \cup {"decode", "probe", "frame", "done"}
InDirectory == {"decode", "probe", "frame", "done", "stored", "cleanup"}
Accepted    == [type : Types, size : {n \in Sizes : n <= MaxFileSize}]

\* What is known of a file, by the place of its goroutine.
FileInv ==
  \A f \in Files :
    /\ pc[f] \notin {"jpeg", "served"}
    /\ pc[f] \in {"open", "create", "copy", "rename"} => meta[f] \in Accepted
    /\ pc[f] \in {"create", "copy", "rename"} => meta[f].type \in AllowedTypes
    /\ pc[f] \in {"copy", "rename"} => temp[f] \in Nat
    /\ pc[f] = "rename" =>
         temp[f] = meta[f].size /\ meta[f].size \in Permitted(meta[f].type)
    /\ temp[f] # None => pc[f] \in {"copy", "rename", "undo", "lost"}
    /\ final[f] # None => pc[f] \in InDirectory \cup {"lost"}
    /\ pc[f] \in InDirectory => final[f] # None
    /\ pc[f] \in Ongoing => \E b \in batches : f \in b

-----------------------------------------------------------------------------
(* Type correctness *)

LEMMA InitType == Init => TypeOK
  <1> SUFFICES ASSUME Init PROVE TypeOK
    OBVIOUS
  <1>1. <<>> \in Seq(Jobs)
    OBVIOUS
  <1> QED
    BY <1>1, UploadsAssumption DEF Init, TypeOK, Places

LEMMA UploadType ==
  ASSUME TypeOK, FileInv, NEW f \in Files, Store(f) \/ CleanupPost(f)
  PROVE  TypeOK'
  <1> USE DEF TypeOK, Goto, Jobs, Places, Storing, Converting, Ended, disk, sema
  <1>1. CASE Open(f)
    BY <1>1 DEF Open
  <1>2. CASE Create(f)
    BY <1>2, UploadsAssumption DEF Create
  <1>3. CASE Copy(f)
    <2>1. /\ meta[f] \in Accepted /\ temp[f] \in Nat /\ temp[f] < meta[f].size
          /\ meta[f].size \in Nat /\ meta[f].size <= MaxFileSize
      BY <1>3, UploadsAssumption DEF Copy, FileInv, Accepted
    <2>2. temp[f] + 1 \in 0 .. MaxFileSize
      BY <2>1, UploadsAssumption
    <2> QED
      BY <1>3, <2>2 DEF Copy
  <1>4. CASE CopyEnds(f)
    BY <1>4 DEF CopyEnds
  <1>5. CASE DiskFails(f)
    BY <1>5 DEF DiskFails
  <1>6. CASE Undo(f)
    BY <1>6 DEF Undo
  <1>7. CASE Rename(f)
    BY <1>7 DEF Rename
  <1>8. CASE Decode(f)
    BY <1>8 DEF Decode
  <1>9. CASE CleanupPost(f)
    BY <1>9 DEF CleanupPost
  <1>10. CASE OpenFails(f)
    BY <1>10 DEF OpenFails
  <1> QED
    BY <1>1, <1>2, <1>3, <1>4, <1>5, <1>6, <1>7, <1>8, <1>9, <1>10 DEF Store

LEMMA BatchType ==
  ASSUME TypeOK, FileInv
  PROVE  /\ \A b \in SUBSET Files : \A form \in [b -> Form] :
              Submit(b, form) \/ SubmitRefused(b, form) => TypeOK'
         /\ \A b \in SUBSET Files : CreatePosts(b) => TypeOK'
         /\ Restart => TypeOK'
  <1> USE DEF TypeOK, GotoAll, Jobs, Places, Storing, Converting, Ended, disk, sema
  <1>1. ASSUME NEW b \in SUBSET Files, NEW form \in [b -> Form], Submit(b, form)
        PROVE  TypeOK'
    <2>1. \A f \in b : [type |-> form[f].type, size |-> form[f].size]
                        \in [type : Types, size : Sizes]
      BY DEF Form
    <2>2. meta' \in [Files -> [type : Types, size : Sizes] \cup {None}]
      BY <1>1, <2>1 DEF Submit
    <2> QED
      BY <1>1, <2>2 DEF Submit
  <1>2. ASSUME NEW b \in SUBSET Files, NEW form \in [b -> Form], SubmitRefused(b, form)
        PROVE  TypeOK'
    BY <1>2 DEF SubmitRefused
  <1>3. ASSUME NEW b \in SUBSET Files, CreatePosts(b)
        PROVE  TypeOK'
    BY <1>3 DEF CreatePosts, UploadSucceeds, UploadFails
  <1>4. ASSUME Restart
        PROVE  TypeOK'
    <2>1. <<>> \in Seq(Jobs)
      OBVIOUS
    <2>2. pc' \in [Jobs -> Places] /\ restarts' \in 0 .. MaxRestarts
      BY <1>4, UploadsAssumption DEF Restart
    <2> QED
      BY <1>4, <2>1, <2>2 DEF Restart
  <1> QED
    BY <1>1, <1>2, <1>3, <1>4

\* A job that leaves its converter, or does not wait for one, goes on.
LEMMA AfterConverterPlace ==
  /\ AfterConverter("probe") = "frame"
  /\ AfterConverter("frame") = "done"
  /\ AfterConverter("jpeg") = "served"
  BY DEF AfterConverter

LEMMA Shift ==
  ASSUME NEW k \in Nat, NEW i \in 1 .. k, NEW n \in 1 .. k - 1, ~(n < i)
  PROVE  n - (i - 1) \in 1 .. k - i /\ n - (i - 1) + i = n + 1
  OBVIOUS

\* Leaving the line keeps the order of the others.
LEMMA Leaving ==
  ASSUME NEW s \in Seq(Jobs), NEW i \in DOMAIN s
  PROVE  /\ RemoveAt(s, i) \in Seq(Jobs)
         /\ Len(RemoveAt(s, i)) = Len(s) - 1
         /\ \A n \in 1 .. Len(s) - 1 :
              RemoveAt(s, i)[n] = IF n < i THEN s[n] ELSE s[n + 1]
  <1> DEFINE front == SubSeq(s, 1, i - 1)
             back  == SubSeq(s, i + 1, Len(s))
  <1>1. Len(s) \in Nat /\ i \in 1 .. Len(s) /\ \A n \in 1 .. Len(s) : s[n] \in Jobs
    OBVIOUS
  <1>2. /\ front \in Seq(Jobs) /\ Len(front) = i - 1
        /\ \A n \in 1 .. i - 1 : front[n] = s[n]
    <2>1. \A n \in 1 .. i - 1 : s[n] \in Jobs
      BY <1>1
    <2> QED
      BY <1>1, <2>1, SubSeqProperties
  <1>3. /\ back \in Seq(Jobs) /\ Len(back) = Len(s) - i
        /\ \A n \in 1 .. Len(s) - i : back[n] = s[n + i]
    <2>1. \A n \in i + 1 .. Len(s) : s[n] \in Jobs
      BY <1>1
    <2> QED
      BY <1>1, <2>1, SubSeqProperties
  <1>4. RemoveAt(s, i) = front \o back
    BY DEF RemoveAt
  <1> HIDE DEF front, back
  <1>5. /\ front \o back \in Seq(Jobs)
        /\ Len(front \o back) = Len(front) + Len(back)
        /\ \A n \in 1 .. Len(front) + Len(back) :
             (front \o back)[n] = IF n <= Len(front) THEN front[n] ELSE back[n - Len(front)]
    BY <1>2, <1>3, ConcatProperties
  <1>6. /\ Len(front) = i - 1 /\ Len(back) = Len(s) - i
        /\ Len(front) + Len(back) = Len(s) - 1 /\ i \in Int /\ Len(s) \in Int
    BY <1>1, <1>2, <1>3
  <1>7. ASSUME NEW n \in 1 .. Len(s) - 1
        PROVE  (front \o back)[n] = IF n < i THEN s[n] ELSE s[n + 1]
    <2>1. CASE n < i
      <3>1. n \in 1 .. i - 1 /\ n <= Len(front)
        BY <1>6, <2>1
      <3> QED
        BY <1>2, <1>5, <1>6, <2>1, <3>1
    <2>2. CASE ~(n < i)
      <3>1. PICK m \in 1 .. Len(s) - i : m = n - Len(front) /\ m + i = n + 1
        <4>1. /\ Len(s) \in Nat /\ i \in 1 .. Len(s) /\ ~(n < i)
              /\ n - (i - 1) = n - Len(front)
          BY <1>1, <1>6, <2>2
        <4> QED
          BY ONLY <4>1, n \in 1 .. Len(s) - 1, Shift
      <3>2. n \in 1 .. Len(front) + Len(back) /\ ~(n <= Len(front))
        BY <1>6, <2>2
      <3>3. (front \o back)[n] = back[m]
        BY <1>5, <3>1, <3>2
      <3>4. back[m] = s[n + 1]
        <4>1. back[m] = s[m + i]
          BY <1>3
        <4> QED
          BY <3>1, <4>1
      <3> QED
        BY <2>2, <3>3, <3>4
    <2> QED
      BY <2>1, <2>2
  <1> QED
    BY <1>1, <1>4, <1>5, <1>6, <1>7

LEMMA ConverterType ==
  ASSUME TypeOK, SlotsConserved, NEW j \in Jobs, Convert(j) \/ Hangs(j)
  PROVE  TypeOK'
  <1> USE DEF TypeOK, Goto, Converting, disk, sema
  <1>1. j \in holders \cup ToSet(waiters) => AfterConverter(pc[j]) \in Places
    BY AfterConverterPlace DEF SlotsConserved, Places, Ended
  <1>2. CASE Acquire(j)
    <2>1. Append(waiters, j) \in Seq(Jobs)
      BY AppendProperties
    <2> QED
      BY <1>2, <2>1 DEF Acquire
  <1>3. CASE Wake(j)
    BY <1>3 DEF Wake
  <1>4. CASE TimesOut(j)
    <2>1. waiters' \in Seq(Jobs) /\ j \in ToSet(waiters)
      BY <1>4, Leaving DEF TimesOut, ToSet
    <2> QED
      BY <1>1, <1>4, <2>1 DEF TimesOut
  <1>5. CASE Converted(j)
    <2>1. waiters = <<>> \/ (Head(waiters) \in Jobs /\ Tail(waiters) \in Seq(Jobs))
      BY HeadTailProperties
    <2>2. holders' \subseteq Jobs /\ waiters' \in Seq(Jobs)
      BY <1>5, <2>1 DEF Converted, Release
    <2> QED
      BY <1>1, <1>5, <2>2 DEF Converted, Release
  <1>6. CASE Hangs(j)
    BY <1>6 DEF Hangs
  <1> QED
    BY <1>2, <1>3, <1>4, <1>5, <1>6 DEF Convert
-----------------------------------------------------------------------------
(* What a type may weigh *)

\* The keys are all there, in some order.
LEMMA KeysInOrder ==
  ASSUME TypeOK
  PROVE  /\ DOMAIN keys = 1 .. Cardinality(Keys) /\ Cardinality(Keys) \in Nat
         /\ \A i \in DOMAIN keys : keys[i] \in Keys
         /\ \A k \in Keys : \E i \in DOMAIN keys : keys[i] = k
  <1> DEFINE D == 1 .. Cardinality(Keys)
  <1>1. Cardinality(Keys) \in Nat /\ IsFiniteSet(Keys)
    BY FS_CardinalityType, UploadsAssumption
  <1>2. keys \in [D -> Keys] /\ \A i, j \in D : i # j => keys[i] # keys[j]
    BY DEF TypeOK, SetToSeqs
  <1>3. keys \in Injection(D, Keys)
    BY <1>2 DEF Injection, IsInjective
  <1>4. Cardinality(D) = Cardinality(Keys)
    BY <1>1, FS_Interval
  <1>5. keys \in Surjection(D, Keys)
    BY <1>1, <1>3, <1>4, FS_Injection
  <1> QED
    BY <1>1, <1>2, <1>5 DEF Surjection

\* A set of positions has a last one: Max is defined.
LEMMA MaxExists ==
  ASSUME NEW n \in Nat, NEW hits \in SUBSET (1 .. n), hits # {}
  PROVE  Max(hits) \in hits
  <1> DEFINE away == {n - i : i \in hits}
  <1>1. away \subseteq Nat /\ away # {}
    <2>1. \A i \in hits : i \in Int /\ n - i \in Nat
      OBVIOUS
    <2> QED
      BY <2>1
  <1>2. PICK least \in away : \A y \in away : ~(<<y, least>> \in OpToRel(<, Nat))
    BY <1>1, NatLessThanWellFounded, WFMin
  <1>3. \A y \in away : least <= y
    <2> SUFFICES ASSUME NEW y \in away, ~(least <= y) PROVE FALSE
      OBVIOUS
    <2>1. <<y, least>> \in Nat \X Nat /\ y < least
      BY <1>1
    <2> QED
      BY <1>2, <2>1 DEF OpToRel
  <1>4. PICK i \in hits : least = n - i
    OBVIOUS
  <1>5. \A j \in hits : i >= j
    <2> TAKE j \in hits
    <2>1. n - j \in away
      OBVIOUS
    <2>2. n - i <= n - j
      BY <1>3, <1>4, <2>1
    <2>3. i \in Int /\ j \in Int
      OBVIOUS
    <2> QED
      BY <2>2, <2>3
  <1> QED
    BY <1>5 DEF Max

\* A file that is not too large weighs no more than the keys that match its type say,
\* whatever their order, if they say the same: WrapReader and LimitedReader.
LEMMA LimitPermits ==
  ASSUME TypeOK, NEW m \in Accepted, ~TooLarge(m.size, Limit(m.type))
  PROVE  m.size \in Permitted(m.type)
  <1> DEFINE hits == {i \in DOMAIN keys : <<m.type, keys[i]>> \in Matching}
  <1>1. m.size \in Sizes /\ m.size \in Nat /\ m.size <= MaxFileSize /\ MaxFileSize \in Nat
    BY UploadsAssumption DEF Accepted
  <1> SUFFICES ASSUME Agreed(m.type), NEW k \in Keys, <<m.type, k>> \in Matching
               PROVE  KeySize[k] = 0 \/ m.size <= KeySize[k]
    BY <1>1 DEF Permitted
  <1>2. hits # {} /\ hits \in SUBSET (1 .. Cardinality(Keys)) /\ Cardinality(Keys) \in Nat
    BY KeysInOrder
  <1>3. Max(hits) \in hits
    BY <1>2, MaxExists
  <1> DEFINE l == keys[Max(hits)]
  <1>4. l \in Keys /\ <<m.type, l>> \in Matching /\ KeySize[l] \in Nat
    BY <1>3, KeysInOrder, UploadsAssumption
  <1>5. SizeLimit(m.type) = KeySize[l]
    BY <1>2 DEF SizeLimit
  <1>6. KeySize[l] = 0 \/ m.size <= KeySize[l]
    <2> HIDE DEF l
    <2> QED
      BY <1>1, <1>4, <1>5 DEF TooLarge, Limit
  <1>7. KeySize[k] = KeySize[l]
    BY <1>4 DEF Agreed
  <1> QED
    BY <1>6, <1>7
-----------------------------------------------------------------------------
(* The files *)

LEMMA InitFiles == Init => FileInv
  BY DEF Init, FileInv, Jobs, InDirectory, Ongoing, Storing

\* The goroutine of one file, and the one that removes it, do not touch others.
LEMMA StoreFiles ==
  ASSUME TypeOK, FileInv, NEW f \in Files, Store(f) \/ CleanupPost(f)
  PROVE  FileInv'
  <1> USE DEF FileInv, TypeOK, Goto, Jobs, Storing, Ongoing, InDirectory, disk, sema
  <1>1. \A t : Permitted(t)' = Permitted(t)
    BY DEF Permitted, Agreed
  <1>2. CASE Open(f)
    BY <1>1, <1>2 DEF Open
  <1>3. CASE Create(f)
    BY <1>1, <1>3 DEF Create
  <1>4. CASE Copy(f)
    BY <1>1, <1>4 DEF Copy
  <1>5. CASE CopyEnds(f)
    <2>1. meta[f] \in Accepted /\ temp[f] = meta[f].size
      BY <1>5 DEF CopyEnds
    <2>2. pc'[f] = "rename" => meta[f].size \in Permitted(meta[f].type)
      BY <1>5, <2>1, LimitPermits DEF CopyEnds
    <2> QED
      BY <1>1, <1>5, <2>1, <2>2 DEF CopyEnds
  <1>6. CASE DiskFails(f)
    BY <1>1, <1>6 DEF DiskFails
  <1>7. CASE Undo(f)
    BY <1>1, <1>7 DEF Undo
  <1>8. CASE Rename(f)
    BY <1>1, <1>8, UploadsAssumption DEF Rename
  <1>9. CASE Decode(f)
    BY <1>1, <1>9 DEF Decode
  <1>10. CASE CleanupPost(f)
    BY <1>1, <1>10 DEF CleanupPost
  <1>11. CASE OpenFails(f)
    BY <1>1, <1>11 DEF OpenFails
  <1> QED
    BY <1>2, <1>3, <1>4, <1>5, <1>6, <1>7, <1>8, <1>9, <1>10, <1>11 DEF Store

LEMMA BatchFiles ==
  ASSUME TypeOK, FileInv
  PROVE  /\ \A b \in SUBSET Files : \A form \in [b -> Form] :
              Submit(b, form) \/ SubmitRefused(b, form) => FileInv'
         /\ \A b \in SUBSET Files : CreatePosts(b) => FileInv'
         /\ Restart => FileInv'
  <1> USE DEF FileInv, TypeOK, GotoAll, New, Jobs, Storing, Ongoing, InDirectory, disk, sema
  <1>1. \A t : Permitted(t)' = Permitted(t)
    BY DEF Permitted, Agreed
  <1>2. ASSUME NEW b \in SUBSET Files, NEW form \in [b -> Form], Submit(b, form)
        PROVE  FileInv'
    <2>1. \A f \in b : [type |-> form[f].type, size |-> form[f].size] \in Accepted
      BY <1>2 DEF Submit, Accepts, Form, Accepted
    <2>2. \A f \in b : meta'[f] \in Accepted /\ pc'[f] = "open" /\ pc[f] = "none"
      BY <1>2, <2>1 DEF Submit
    <2>3. \A f \in Files \ b : meta'[f] = meta[f] /\ pc'[f] = pc[f]
      BY <1>2 DEF Submit
    <2> QED
      BY <1>1, <1>2, <2>2, <2>3 DEF Submit
  <1>3. ASSUME NEW b \in SUBSET Files, NEW form \in [b -> Form], SubmitRefused(b, form)
        PROVE  FileInv'
    BY <1>1, <1>3 DEF SubmitRefused
  <1>4. ASSUME NEW b \in SUBSET Files, UploadSucceeds(b)
        PROVE  FileInv'
    BY <1>1, <1>4 DEF UploadSucceeds
  <1>5. ASSUME NEW b \in SUBSET Files, UploadFails(b)
        PROVE  FileInv'
    BY <1>1, <1>5 DEF UploadFails
  <1>6. ASSUME Restart
        PROVE  FileInv'
    <2>1. \A f \in Files :
            \/ pc[f] \in Ended \cup {"none"} /\ pc'[f] = pc[f]
            \/ pc[f] \notin Ended \cup {"none"} /\ pc'[f] = "lost"
      BY <1>6, UploadsAssumption DEF Restart
    <2> QED
      BY <1>1, <1>6, <2>1 DEF Restart, Ended
  <1> QED
    BY <1>2, <1>3, <1>4, <1>5, <1>6 DEF CreatePosts

\* A converter moves a file from one place in the directory to another.
LEMMA ConverterFiles ==
  ASSUME TypeOK, FileInv, SlotsConserved, NEW j \in Jobs, Convert(j) \/ Hangs(j)
  PROVE  FileInv'
  <1> USE DEF FileInv, Storing, Ongoing, InDirectory, disk, sema
  <1>1. \A t : Permitted(t)' = Permitted(t)
    BY DEF Permitted, Agreed
  <1>2. ASSUME Goto(j, AfterConverter(pc[j])), j \in holders \cup ToSet(waiters),
               UNCHANGED <<meta, temp, final, batches>>
        PROVE  FileInv'
    <2>1. pc[j] \in Converting
      BY <1>2 DEF SlotsConserved
    <2>2. j \in Files => pc[j] \in {"probe", "frame"} /\ pc'[j] \in {"frame", "done"}
      BY <1>2, <2>1, AfterConverterPlace DEF Converting, Goto, TypeOK
    <2>3. \A f \in Files : f # j => pc'[f] = pc[f]
      BY <1>2 DEF Goto, TypeOK, Jobs
    <2> QED
      BY <1>1, <1>2, <2>2, <2>3
  <1>3. CASE Acquire(j) \/ Wake(j) \/ Hangs(j)
    BY <1>1, <1>3 DEF Acquire, Wake, Hangs
  <1>4. CASE TimesOut(j)
    BY <1>2, <1>4 DEF TimesOut, ToSet
  <1>5. CASE Converted(j)
    BY <1>2, <1>5 DEF Converted, TypeOK
  <1> QED
    BY <1>3, <1>4, <1>5 DEF Convert

LEMMA ThumbnailInv ==
  ASSUME TypeOK, FileInv, NEW t \in Thumbs, Thumbnail(t)
  PROVE  TypeOK' /\ FileInv'
  <1>1. t \notin Files /\ t \in Jobs
    BY UploadsAssumption DEF Jobs
  <1>2. TypeOK'
    BY <1>1 DEF Thumbnail, TypeOK, Goto, Places, Converting, disk, sema
  <1>3. \A f \in Files : pc'[f] = pc[f]
    BY <1>1 DEF Thumbnail, TypeOK, Goto, Jobs
  <1>4. FileInv'
    BY <1>3 DEF Thumbnail, FileInv, Permitted, Agreed, Storing, Ongoing, InDirectory, disk
  <1> QED
    BY <1>2, <1>4
-----------------------------------------------------------------------------
(* The semaphore *)

LEMMA InitSlots == Init => SlotsConserved
  <1> SUFFICES ASSUME Init PROVE SlotsConserved
    OBVIOUS
  <1>1. holders = {} /\ waiters = <<>> /\ ToSet(waiters) = {}
    BY DEF Init, ToSet
  <1>2. Cardinality(holders) <= Slots
    BY <1>1, FS_EmptySet, UploadsAssumption
  <1> QED
    BY <1>1, <1>2 DEF SlotsConserved, IsInjective

\* Jobs that are not at the converters may move.
LEMMA SlotsKept ==
  ASSUME SlotsConserved, UNCHANGED <<holders, waiters>>,
         \A j \in Jobs : pc[j] \in Converting => pc'[j] = pc[j],
         holders \cup ToSet(waiters) \subseteq Jobs
  PROVE  SlotsConserved'
  BY DEF SlotsConserved, ToSet

LEMMA InLine ==
  ASSUME TypeOK
  PROVE  /\ holders \cup ToSet(waiters) \subseteq Jobs
         /\ IsFiniteSet(holders) /\ Cardinality(holders) \in Nat
         /\ DOMAIN waiters = 1 .. Len(waiters) /\ Len(waiters) \in Nat
  <1>1. holders \subseteq Jobs /\ waiters \in Seq(Jobs)
    BY DEF TypeOK
  <1> QED
    BY <1>1, FS_Subset, FS_CardinalityType, UploadsAssumption DEF ToSet

LEMMA OtherSlots ==
  ASSUME TypeOK, SlotsConserved
  PROVE  /\ \A f \in Files : Store(f) \/ CleanupPost(f) => SlotsConserved'
         /\ \A b \in SUBSET Files : \A form \in [b -> Form] :
              Submit(b, form) \/ SubmitRefused(b, form) => SlotsConserved'
         /\ \A b \in SUBSET Files : CreatePosts(b) => SlotsConserved'
         /\ \A t \in Thumbs : Thumbnail(t) => SlotsConserved'
         /\ Restart => SlotsConserved'
  <1> USE DEF TypeOK, Goto, GotoAll, New, Converting, Jobs, sema
  <1>1. ASSUME NEW f \in Files, Store(f) \/ CleanupPost(f)
        PROVE  SlotsConserved'
    <2>1. pc[f] \notin Converting /\ UNCHANGED <<holders, waiters>>
          /\ \A j \in Jobs : j # f => pc'[j] = pc[j]
      BY <1>1 DEF Store, CleanupPost, Open, OpenFails, Create, Copy, CopyEnds, DiskFails, Undo,
                  Rename, Decode
    <2> QED
      BY <2>1, InLine, SlotsKept
  <1>2. ASSUME NEW b \in SUBSET Files, NEW form \in [b -> Form],
               Submit(b, form) \/ SubmitRefused(b, form)
        PROVE  SlotsConserved'
    <2>1. UNCHANGED <<holders, waiters>>
          /\ \A j \in Jobs : pc[j] \in Converting => pc'[j] = pc[j]
      BY <1>2 DEF Submit, SubmitRefused
    <2> QED
      BY <2>1, InLine, SlotsKept
  <1>3. ASSUME NEW b \in SUBSET Files, CreatePosts(b)
        PROVE  SlotsConserved'
    <2>1. UNCHANGED <<holders, waiters>>
          /\ \A j \in Jobs : pc[j] \in Converting => pc'[j] = pc[j]
      BY <1>3 DEF CreatePosts, UploadSucceeds, UploadFails
    <2> QED
      BY <2>1, InLine, SlotsKept
  <1>4. ASSUME NEW t \in Thumbs, Thumbnail(t)
        PROVE  SlotsConserved'
    <2>1. UNCHANGED <<holders, waiters>>
          /\ \A j \in Jobs : pc[j] \in Converting => pc'[j] = pc[j]
      BY <1>4 DEF Thumbnail
    <2> QED
      BY <2>1, InLine, SlotsKept
  <1>5. ASSUME Restart
        PROVE  SlotsConserved'
    <2>1. holders' = {} /\ waiters' = <<>> /\ ToSet(waiters)' = {}
      BY <1>5 DEF Restart, ToSet
    <2>2. Cardinality(holders)' <= Slots
      BY <2>1, FS_EmptySet, UploadsAssumption
    <2> QED
      BY <2>1, <2>2 DEF SlotsConserved, IsInjective
  <1> QED
    BY <1>1, <1>2, <1>3, <1>4, <1>5

LEMMA AcquireSlots ==
  ASSUME TypeOK, SlotsConserved, NEW j \in Jobs, Acquire(j)
  PROVE  SlotsConserved'
  <1>1. pc' = pc /\ pc[j] \in Converting /\ j \notin holders /\ j \notin ToSet(waiters)
    BY DEF Acquire
  <1>2. CASE Cardinality(holders) < Slots /\ waiters = <<>>
    <2>1. holders' = holders \cup {j} /\ waiters' = <<>> /\ ToSet(waiters)' = {}
      BY <1>2 DEF Acquire, ToSet
    <2>2. Cardinality(holders') = Cardinality(holders) + 1
      BY <1>1, <2>1, InLine, FS_AddElement
    <2>3. Cardinality(holders)' <= Slots
      BY <1>2, <2>2, InLine, UploadsAssumption
    <2> QED
      BY <1>1, <2>1, <2>3 DEF SlotsConserved, IsInjective
  <1>3. CASE ~(Cardinality(holders) < Slots /\ waiters = <<>>)
    <2>1. holders' = holders /\ waiters' = Append(waiters, j) /\ waiters \in Seq(Jobs)
      BY <1>3 DEF Acquire, TypeOK
    <2>2. /\ DOMAIN waiters' = 1 .. Len(waiters) + 1
          /\ \A i \in 1 .. Len(waiters) : waiters'[i] = waiters[i]
          /\ waiters'[Len(waiters) + 1] = j
      BY <2>1, AppendProperties, InLine
    <2>3. ToSet(waiters)' = ToSet(waiters) \cup {j}
      BY <2>2, InLine DEF ToSet
    <2>4. IsInjective(waiters)'
      BY <1>1, <2>2, InLine DEF IsInjective, ToSet, SlotsConserved
    <2>5. Cardinality(holders) = Slots
      BY <1>3, InLine, UploadsAssumption DEF SlotsConserved
    <2> QED
      BY <1>1, <2>1, <2>3, <2>4, <2>5 DEF SlotsConserved
  <1> QED
    BY <1>2, <1>3

LEMMA TimesOutSlots ==
  ASSUME TypeOK, SlotsConserved, NEW j \in Jobs, TimesOut(j)
  PROVE  SlotsConserved'
  <1>1. PICK i \in DOMAIN waiters : waiters[i] = j /\ waiters' = RemoveAt(waiters, i)
    BY DEF TimesOut
  <1>2. waiters \in Seq(Jobs) /\ j \in ToSet(waiters) /\ i \in 1 .. Len(waiters)
    BY <1>1, InLine DEF TypeOK, ToSet
  <1>3. /\ DOMAIN waiters' = 1 .. Len(waiters) - 1
        /\ \A n \in 1 .. Len(waiters) - 1 :
             waiters'[n] = IF n < i THEN waiters[n] ELSE waiters[n + 1]
    BY <1>1, <1>2, Leaving
  <1>4. IsInjective(waiters)'
    BY <1>2, <1>3, InLine DEF IsInjective, SlotsConserved
  <1>5. ToSet(waiters)' \subseteq ToSet(waiters) \ {j}
    <2> SUFFICES ASSUME NEW n \in DOMAIN waiters'
                 PROVE  waiters'[n] \in ToSet(waiters) \ {j}
      BY DEF ToSet
    <2>1. PICK m \in 1 .. Len(waiters) : m # i /\ waiters'[n] = waiters[m]
      BY <1>2, <1>3, InLine
    <2> QED
      BY <1>1, <2>1, InLine DEF ToSet, IsInjective, SlotsConserved
  <1>6. waiters' # <<>> => waiters # <<>>
    BY <1>2, <1>3, InLine
  <1>7. holders' = holders /\ j \notin holders
        /\ \A k \in Jobs : k # j => pc'[k] = pc[k]
    BY <1>2 DEF TimesOut, Goto, TypeOK, SlotsConserved
  <1> QED
    BY <1>4, <1>5, <1>6, <1>7, InLine DEF SlotsConserved

LEMMA ConvertedSlots ==
  ASSUME TypeOK, SlotsConserved, NEW j \in Jobs, Converted(j)
  PROVE  SlotsConserved'
  <1>1. j \in holders /\ j \notin ToSet(waiters)
        /\ \A k \in Jobs : k # j => pc'[k] = pc[k]
    BY DEF Converted, Goto, TypeOK, SlotsConserved
  <1>2. /\ IsFiniteSet(holders \ {j})
        /\ Cardinality(holders \ {j}) = Cardinality(holders) - 1
    BY <1>1, InLine, FS_RemoveElement
  <1>3. CASE waiters = <<>>
    <2>1. holders' = holders \ {j} /\ waiters' = waiters /\ ToSet(waiters) = {}
      BY <1>3 DEF Converted, Release, ToSet
    <2>2. Cardinality(holders)' <= Slots
      BY <1>2, <2>1, InLine, UploadsAssumption DEF SlotsConserved
    <2> QED
      BY <1>1, <1>3, <2>1, <2>2, InLine DEF SlotsConserved, ToSet
  <1>4. CASE waiters # <<>>
    <2> DEFINE h == Head(waiters)
    <2>1. /\ holders' = (holders \ {j}) \cup {h} /\ waiters' = Tail(waiters)
          /\ waiters \in Seq(Jobs) /\ h = waiters[1] /\ 1 \in DOMAIN waiters
      BY <1>4, InLine DEF Converted, Release, TypeOK
    <2>2. /\ DOMAIN waiters' = 1 .. Len(waiters) - 1
          /\ \A n \in 1 .. Len(waiters) - 1 : waiters'[n] = waiters[n + 1]
      BY <1>4, <2>1, HeadTailProperties, InLine
    <2> HIDE DEF h
    <2>3. h \in ToSet(waiters) /\ h \notin holders /\ h # j
      BY <1>1, <2>1 DEF ToSet, SlotsConserved
    <2>4. Cardinality(holders') = Cardinality(holders)
      <3>1. Cardinality((holders \ {j}) \cup {h}) = Cardinality(holders \ {j}) + 1
        BY <1>2, <2>3, FS_AddElement
      <3> QED
        BY <1>2, <2>1, <3>1, InLine
    <2>5. IsInjective(waiters)'
      BY <2>2, InLine DEF IsInjective, SlotsConserved
    <2>6. ToSet(waiters)' \subseteq ToSet(waiters) \ {h}
      <3> SUFFICES ASSUME NEW n \in DOMAIN waiters'
                   PROVE  waiters'[n] \in ToSet(waiters) \ {h}
        BY DEF ToSet
      <3>1. n + 1 \in DOMAIN waiters /\ n + 1 # 1 /\ waiters'[n] = waiters[n + 1]
        BY <2>2, InLine
      <3> QED
        BY <2>1, <3>1 DEF ToSet, IsInjective, SlotsConserved
    <2>7. Cardinality(holders) = Slots
      BY <1>4 DEF SlotsConserved
    <2> QED
      BY <1>1, <2>1, <2>3, <2>4, <2>5, <2>6, <2>7, InLine, UploadsAssumption
         DEF SlotsConserved
  <1> QED
    BY <1>3, <1>4

LEMMA ConverterSlots ==
  ASSUME TypeOK, SlotsConserved, NEW j \in Jobs, Convert(j) \/ Hangs(j)
  PROVE  SlotsConserved'
  <1>1. CASE Wake(j) \/ Hangs(j)
    BY <1>1, InLine, SlotsKept DEF Wake, Hangs
  <1> QED
    BY <1>1, AcquireSlots, TimesOutSlots, ConvertedSlots DEF Convert

-----------------------------------------------------------------------------
(* The theorems about the invariants *)

Inv == TypeOK /\ FileInv /\ SlotsConserved

LEMMA InitInv == Init => Inv
  BY InitType, InitFiles, InitSlots DEF Inv

LEMMA NextInv == Inv /\ [Next]_vars => Inv'
  <1> SUFFICES ASSUME Inv, [Next]_vars PROVE Inv'
    OBVIOUS
  <1> USE DEF Inv
  <1>1. ASSUME NEW b \in SUBSET Files, NEW form \in [b -> Form],
               Submit(b, form) \/ SubmitRefused(b, form)
        PROVE  Inv'
    BY <1>1, BatchType, BatchFiles, OtherSlots
  <1>2. ASSUME NEW f \in Files, Store(f) \/ CleanupPost(f)
        PROVE  Inv'
    BY <1>2, UploadType, StoreFiles, OtherSlots
  <1>3. ASSUME NEW b \in SUBSET Files, CreatePosts(b)
        PROVE  Inv'
    BY <1>3, BatchType, BatchFiles, OtherSlots
  <1>4. ASSUME NEW t \in Thumbs, Thumbnail(t)
        PROVE  Inv'
    BY <1>4, ThumbnailInv, OtherSlots
  <1>5. ASSUME NEW j \in Jobs, Convert(j) \/ Hangs(j)
        PROVE  Inv'
    BY <1>5, ConverterType, ConverterFiles, ConverterSlots
  <1>6. CASE Restart
    BY <1>6, BatchType, BatchFiles, OtherSlots
  <1>7. CASE UNCHANGED vars
    BY <1>7 DEF vars, disk, sema, TypeOK, FileInv, Permitted, Agreed, SlotsConserved
  <1> QED
    BY <1>1, <1>2, <1>3, <1>4, <1>5, <1>6, <1>7 DEF Next
\* The shapes of the variables; no temporary file outgrows MaxFileSize.
THEOREM TypeCorrect == Spec => []TypeOK
  <1>1. Inv => TypeOK
    BY DEF Inv
  <1> QED
    BY <1>1, InitInv, NextInv, PTL DEF Spec

\* Every error of the disk and every limit takes the temporary file away again.
THEOREM TemporaryFilesAreTemporary == Spec => []TemporaryFilesGo
  <1>1. Inv => TemporaryFilesGo
    BY DEF Inv, FileInv, TemporaryFilesGo, Storing
  <1> QED
    BY <1>1, InitInv, NextInv, PTL DEF Spec

\* An upload of which one file fails leaves none in the directory.
THEOREM AllOrNothing == Spec => []UploadsLeaveAllOrNothing
  <1>1. Inv => UploadsLeaveAllOrNothing
    BY DEF Inv, FileInv, UploadsLeaveAllOrNothing, InDirectory, Ongoing
  <1> QED
    BY <1>1, InitInv, NextInv, PTL DEF Spec

\* No slot is lost or given twice, and nobody waits while one is free.
THEOREM SlotsAreConserved == Spec => []SlotsConserved
  <1>1. Inv => SlotsConserved
    BY DEF Inv
  <1> QED
    BY <1>1, InitInv, NextInv, PTL DEF Spec

-----------------------------------------------------------------------------
(* The directory is an atomic store *)

\* What those who look into the directory see of a file.
Seen(f) == <<FateOf(f), DirOf(f)>>

LEMMA InitStore == Init => Directory!Init
  BY DEF Init, Directory!Init, FateOf, DirOf, Jobs

LEMMA Unseen ==
  ASSUME \A f \in Files : Seen(f)' = Seen(f)
  PROVE  UNCHANGED Directory!vars
  BY DEF Seen, Directory!vars

\* It looks the same as long as its content does, wherever its goroutine is.
LEMMA SameSight ==
  ASSUME NEW f \in Files, final'[f] = final[f], meta'[f] = meta[f],
         \/ final[f] # None
         \/ pc'[f] = pc[f]
         \/ /\ pc[f] \notin {"removed", "failed", "refused", "lost"}
            /\ pc'[f] \notin {"removed", "failed", "refused", "lost"}
  PROVE  Seen(f)' = Seen(f)
  <1>1. FateOf(f)' = FateOf(f)
    BY DEF FateOf
  <1>2. DirOf(f)' = DirOf(f)
    BY DEF DirOf
  <1> QED
    BY <1>1, <1>2 DEF Seen

\* Files that are on their way, and not in the directory, are turned down.
LEMMA TurnedDown ==
  ASSUME NEW fs \in SUBSET Files,
         \A f \in fs : /\ FateOf(f) = "sent" /\ FateOf(f)' = "refused"
                        /\ DirOf(f)' = DirOf(f),
         \A f \in Files \ fs : Seen(f)' = Seen(f)
  PROVE  [Directory!Next]_Directory!vars
  <1>1. Directory!Refuse(fs)
    BY DEF Directory!Refuse, Seen
  <1> QED
    BY <1>1 DEF Directory!Next

LEMMA StoreAtomic ==
  ASSUME Inv, NEW f \in Files, Store(f) \/ CleanupPost(f)
  PROVE  [Directory!Next]_Directory!vars
  <1> USE DEF Inv, TypeOK, FileInv, Goto, Jobs, Storing, InDirectory, Ongoing, disk, sema
  <1>1. \A g \in Files \ {f} : FateOf(g)' = FateOf(g) /\ DirOf(g)' = DirOf(g)
    BY DEF Store, CleanupPost, Open, OpenFails, Create, Copy, CopyEnds, DiskFails, Undo, Rename,
           Decode, FateOf, DirOf
  <1>2. ASSUME FateOf(f) = "sent", FateOf(f)' = "refused", DirOf(f)' = DirOf(f)
        PROVE  [Directory!Next]_Directory!vars
    <2>1. {f} \in SUBSET Files /\ \A g \in Files \ {f} : Seen(g)' = Seen(g)
      BY <1>1 DEF Seen
    <2> QED
      BY ONLY <1>2, <2>1, TurnedDown
  <1>3. ASSUME FateOf(f)' = FateOf(f), DirOf(f)' = DirOf(f)
        PROVE  [Directory!Next]_Directory!vars
    <2>1. \A g \in Files : Seen(g)' = Seen(g)
      BY <1>1, <1>3 DEF Seen
    <2> QED
      BY ONLY <2>1, Unseen
  <1>4. CASE Open(f) \/ OpenFails(f)
    BY <1>2, <1>3, <1>4 DEF Open, OpenFails, FateOf, DirOf
  <1>5. CASE Create(f) \/ Copy(f) \/ CopyEnds(f) \/ DiskFails(f) \/ Decode(f)
    BY <1>3, <1>5 DEF Create, Copy, CopyEnds, DiskFails, Decode, FateOf, DirOf
  <1>6. CASE Undo(f)
    BY <1>2, <1>6 DEF Undo, FateOf, DirOf
  <1>7. CASE Rename(f)
    <2> DEFINE c == [type |-> meta[f].type, size |-> temp[f]]
    <2>1. /\ meta[f] \in Accepted /\ temp[f] = meta[f].size
          /\ meta[f].type \in AllowedTypes /\ meta[f].size \in Permitted(meta[f].type)
      BY <1>7 DEF Rename
    <2>2. c \in {d \in [type : AllowedTypes, size : Sizes] : d.size \in Permitted(d.type)}
      BY <2>1 DEF Accepted
    <2>3. FateOf(f) = "sent" /\ FateOf(f)' = "stored" /\ DirOf(f)' = c
      BY <1>7, UploadsAssumption DEF Rename, FateOf, DirOf
    <2> HIDE DEF c
    <2>4. Directory!Store(f)
      BY ONLY <1>1, <2>2, <2>3, f \in Files DEF Directory!Store
    <2> QED
      BY ONLY <2>4, f \in Files DEF Directory!Next
  <1>8. CASE CleanupPost(f)
    <2>1. FateOf(f) = "stored" /\ FateOf(f)' = "removed" /\ DirOf(f)' = None
      BY <1>8 DEF CleanupPost, FateOf, DirOf
    <2>2. Directory!Remove(f)
      BY ONLY <1>1, <2>1, f \in Files DEF Directory!Remove
    <2> QED
      BY ONLY <2>2, f \in Files DEF Directory!Next
  <1> QED
    BY <1>4, <1>5, <1>6, <1>7, <1>8 DEF Store

LEMMA BatchAtomic ==
  ASSUME Inv
  PROVE  /\ \A b \in SUBSET Files : \A form \in [b -> Form] :
              Submit(b, form) \/ SubmitRefused(b, form) => [Directory!Next]_Directory!vars
         /\ \A b \in SUBSET Files : CreatePosts(b) => [Directory!Next]_Directory!vars
         /\ Restart => [Directory!Next]_Directory!vars
  <1> USE DEF Inv, TypeOK, FileInv, GotoAll, New, Jobs, Storing, InDirectory, Ongoing, disk, sema
  <1>1. ASSUME NEW b \in SUBSET Files, NEW form \in [b -> Form], Submit(b, form)
        PROVE  [Directory!Next]_Directory!vars
    <2>1. ASSUME NEW f \in b
          PROVE  Seen(f)' = Seen(f)
      <3>1. pc[f] = "none" /\ pc'[f] = "open" /\ final[f] = None /\ final'[f] = None
        BY <1>1 DEF Submit
      <3>2. FateOf(f)' = FateOf(f) /\ DirOf(f)' = DirOf(f)
        BY ONLY <3>1 DEF FateOf, DirOf
      <3> QED
        BY <3>2 DEF Seen
    <2>2. ASSUME NEW f \in Files \ b
          PROVE  Seen(f)' = Seen(f)
      <3>1. final'[f] = final[f] /\ meta'[f] = meta[f] /\ pc'[f] = pc[f]
        BY <1>1 DEF Submit
      <3> QED
        BY <3>1, SameSight
    <2> QED
      BY ONLY <2>1, <2>2, Unseen
  <1>2. ASSUME NEW b \in SUBSET Files, NEW form \in [b -> Form], SubmitRefused(b, form)
        PROVE  [Directory!Next]_Directory!vars
    <2>1. \A f \in b : /\ FateOf(f) = "sent" /\ FateOf(f)' = "refused"
                        /\ DirOf(f)' = DirOf(f)
      BY <1>2 DEF SubmitRefused, FateOf, DirOf
    <2>2. \A f \in Files \ b : Seen(f)' = Seen(f)
      BY <1>2 DEF SubmitRefused, Seen, FateOf, DirOf
    <2> QED
      BY ONLY <2>1, <2>2, b \in SUBSET Files, TurnedDown
  <1>3. ASSUME NEW b \in SUBSET Files, CreatePosts(b)
        PROVE  [Directory!Next]_Directory!vars
    <2>1. ASSUME NEW f \in Files
          PROVE  Seen(f)' = Seen(f)
      <3>1. final'[f] = final[f] /\ meta'[f] = meta[f]
        BY <1>3 DEF CreatePosts, UploadSucceeds, UploadFails
      <3>2. \/ pc'[f] = pc[f]
            \/ pc[f] = "done" /\ pc'[f] = "stored"
            \/ pc[f] = "done" /\ pc'[f] = "cleanup"
        <4>1. CASE UploadSucceeds(b)
          BY <4>1 DEF UploadSucceeds
        <4>2. CASE UploadFails(b)
          BY <4>2 DEF UploadFails
        <4> QED
          BY <1>3, <4>1, <4>2 DEF CreatePosts
      <3> QED
        BY ONLY <3>1, <3>2, f \in Files, SameSight
    <2> QED
      BY ONLY <2>1, Unseen
  <1>4. ASSUME Restart
        PROVE  [Directory!Next]_Directory!vars
    <2> DEFINE fs == {f \in Files : pc[f] \notin Ended \cup {"none"} /\ final[f] = None}
    <2>1. \A f \in Files :
            /\ final'[f] = final[f] /\ meta'[f] = meta[f]
            /\ pc'[f] = IF pc[f] \in Ended \cup {"none"} THEN pc[f] ELSE "lost"
      BY <1>4, UploadsAssumption DEF Restart
    <2>2. \A f \in fs : /\ FateOf(f) = "sent" /\ FateOf(f)' = "refused"
                         /\ DirOf(f)' = DirOf(f)
      BY <2>1 DEF FateOf, DirOf, Ended
    <2>3. ASSUME NEW f \in Files \ fs
          PROVE  Seen(f)' = Seen(f)
      <3>1. pc'[f] = pc[f] \/ final[f] # None
        BY <2>1
      <3> QED
        BY <2>1, <3>1, SameSight
    <2>4. fs \in SUBSET Files
      OBVIOUS
    <2> HIDE DEF fs
    <2> QED
      BY ONLY <2>2, <2>3, <2>4, TurnedDown
  <1> QED
    BY <1>1, <1>2, <1>3, <1>4

LEMMA NextStore == Inv /\ [Next]_vars => [Directory!Next]_Directory!vars
  <1> SUFFICES ASSUME Inv, [Next]_vars PROVE [Directory!Next]_Directory!vars
    OBVIOUS
  <1>1. ASSUME NEW t \in Thumbs, Thumbnail(t)
        PROVE  [Directory!Next]_Directory!vars
    <2>1. \A f \in Files : pc'[f] = pc[f] /\ meta' = meta /\ final' = final
      BY <1>1, UploadsAssumption DEF Thumbnail, Goto, Inv, TypeOK, Jobs, disk
    <2>2. \A f \in Files : Seen(f)' = Seen(f)
      BY <2>1 DEF Seen, FateOf, DirOf
    <2> QED
      BY ONLY <2>2, Unseen
  <1>2. ASSUME NEW j \in Jobs, Convert(j) \/ Hangs(j)
        PROVE  [Directory!Next]_Directory!vars
    <2>1. meta' = meta /\ final' = final
      BY <1>2 DEF Convert, Acquire, Wake, TimesOut, Converted, Hangs, disk
    <2>2. \A f \in Files :
            \/ pc'[f] = pc[f]
            \/ pc[f] \in {"probe", "frame"} /\ pc'[f] \in {"frame", "done"}
      <3>1. CASE pc' = pc
        BY <3>1
      <3>2. CASE TimesOut(j) \/ Converted(j)
        <4>1. j \in holders \cup ToSet(waiters) /\ Goto(j, AfterConverter(pc[j]))
          BY <3>2 DEF TimesOut, Converted, Inv, TypeOK, ToSet
        <4>2. pc[j] \in Converting /\ (j \in Files => pc[j] # "jpeg")
          BY <4>1 DEF Inv, SlotsConserved, FileInv
        <4> QED
          BY <4>1, <4>2, AfterConverterPlace DEF Goto, Inv, TypeOK, Jobs, Converting
      <3> QED
        BY <1>2, <3>1, <3>2 DEF Convert, Acquire, Wake, Hangs
    <2>3. \A f \in Files : Seen(f)' = Seen(f)
      BY <2>1, <2>2 DEF Seen, FateOf, DirOf
    <2> QED
      BY ONLY <2>3, Unseen
  <1>3. CASE UNCHANGED vars
    <2>1. \A f \in Files : Seen(f)' = Seen(f)
      BY <1>3 DEF vars, disk, Seen, FateOf, DirOf
    <2> QED
      BY ONLY <2>1, Unseen
  <1> QED
    BY <1>1, <1>2, <1>3, StoreAtomic, BatchAtomic DEF Next

\* For those who look into it, the directory is an atomic store: a file appears at
\* once, with all of its content and within its limits, or never.
THEOREM DirectoryIsAtomic == Spec => StoreSpec
  <1>1. Spec => []Inv
    BY InitInv, NextInv, PTL DEF Spec
  <1> QED
    BY <1>1, InitStore, NextStore, PTL DEF Spec, StoreSpec, Directory!Spec
=============================================================================
