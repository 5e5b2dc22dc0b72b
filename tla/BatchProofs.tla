---------------------------- MODULE BatchProofs ----------------------------
(***************************************************************************)
(* Proofs about Batch, for any number of posts, tags, forms and tries.      *)
(***************************************************************************)
EXTENDS Batch, TLAPS

-----------------------------------------------------------------------------
(* The inductive invariant *)

\* Batch j is through with work w on post i.
Through(j, w, i) == w \notin j.words /\ (j.doing = w => i \notin j.left)

\* What a batch still has to do is of what it was asked.
JobInv ==
  job # None =>
    /\ old \in [Ids -> Row \cup {None}]
    /\ job.kind = "delete" => job.doing = ToDelete /\ job.words = {}
    /\ job.kind = "apply" =>
         /\ job.words \subseteq job.state.tags
         /\ \/ /\ job.doing = ToPermission /\ job.words = job.state.tags
               /\ job.state.perm = Skip => job.left = {}
            \/ job.doing \in job.state.tags \ job.words

\* The same of one tag: the batch wants it to be there, not to be there, or either.
TagBetween(j, was, is, i, t) ==
  LET tag   == [do |-> "tag", tag |-> t]
      untag == [do |-> "untag", tag |-> t]
  IN  /\ tag \notin j.state.tags /\ untag \notin j.state.tags =>
           (t \in is.tags <=> t \in was.tags)
      /\ tag \in j.state.tags /\ untag \notin j.state.tags /\ Through(j, tag, i) =>
           t \in is.tags
      /\ untag \in j.state.tags /\ tag \notin j.state.tags /\ Through(j, untag, i) =>
           t \notin is.tags

\* A post on its way from one row to what batch j wants of it.
Between(j, was, is, i) ==
  /\ is.poster = was.poster
  /\ j.state.perm = Skip => is.perm = was.perm
  /\ j.state.perm # Skip /\ Through(j, ToPermission, i) => is.perm = j.state.perm
  /\ \A t \in Tags : TagBetween(j, was, is, i, t)

\* What batch j has made so far of a post that it was to change, from one row to
\* the other.
Made(j, was, is, i) ==
  /\ j.kind = "delete" => (i \notin j.left => is = None)
  /\ j.kind = "apply" =>
       \/ /\ was = None /\ is = None
          /\ j.state.perm # Skip => ~ Through(j, ToPermission, i)
       \/ was # None /\ is # None /\ Between(j, was, is, i)

Accounted ==
  job # None => \A i \in Ids \ touched :
    /\ i \notin job.state.sel => posts[i] = old[i]
    /\ i \in job.state.sel \ job.errs => Made(job, old[i], posts[i], i)

Inv == TypeOK /\ JobInv /\ Accounted

-----------------------------------------------------------------------------
(* What a call does *)

\* One call changes one post.
Only(i) == posts' \in [Ids -> Row \cup {None}] /\ \A k \in Ids \ {i} : posts'[k] = posts[k]

LEMMA RowChanged ==
  ASSUME TypeOK, NEW i \in Ids, NEW row \in Row, posts' = [posts EXCEPT ![i] = row]
  PROVE  Only(i) /\ posts'[i] = row /\ row # None
  BY NoneAssumption DEF TypeOK, Only

LEMMA NothingChanged ==
  ASSUME TypeOK, NEW i \in Ids, UNCHANGED posts
  PROVE  Only(i)
  BY DEF TypeOK, Only

LEMMA PermissionCall ==
  ASSUME TypeOK, NEW i \in Ids, NEW p \in PermsAsked, NEW answer, SetPostPermission(i, p, answer)
  PROVE  /\ Only(i)
         /\ posts[i] = None => posts'[i] = None /\ answer # OK
         /\ posts[i] # None => /\ posts'[i] # None /\ posts'[i].poster = posts[i].poster
                               /\ posts'[i].tags = posts[i].tags
         /\ answer = OK => posts'[i].perm = p
  <1>1. CASE UNCHANGED posts /\ answer # OK
    BY <1>1, NothingChanged
  <1>2. CASE posts[i] # None /\ posts' = [posts EXCEPT ![i].perm = p]
    <2> DEFINE row == [posts[i] EXCEPT !.perm = p]
    <2>1. posts[i] \in Row
      BY <1>2 DEF TypeOK
    <2>2. /\ row \in Row /\ row.perm = p
          /\ row.poster = posts[i].poster /\ row.tags = posts[i].tags
      BY <2>1 DEF Row
    <2>3. posts' = [posts EXCEPT ![i] = row]
      BY <1>2
    <2> HIDE DEF row
    <2> QED
      BY <1>2, <2>2, <2>3, RowChanged
  <1> QED
    BY <1>1, <1>2 DEF SetPostPermission, OK, ErrPostNotFound, Failed

LEMMA DeleteCall ==
  ASSUME TypeOK, NEW i \in Ids, NEW answer, DeletePost(i, answer)
  PROVE  Only(i) /\ (answer = OK => posts'[i] = None)
  BY DEF DeletePost, Only, TypeOK, OK, ErrPostNotFound, Failed

LEMMA TagsChanged ==
  ASSUME TypeOK, NEW i \in Ids, NEW tags \in SUBSET Tags, posts[i] # None,
         posts' = [posts EXCEPT ![i].tags = tags]
  PROVE  /\ Only(i) /\ posts'[i] # None
         /\ posts'[i].poster = posts[i].poster /\ posts'[i].perm = posts[i].perm
         /\ posts'[i].tags = tags
  <1> DEFINE row == [posts[i] EXCEPT !.tags = tags]
  <1>1. posts[i] \in Row
    BY DEF TypeOK
  <1>2. /\ row \in Row /\ row.tags = tags
        /\ row.poster = posts[i].poster /\ row.perm = posts[i].perm
    BY <1>1 DEF Row
  <1>3. posts' = [posts EXCEPT ![i] = row]
    OBVIOUS
  <1> HIDE DEF row
  <1> QED
    BY <1>2, <1>3, RowChanged

LEMMA TagCall ==
  ASSUME TypeOK, NEW i \in Ids, NEW t \in Tags, NEW answer, NEW do \in {"tag", "untag"},
         do = "tag" => TagPost(i, t, answer), do = "untag" => UntagPost(i, t, answer)
  PROVE  /\ Only(i)
         /\ posts[i] = None => posts'[i] = None
         /\ posts[i] # None => /\ posts'[i] # None /\ posts'[i].poster = posts[i].poster
                               /\ posts'[i].perm = posts[i].perm
                               /\ \A g \in Tags \ {t} : g \in posts'[i].tags <=> g \in posts[i].tags
         /\ posts[i] # None /\ answer # Failed => (t \in posts'[i].tags <=> do = "tag")
  <1>1. CASE UNCHANGED posts /\ (posts[i] = None \/ answer = Failed)
    BY <1>1, NothingChanged
  <1>2. CASE do = "tag" /\ posts[i] # None /\ posts' = [posts EXCEPT ![i].tags = @ \cup {t}]
    <2>1. posts[i].tags \cup {t} \in SUBSET Tags
      BY <1>2 DEF TypeOK, Row
    <2>2. posts' = [posts EXCEPT ![i].tags = posts[i].tags \cup {t}]
      BY <1>2
    <2> QED
      BY <1>2, <2>1, <2>2, TagsChanged
  <1>3. CASE do = "untag" /\ posts[i] # None /\ posts' = [posts EXCEPT ![i].tags = @ \ {t}]
    <2>1. posts[i].tags \ {t} \in SUBSET Tags
      BY <1>3 DEF TypeOK, Row
    <2>2. posts' = [posts EXCEPT ![i].tags = posts[i].tags \ {t}]
      BY <1>3
    <2> QED
      BY <1>3, <2>1, <2>2, TagsChanged
  <1> QED
    BY <1>1, <1>2, <1>3 DEF TagPost, UntagPost

-----------------------------------------------------------------------------
(* What a call does for the batch *)

\* What a batch is doing is one of four things.
LEMMA Works ==
  /\ ToPermission \notin Word /\ ToDelete \notin Word /\ ToPermission # ToDelete
  /\ ToPermission.do = "permission" /\ ToDelete.do = "delete"
  /\ \A w \in Word : w.do \in {"tag", "untag"} /\ w.tag \in Tags /\ w = [do |-> w.do, tag |-> w.tag]
  BY DEF ToPermission, ToDelete, Word

\* The batch j after a call for i that may have got its answer.
After(j, i) ==
  /\ j.kind = job.kind /\ j.state = job.state /\ j.words = job.words /\ j.doing = job.doing
  /\ \A k \in Ids \ {i} : k \in j.left <=> k \in job.left

LEMMA PermissionMade ==
  ASSUME Inv, job # None, NEW i \in job.left, NEW answer, NEW j, After(j, i),
         job.doing = ToPermission, Call(i, answer),
         i \in j.left \/ Ignored(answer), i \notin touched, i \notin job.errs
  PROVE  Made(j, old[i], posts'[i], i)
  <1>1. /\ job \in Job /\ i \in Ids /\ i \in job.state.sel
        /\ job.kind = "apply" /\ job.words = job.state.tags
    BY Works DEF Inv, TypeOK, JobInv, Job, State
  <1>2. job.state.perm \in PermsAsked /\ job.state.perm # Skip
    BY <1>1, Works DEF Inv, JobInv, Job, State
  <1>3. SetPostPermission(i, job.state.perm, answer)
    BY Works DEF Call
  <1>4. /\ posts[i] = None => posts'[i] = None /\ answer # OK
        /\ posts[i] # None => /\ posts'[i] # None /\ posts'[i].poster = posts[i].poster
                              /\ posts'[i].tags = posts[i].tags
        /\ answer = OK => posts'[i].perm = job.state.perm
    BY <1>1, <1>2, <1>3, PermissionCall DEF Inv
  <1>5. Made(job, old[i], posts[i], i)
    BY <1>1 DEF Inv, Accounted
  <1>6. Ignored(answer) => answer = OK
    BY Works DEF Ignored
  <1>7. \A w \in job.state.tags : ~ Through(job, w, i) /\ ~ Through(j, w, i)
    BY <1>1 DEF Through, After
  <1>8. i \in j.left => ~ Through(j, ToPermission, i)
    BY DEF Through, After
  <1>9. CASE old[i] = None /\ posts[i] = None
    BY <1>1, <1>4, <1>6, <1>8, <1>9 DEF Made, After
  <1>10. CASE old[i] # None /\ posts[i] # None /\ Between(job, old[i], posts[i], i)
    <2>1. Between(j, old[i], posts'[i], i)
      BY <1>2, <1>4, <1>6, <1>7, <1>8, <1>10 DEF Between, TagBetween, After
    <2> QED
      BY <1>1, <1>4, <1>10, <2>1 DEF Made, After
  <1> QED
    BY <1>1, <1>5, <1>9, <1>10 DEF Made

LEMMA DeleteMade ==
  ASSUME Inv, job # None, NEW i \in job.left, NEW answer, NEW j, After(j, i),
         job.doing = ToDelete, Call(i, answer), i \in j.left \/ Ignored(answer)
  PROVE  Made(j, old[i], posts'[i], i)
  <1>1. job \in Job /\ i \in Ids
    BY DEF Inv, TypeOK, Job
  <1>2. job.kind = "delete"
    BY <1>1, Works DEF Inv, JobInv, Job, State
  <1>3. DeletePost(i, answer)
    BY Works DEF Call
  <1>4. Ignored(answer) => posts'[i] = None
    BY <1>1, <1>3, Works, DeleteCall DEF Ignored, Inv
  <1> QED
    BY <1>2, <1>4 DEF Made, After

LEMMA TagMade ==
  ASSUME Inv, job # None, NEW i \in job.left, NEW answer, NEW j, After(j, i),
         job.doing \in Word, Call(i, answer),
         i \in j.left \/ Ignored(answer), i \notin touched, i \notin job.errs
  PROVE  Made(j, old[i], posts'[i], i)
  <1> DEFINE w == job.doing
  <1>1. /\ job \in Job /\ i \in Ids /\ i \in job.state.sel
        /\ job.kind = "apply" /\ w \in job.state.tags \ job.words
        /\ job.words \subseteq Word /\ job.state.tags \subseteq Word
    BY Works DEF Inv, TypeOK, JobInv, Job, State
  <1>2. w.do \in {"tag", "untag"} /\ w.tag \in Tags /\ w = [do |-> w.do, tag |-> w.tag]
    BY Works
  <1>3. /\ w.do = "tag" => TagPost(i, w.tag, answer)
        /\ w.do = "untag" => UntagPost(i, w.tag, answer)
    BY DEF Call
  <1>4. /\ posts[i] = None => posts'[i] = None
        /\ posts[i] # None => /\ posts'[i] # None /\ posts'[i].poster = posts[i].poster
                              /\ posts'[i].perm = posts[i].perm
                              /\ \A g \in Tags \ {w.tag} :
                                   g \in posts'[i].tags <=> g \in posts[i].tags
        /\ posts[i] # None /\ answer # Failed => (w.tag \in posts'[i].tags <=> w.do = "tag")
    BY <1>1, <1>2, <1>3, TagCall DEF Inv
  <1>5. Made(job, old[i], posts[i], i)
    BY <1>1 DEF Inv, Accounted
  <1>6. Ignored(answer) => answer # Failed
    BY DEF Ignored, OK, ErrTagAlreadyAdded, ErrPostNotFound, Failed
  <1>7. Through(job, ToPermission, i) /\ Through(j, ToPermission, i)
    BY <1>1, Works DEF Through, After
  <1>8. \A v \in Word \ {w} : Through(j, v, i) <=> Through(job, v, i)
    BY DEF Through, After
  <1>9. i \in j.left => ~ Through(j, w, i)
    BY DEF Through, After
  <1>10. CASE old[i] = None /\ posts[i] = None
    BY <1>1, <1>4, <1>5, <1>7, <1>10 DEF Made, After
  <1>11. CASE old[i] # None /\ posts[i] # None /\ Between(job, old[i], posts[i], i)
    <2>1. ASSUME NEW t \in Tags
          PROVE  TagBetween(j, old[i], posts'[i], i, t)
      <3> DEFINE tag   == [do |-> "tag", tag |-> t]
                 untag == [do |-> "untag", tag |-> t]
                 Wants(x, is) ==
                   /\ tag \notin x.state.tags /\ untag \notin x.state.tags =>
                        (t \in is.tags <=> t \in old[i].tags)
                   /\ tag \in x.state.tags /\ untag \notin x.state.tags /\ Through(x, tag, i) =>
                        t \in is.tags
                   /\ untag \in x.state.tags /\ tag \notin x.state.tags /\ Through(x, untag, i) =>
                        t \notin is.tags
      <3>1. tag \in Word /\ untag \in Word
        BY DEF Word
      <3>2. /\ tag = w <=> w.do = "tag" /\ w.tag = t
            /\ untag = w <=> w.do = "untag" /\ w.tag = t
        BY <1>2
      <3>3. Wants(job, posts[i])
        BY <1>11 DEF Between, TagBetween
      <3>4. j.state = job.state
        BY DEF After
      <3>5. Wants(j, posts'[i])
        <4> HIDE DEF tag, untag, w
        <4>1. CASE t = w.tag
          BY <1>1, <1>2, <1>4, <1>6, <1>9, <1>11, <3>2, <3>4, <4>1
        <4>2. CASE t # w.tag
          BY <1>4, <1>8, <1>11, <3>1, <3>2, <3>3, <3>4, <4>2
        <4> QED
          BY <4>1, <4>2
      <3> QED
        BY <3>5 DEF TagBetween
    <2>2. Between(j, old[i], posts'[i], i)
      BY <1>4, <1>7, <1>11, <2>1 DEF Between, After
    <2> QED
      BY <1>1, <1>4, <1>11, <2>2 DEF Made, After
  <1> QED
    BY <1>1, <1>5, <1>10, <1>11 DEF Made

-----------------------------------------------------------------------------
(* Every step keeps the invariant *)

LEMMA InitInv == Init => Inv
  <1> SUFFICES ASSUME Init PROVE Inv
    OBVIOUS
  <1>1. \A i \in Ids : posts[i] \in Row
    BY DEF Init, Row
  <1>2. TypeOK
    BY <1>1, BatchAssumption DEF Init, TypeOK
  <1> QED
    BY <1>2 DEF Init, Inv, JobInv, Accounted

LEMMA StateType ==
  ASSUME TypeOK, NEW form \in Forms
  PROVE  Merged(form) \in State
  <1>1. /\ form.ids \subseteq Ids /\ form.perm \in PermsAsked \cup {Skip, None}
        /\ form.tags \subseteq Word /\ form.untags \subseteq Word
    BY BatchAssumption
  <1>2. Current \in State
    BY DEF Current, NewState, State, TypeOK
  <1> QED
    BY <1>1, <1>2 DEF Merged, State

LEMMA BeginInv ==
  ASSUME Inv, NEW kind \in {"apply", "delete"}, NEW form \in Forms, Begin(kind, form)
  PROVE  Inv'
  <1> DEFINE s == Merged(form)
             j == [kind  |-> kind,
                   state |-> s,
                   words |-> IF kind = "apply" THEN s.tags ELSE {},
                   doing |-> IF kind = "apply" THEN ToPermission ELSE ToDelete,
                   left  |-> IF kind = "apply" /\ s.perm = Skip THEN {} ELSE s.sel,
                   at    |-> None, tries |-> 0, errs  |-> {}]
  <1>1. /\ job' = j /\ old' = posts /\ touched' = {}
        /\ UNCHANGED <<posts, rank, cookie, changes>>
    BY DEF Begin
  <1>2. s \in State
    BY StateType DEF Inv
  <1>3. j \in Job
    <2> HIDE DEF s
    <2>1. 0 \in 0 .. Tries - 1
      BY BatchAssumption
    <2> QED
      BY <1>2, <2>1 DEF Job, State
  <1>4. /\ job'.kind = kind /\ job'.state = s /\ job'.errs = {}
        /\ kind = "apply" => /\ job'.words = s.tags /\ job'.doing = ToPermission
                             /\ s.perm = Skip => job'.left = {}
                             /\ s.perm # Skip => job'.left = s.sel
        /\ kind = "delete" => job'.words = {} /\ job'.doing = ToDelete /\ job'.left = s.sel
    BY <1>1
  <1> HIDE DEF s, j
  <1>5. TypeOK'
    BY <1>1, <1>3, <1>4, <1>2 DEF Inv, TypeOK
  <1>6. JobInv'
    BY <1>1, <1>2, <1>4 DEF Inv, TypeOK, JobInv, State
  <1>7. ASSUME NEW i \in s.sel
        PROVE  Made(job', posts[i], posts[i], i)
    <2>1. \A w \in s.tags : kind = "apply" => ~ Through(job', w, i)
      BY <1>4 DEF Through
    <2>2. kind = "apply" /\ s.perm # Skip => ~ Through(job', ToPermission, i)
      BY <1>4, <1>7 DEF Through
    <2>3. kind = "apply" => Between(job', posts[i], posts[i], i)
      BY <1>4, <2>1, <2>2 DEF Between, TagBetween
    <2> QED
      BY <1>4, <1>7, <2>2, <2>3 DEF Made
  <1>8. Accounted'
    BY <1>1, <1>4, <1>7 DEF Accounted
  <1> QED
    BY <1>5, <1>6, <1>8 DEF Inv

\* The tag that comes next has not come to any post, and the one before has to all.
LEMMA NextWordInv ==
  ASSUME Inv, NextWord
  PROVE  Inv'
  <1>1. PICK w \in job.words :
          job' = [job EXCEPT !.words = @ \ {w}, !.doing = w, !.left = job.state.sel]
    BY DEF NextWord
  <1>2. /\ job # None /\ job \in Job /\ job.left = {}
        /\ UNCHANGED <<posts, rank, cookie, changes, old, touched>>
    BY DEF NextWord, Inv, TypeOK, hist
  <1>3. /\ job'.kind = job.kind /\ job'.state = job.state /\ job'.errs = job.errs
        /\ job'.words = job.words \ {w} /\ job'.doing = w /\ job'.left = job.state.sel
    BY <1>1, <1>2 DEF Job
  <1>4. /\ job.kind = "apply" /\ w \in job.state.tags /\ w \in Word
        /\ job.words \subseteq job.state.tags /\ job.state.tags \subseteq Word
    BY <1>2 DEF Inv, JobInv, Job, State
  <1>5. TypeOK'
    <2>1. job' \in Job
      BY <1>1, <1>2, <1>4 DEF Job, State
    <2> QED
      BY <1>2, <1>3, <2>1 DEF Inv, TypeOK
  <1>6. JobInv'
    BY <1>2, <1>3, <1>4 DEF Inv, JobInv
  <1>7. ASSUME NEW i \in job.state.sel, Made(job, old[i], posts[i], i)
        PROVE  Made(job', old[i], posts[i], i)
    <2>1. \A v \in Word : Through(job', v, i) => Through(job, v, i)
      BY <1>2, <1>3, <1>7 DEF Through
    <2>2. Through(job, ToPermission, i) /\ Through(job', ToPermission, i)
      BY <1>2, <1>3, <1>4, Works DEF Through
    <2>3. \A t \in Tags : /\ [do |-> "tag", tag |-> t] \in Word
                         /\ [do |-> "untag", tag |-> t] \in Word
      BY DEF Word
    <2>4. Between(job, old[i], posts[i], i) => Between(job', old[i], posts[i], i)
      BY <1>3, <2>1, <2>2, <2>3 DEF Between, TagBetween
    <2> QED
      BY <1>3, <1>4, <1>7, <2>2, <2>4 DEF Made
  <1>8. Accounted'
    BY <1>2, <1>3, <1>7 DEF Inv, Accounted
  <1> QED
    BY <1>5, <1>6, <1>8 DEF Inv

\* A call for one post leaves the others as they are.
LEMMA CallOnly ==
  ASSUME Inv, job # None, NEW i \in job.left, NEW answer, Call(i, answer)
  PROVE  Only(i)
  <1>1. job \in Job /\ i \in Ids
    BY DEF Inv, TypeOK, Job
  <1>2. \/ job.doing = ToPermission \/ job.doing = ToDelete \/ job.doing \in Word
    BY <1>1 DEF Job
  <1>3. CASE job.doing = ToPermission
    <2>1. job.state.perm \in PermsAsked
      BY <1>1, <1>3, Works DEF Inv, JobInv, Job, State
    <2>2. SetPostPermission(i, job.state.perm, answer)
      BY <1>3, Works DEF Call
    <2> QED
      BY <1>1, <2>1, <2>2, PermissionCall DEF Inv
  <1>4. CASE job.doing = ToDelete
    <2>1. DeletePost(i, answer)
      BY <1>4, Works DEF Call
    <2> QED
      BY <1>1, <2>1, DeleteCall DEF Inv
  <1>5. CASE job.doing \in Word
    <2>1. job.doing.do \in {"tag", "untag"} /\ job.doing.tag \in Tags
      BY <1>5, Works
    <2>2. /\ job.doing.do = "tag" => TagPost(i, job.doing.tag, answer)
          /\ job.doing.do = "untag" => UntagPost(i, job.doing.tag, answer)
      BY <2>1 DEF Call
    <2> QED
      BY <1>1, <2>1, <2>2, TagCall DEF Inv
  <1> QED
    BY <1>2, <1>3, <1>4, <1>5

\* One call, answered or not.
LEMMA CallInv ==
  ASSUME Inv, job # None, NEW i \in job.left, NEW answer \in Answers, Call(i, answer),
         UNCHANGED <<rank, cookie, changes, old, touched>>,
         job' \in Job, After(job', i), job'.left \subseteq job.left,
         job.errs \subseteq job'.errs, job'.errs \subseteq job.errs \cup {i},
         i \in job'.left \/ Ignored(answer) \/ i \in job'.errs
  PROVE  Inv'
  <1>1. job \in Job /\ i \in Ids /\ i \in job.state.sel /\ job' # None
    BY NoneAssumption DEF Inv, TypeOK, Job
  <1>2. \/ job.doing = ToPermission \/ job.doing = ToDelete \/ job.doing \in Word
    BY <1>1 DEF Job
  <1>3. Only(i)
    BY CallOnly
  <1>4. TypeOK'
    BY <1>1, <1>3 DEF Inv, TypeOK, Only, After
  <1>5. JobInv'
    BY <1>1 DEF Inv, JobInv, After
  <1>6. ASSUME i \notin touched, i \notin job'.errs
        PROVE  Made(job', old[i], posts'[i], i)
    BY <1>2, <1>6, PermissionMade, DeleteMade, TagMade
  <1>7. ASSUME NEW k \in Ids \ {i}, Made(job, old[k], posts[k], k)
        PROVE  Made(job', old[k], posts'[k], k)
    <2>1. posts'[k] = posts[k]
      BY <1>3 DEF Only
    <2>2. \A w : Through(job', w, k) <=> Through(job, w, k)
      BY DEF Through, After
    <2>3. Between(job, old[k], posts[k], k) => Between(job', old[k], posts[k], k)
      BY <2>2 DEF Between, TagBetween, After
    <2> QED
      BY <1>7, <2>1, <2>2, <2>3 DEF Made, After
  <1>8. Accounted'
    <2>1. \A k \in Ids \ {i} : posts'[k] = posts[k]
      BY <1>3 DEF Only
    <2> QED
      BY <1>1, <1>6, <1>7, <2>1 DEF Inv, Accounted, After
  <1> QED
    BY <1>4, <1>5, <1>8 DEF Inv

\* A call that does nothing, or never came.
LEMMA QuietInv ==
  ASSUME Inv, job # None, NEW i \in job.left, job' \in Job, After(job', i),
         job'.left \subseteq job.left,
         job.errs \subseteq job'.errs, job'.errs \subseteq job.errs \cup {i},
         i \in job'.left \/ i \in job'.errs,
         UNCHANGED <<posts, rank, cookie, changes, old, touched>>
  PROVE  Inv'
  <1>1. job \in Job /\ i \in Ids /\ i \in job.state.sel /\ job' # None
    BY NoneAssumption DEF Inv, TypeOK, Job
  <1>2. TypeOK'
    BY <1>1 DEF Inv, TypeOK, After
  <1>3. JobInv'
    BY <1>1 DEF Inv, JobInv, After
  <1>4. ASSUME NEW k \in Ids, k \notin job'.errs, Made(job, old[k], posts[k], k)
        PROVE  Made(job', old[k], posts[k], k)
    <2>1. k \in job'.left <=> k \in job.left
      BY <1>4 DEF After
    <2>2. \A w : Through(job', w, k) <=> Through(job, w, k)
      BY <2>1 DEF Through, After
    <2>3. Between(job, old[k], posts[k], k) => Between(job', old[k], posts[k], k)
      BY <2>2 DEF Between, TagBetween, After
    <2> QED
      BY <1>4, <2>1, <2>2, <2>3 DEF Made, After
  <1>5. Accounted'
    BY <1>1, <1>4 DEF Inv, Accounted, After
  <1> QED
    BY <1>2, <1>3, <1>5 DEF Inv

\* One call that may have come.
LEMMA CalledInv ==
  ASSUME Inv, job # None, NEW i \in job.left,
         UNCHANGED posts \/ \E answer \in Answers : Call(i, answer),
         UNCHANGED <<rank, cookie, changes, old, touched>>,
         job' \in Job, After(job', i), job'.left \subseteq job.left,
         job.errs \subseteq job'.errs, job'.errs \subseteq job.errs \cup {i},
         i \in job'.left \/ i \in job'.errs
  PROVE  Inv'
  <1>1. CASE UNCHANGED posts
    BY <1>1, QuietInv
  <1>2. ASSUME NEW answer \in Answers, Call(i, answer)
        PROVE  Inv'
    BY <1>2, CallInv
  <1> QED
    BY <1>1, <1>2

\* The next try of a call.
LEMMA NextTry ==
  ASSUME TypeOK, job # None, NEW i \in job.left, job.tries + 1 < Tries,
         job' = [job EXCEPT !.at = i, !.tries = @ + 1]
  PROVE  job' \in Job /\ After(job', i) /\ job'.left = job.left /\ job'.errs = job.errs
  <1>1. job \in Job /\ i \in Ids
    BY DEF TypeOK, Job
  <1>2. job.tries + 1 \in 0 .. Tries - 1
    BY <1>1, BatchAssumption DEF Job
  <1> QED
    BY <1>1, <1>2 DEF Job, After

\* The last try of a call.
LEMMA LastTry ==
  ASSUME TypeOK, job # None, NEW i \in job.left, NEW errs \in {job.errs, job.errs \cup {i}},
         job' = [job EXCEPT !.left = @ \ {i}, !.at = None, !.tries = 0, !.errs = errs]
  PROVE  job' \in Job /\ After(job', i) /\ job'.left = job.left \ {i} /\ job'.errs = errs
  <1>1. job \in Job /\ i \in Ids
    BY DEF TypeOK, Job
  <1>2. 0 \in 0 .. Tries - 1
    BY BatchAssumption
  <1> QED
    BY <1>1, <1>2 DEF Job, After

LEMMA CallAnsweredInv ==
  ASSUME Inv, NEW i \in Ids, CallAnswered(i)
  PROVE  Inv'
  <1>1. PICK answer \in Answers :
          /\ Call(i, answer) \/ (answer = Failed /\ UNCHANGED posts)
          /\ job' = [job EXCEPT !.left = @ \ {i}, !.at = None, !.tries = 0,
                                !.errs = IF Ignored(answer) THEN @ ELSE @ \cup {i}]
    BY DEF CallAnswered
  <1> DEFINE errs == IF Ignored(answer) THEN job.errs ELSE job.errs \cup {i}
  <1>2. /\ job # None /\ i \in job.left
        /\ UNCHANGED <<rank, cookie, changes, old, touched>>
    BY DEF CallAnswered, hist
  <1>3. job' = [job EXCEPT !.left = @ \ {i}, !.at = None, !.tries = 0, !.errs = errs]
    BY <1>1
  <1>4. errs \in {job.errs, job.errs \cup {i}} /\ (Ignored(answer) \/ i \in errs)
    OBVIOUS
  <1>5. answer = Failed => ~ Ignored(answer)
    BY DEF Ignored, OK, ErrTagAlreadyAdded, ErrPostNotFound, Failed
  <1> HIDE DEF errs
  <1>6. job' \in Job /\ After(job', i) /\ job'.left = job.left \ {i} /\ job'.errs = errs
    BY <1>2, <1>3, <1>4, LastTry DEF Inv
  <1>7. CASE Call(i, answer)
    BY <1>2, <1>4, <1>6, <1>7, CallInv
  <1>8. CASE answer = Failed /\ UNCHANGED posts
    BY <1>2, <1>4, <1>5, <1>6, <1>8, QuietInv
  <1> QED
    BY <1>1, <1>7, <1>8

LEMMA CallRefusedInv ==
  ASSUME Inv, NEW i \in Ids, CallRefused(i)
  PROVE  Inv'
  <1>1. /\ job # None /\ i \in job.left
        /\ UNCHANGED <<rank, cookie, changes, old, touched>>
        /\ UNCHANGED posts \/ \E answer \in Answers : Call(i, answer)
    BY DEF CallRefused, hist
  <1>2. CASE job.tries + 1 < Tries
    <2>1. job' = [job EXCEPT !.at = i, !.tries = @ + 1]
      BY <1>2 DEF CallRefused
    <2>2. job' \in Job /\ After(job', i) /\ job'.left = job.left /\ job'.errs = job.errs
      BY <1>1, <1>2, <2>1, NextTry DEF Inv
    <2> QED
      BY <1>1, <2>2, CalledInv
  <1>3. CASE ~ (job.tries + 1 < Tries)
    <2> DEFINE errs == job.errs \cup {i}
    <2>1. job' = [job EXCEPT !.left = @ \ {i}, !.at = None, !.tries = 0, !.errs = errs]
      BY <1>3 DEF CallRefused
    <2>2. errs \in {job.errs, job.errs \cup {i}} /\ i \in errs /\ job.errs \subseteq errs
      OBVIOUS
    <2> HIDE DEF errs
    <2>3. job' \in Job /\ After(job', i) /\ job'.left = job.left \ {i} /\ job'.errs = errs
      BY <1>1, <2>1, <2>2, LastTry DEF Inv
    <2> QED
      BY <1>1, <2>2, <2>3, CalledInv
  <1> QED
    BY <1>2, <1>3

\* Without a batch there is nothing to account for.
LEMMA EndInv ==
  ASSUME Inv, job' = None, posts' \in [Ids -> Row \cup {None}], cookie' \in State \cup {None},
         UNCHANGED <<rank, changes>>
  PROVE  Inv'
  BY DEF Inv, TypeOK, JobInv, Accounted

LEMMA CallLostInv ==
  ASSUME Inv, NEW i \in Ids, CallLost(i)
  PROVE  Inv'
  <1>1. /\ job # None /\ i \in job.left
        /\ UNCHANGED <<rank, cookie, changes>>
        /\ UNCHANGED posts \/ \E answer \in Answers : Call(i, answer)
    BY DEF CallLost
  <1>2. CASE job.tries + 1 < Tries
    <2>1. job' = [job EXCEPT !.at = i, !.tries = @ + 1] /\ UNCHANGED <<old, touched>>
      BY <1>2 DEF CallLost
    <2>2. job' \in Job /\ After(job', i) /\ job'.left = job.left /\ job'.errs = job.errs
      BY <1>1, <1>2, <2>1, NextTry DEF Inv
    <2> QED
      BY <1>1, <2>1, <2>2, CalledInv
  <1>3. CASE ~ (job.tries + 1 < Tries)
    <2>1. job' = None
      BY <1>3 DEF CallLost, Ends
    <2>2. posts' \in [Ids -> Row \cup {None}]
      BY <1>1, CallOnly DEF Only, Inv, TypeOK
    <2> QED
      BY <1>1, <2>1, <2>2, EndInv DEF Inv, TypeOK
  <1> QED
    BY <1>2, <1>3

\* What others do to a post is not the batch's.
LEMMA OthersInv ==
  ASSUME Inv, NEW i \in Ids, Others(i)
  PROVE  Inv'
  <1>1. /\ posts[i] # None /\ UNCHANGED <<rank, cookie, job, old>>
        /\ changes' \in 0 .. MaxChanges
        /\ job # None => touched' = touched \cup {i}
    BY BatchAssumption DEF Others, Change, Inv, TypeOK
  <1>2. posts[i] \in Row
    BY <1>1 DEF Inv, TypeOK
  <1>3. Only(i)
    <2>1. CASE posts' = [posts EXCEPT ![i] = None]
      BY <2>1 DEF Only, Inv, TypeOK
    <2>2. CASE posts' = [posts EXCEPT ![i].poster = None]
      <3>1. [posts[i] EXCEPT !.poster = None] \in Row
        BY <1>2 DEF Row
      <3> QED
        BY <2>2, <3>1 DEF Only, Inv, TypeOK
    <2>3. ASSUME NEW p \in PermsAsked, posts' = [posts EXCEPT ![i].perm = p]
          PROVE  Only(i)
      <3>1. [posts[i] EXCEPT !.perm = p] \in Row
        BY <1>2 DEF Row
      <3> QED
        BY <2>3, <3>1 DEF Only, Inv, TypeOK
    <2>4. ASSUME NEW tags \in SUBSET Tags, posts' = [posts EXCEPT ![i].tags = tags]
          PROVE  Only(i)
      BY <1>1, <2>4, TagsChanged DEF Inv
    <2>5. ASSUME NEW t \in Tags, \/ posts' = [posts EXCEPT ![i].tags = @ \cup {t}]
                                \/ posts' = [posts EXCEPT ![i].tags = @ \ {t}]
          PROVE  Only(i)
      <3>1. posts[i].tags \cup {t} \in SUBSET Tags /\ posts[i].tags \ {t} \in SUBSET Tags
        BY <1>2 DEF Row
      <3>2. \/ posts' = [posts EXCEPT ![i].tags = posts[i].tags \cup {t}]
            \/ posts' = [posts EXCEPT ![i].tags = posts[i].tags \ {t}]
        BY <2>5
      <3> QED
        BY <2>4, <3>1, <3>2
    <2> QED
      BY <2>1, <2>2, <2>3, <2>5 DEF Others
  <1>4. TypeOK'
    BY <1>1, <1>3 DEF Only, Inv, TypeOK
  <1>5. JobInv'
    BY <1>1 DEF Inv, JobInv
  <1>6. Accounted'
    <2>1. \A k \in Ids \ {i} : posts'[k] = posts[k]
      BY <1>3 DEF Only
    <2> QED
      BY <1>1, <2>1 DEF Inv, Accounted
  <1> QED
    BY <1>4, <1>5, <1>6 DEF Inv

LEMMA NextInv == Inv /\ [Next]_vars => Inv'
  <1> SUFFICES ASSUME Inv, [Next]_vars PROVE Inv'
    OBVIOUS
  <1>1. ASSUME NEW form \in Forms, Pick(form) PROVE Inv'
    BY <1>1, StateType DEF Pick, Inv, TypeOK, JobInv, Accounted
  <1>2. CASE Cancel
    BY <1>2, EndInv DEF Cancel, Reset, Inv, TypeOK
  <1>3. ASSUME NEW kind \in {"apply", "delete"}, NEW form \in Forms, Begin(kind, form)
        PROVE  Inv'
    BY <1>3, BeginInv
  <1>4. CASE Process
    <2>1. CASE Fails
      BY <2>1, EndInv DEF Fails, Ends, Inv, TypeOK
    <2>2. CASE Succeeds
      BY <2>2, EndInv DEF Succeeds, Reset, Ends, Inv, TypeOK
    <2> QED
      BY <1>4, <2>1, <2>2, NextWordInv, CallAnsweredInv, CallLostInv, CallRefusedInv DEF Process
  <1>5. ASSUME NEW i \in Ids, Others(i) PROVE Inv'
    BY <1>5, OthersInv
  <1>6. ASSUME NEW p \in RanksGiven, PromoteMe(p) PROVE Inv'
    BY <1>6, BatchAssumption DEF PromoteMe, hist, Inv, TypeOK, JobInv, Accounted
  <1>7. CASE UNCHANGED vars
    BY <1>7 DEF vars, hist, Inv, TypeOK, JobInv, Accounted
  <1> QED
    BY <1>1, <1>2, <1>3, <1>4, <1>5, <1>6, <1>7 DEF Next

LEMMA Invariant == Spec => []Inv
  BY InitInv, NextInv, PTL DEF Spec

-----------------------------------------------------------------------------
(* The theorems *)

\* Type correctness: a batch has work left, and errors, only of posts that were
\* selected, and a call is tried at most Tries times (Client.Do).
THEOREM TypeCorrect == Spec => []TypeOK
  <1>1. Inv => TypeOK
    BY DEF Inv
  <1> QED
    BY <1>1, Invariant, PTL

\* A batch that is through with a tag for every post has done what its state asks of
\* that tag.
LEMMA FinishedTags ==
  ASSUME Inv, Finished, job.kind = "apply", NEW i \in Ids, NEW was, NEW is,
         Between(job, was, is, i)
  PROVE  Done(job.state, was, is)
  <1>1. \A w : Through(job, w, i)
    BY DEF Finished, Through
  <1> QED
    BY <1>1 DEF Between, TagBetween, Done

\* However calls of the API fail, are lost or are repeated, and whatever others do to
\* the posts meanwhile, a batch that ends has done what it was asked to every post
\* that it does not name in an error, and nothing to a post that was not selected
\* (processPOST, deletePostsPOST).
THEOREM PostsAccountedFor == Spec => []EveryPostAccountedFor
  <1>1. Inv => EveryPostAccountedFor
    <2> SUFFICES ASSUME Inv, Finished, NEW i \in Ids \ touched,
                        i \in job.state.sel, i \notin job.errs
                 PROVE  \/ job.kind = "delete" /\ posts[i] = None
                        \/ /\ job.kind = "apply" /\ posts[i] = None /\ old[i] = None
                           /\ job.state.perm = Skip
                        \/ /\ job.kind = "apply" /\ posts[i] # None /\ old[i] # None
                           /\ Done(job.state, old[i], posts[i])
      BY DEF Inv, Accounted, EveryPostAccountedFor, Finished
    <2>1. job \in Job /\ job.kind \in {"apply", "delete"}
      BY DEF Finished, Inv, TypeOK, Job
    <2>2. Made(job, old[i], posts[i], i)
      BY DEF Finished, Inv, Accounted
    <2>3. \A w : Through(job, w, i)
      BY DEF Finished, Through
    <2> QED
      BY <2>1, <2>2, <2>3, FinishedTags DEF Made, Finished
  <1> QED
    BY <1>1, Invariant, PTL

=============================================================================
