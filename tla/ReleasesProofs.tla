--------------------------- MODULE ReleasesProofs ---------------------------
(***************************************************************************)
(* Proofs about Releases and Feeds, for any platforms, any number of       *)
(* requests, any bounds on uploads, copies, rows, releases and keys, and   *)
(* any life of a link.                                                     *)
(***************************************************************************)
EXTENDS Delivery, TLAPS

\* An artifact from before served copies: it is served from its upload key.
Legacy(p) == Has(p) /\ art[p].file = None /\ art[p].sha # None

\* Behind every artifact uploaded is an object with the digest recorded, which
\* nobody can put other bytes in the place of; a signature is over it.
RowOK(p) ==
  /\ art[p].file # None => Has(p) /\ art[p].sha # None /\ copy[art[p].file] = art[p].sha
  /\ Legacy(p) => upload[p] = art[p].sha /\ p \notin urls
  /\ art[p].sig \in {None, art[p].sha}
RowsOK == \A p \in Platforms : RowOK(p)

\* A request has a served copy of its own until it records or removes it.
Keeps(w) == workers[w].pc \in {"hash", "record", "undo"}

\* Each served copy has one number and one owner: a row, or a request that
\* made it; and one to be removed has none.
Copied ==
  /\ \A p \in Platforms : art[p].file <= made.copies
  /\ \A w \in Workers : workers[w].new <= made.copies /\ \A c \in workers[w].dead : c <= made.copies
  /\ \A c \in Copies : copy[c] # None => c <= made.copies
  /\ \A w \in Workers : Keeps(w) => workers[w].new # None
Owned ==
  /\ \A p, q \in Platforms : art[p].file # None /\ art[p].file = art[q].file => p = q
  /\ \A w \in Workers, p \in Platforms :
       /\ Keeps(w) => art[p].file # workers[w].new
       /\ art[p].file \notin workers[w].dead
  /\ \A v, w \in Workers :
       /\ Keeps(v) /\ Keeps(w) /\ workers[v].new = workers[w].new => v = w
       /\ Keeps(v) => workers[v].new \notin workers[w].dead

\* A copy that is there is a row's, a request's, or about to be removed.
Covered ==
  \A c \in Copies : copy[c] # None =>
    \/ \E p \in Platforms : art[p].file = c
    \/ \E w \in Workers : Keeps(w) /\ workers[w].new = c
    \/ \E w \in Workers : workers[w].pc \in {"dropUpload", "drop"} /\ c \in workers[w].dead

\* What each request knows: of the artifact it finalizes, of the uploads it
\* removes (never a served one), and of the key it signs with.
Knows(w) ==
  /\ workers[w].pc \in {"copy", "hash", "record"} =>
       /\ workers[w].on \in Platforms /\ Artifact(w).id # None
       /\ Artifact(w).file # None => ~Legacy(workers[w].on)
  /\ At(w, "hash") \/ At(w, "record") => copy[workers[w].new] # None
  /\ At(w, "record") => workers[w].sha = copy[workers[w].new]
  /\ At(w, "dropUpload") => workers[w].on \in Platforms /\ ~Legacy(workers[w].on)
  /\ workers[w].pc \in {"undo", "dropUpload", "drop", "dropUploads"} => \A p \in workers[w].todo : ~Legacy(p)
  /\ At(w, "take") /\ workers[w].job = "remove" => workers[w].on \in Platforms
  /\ At(w, "write") => workers[w].on \in Platforms
  /\ At(w, "sign") \/ At(w, "write") => workers[w].key # None
  /\ At(w, "clear") => ~require
  /\ At(w, "gate") /\ require => workers[w].key # None
Requests == \A w \in Workers : Knows(w)

\* A release that went out is complete, and signed where it must be.
Complete ==
  /\ rel \in {"draft", "published"} => sells
  /\ Out => /\ \A p \in Platforms : Has(p) => Uploaded(art[p])
            /\ require => \A p, q \in Shipped : art[p].sig # None /\ art[p].by = art[q].by

ReleasesInv == TypeOK /\ RowsOK /\ Copied /\ Owned /\ Covered /\ Requests /\ Complete

-----------------------------------------------------------------------------
(* Types. *)

\* The values a request's record is built from.
LEMMA Constants ==
  /\ {MaxUploads, MaxCopies, MaxReleases, MaxArtifacts, MaxKeys} \subseteq Nat
  /\ None = 0 /\ None \in 0..MaxCopies /\ None \in Bytes /\ None \in 0..MaxKeys
  /\ None \in 0..MaxReleases /\ None \in 0..MaxArtifacts
  /\ NoArt \in ArtType /\ Idle \in WorkerType
<1>1. {MaxUploads, MaxCopies, MaxReleases, MaxArtifacts, MaxKeys} \subseteq Nat
  BY ReleasesAssumption
<1>2. /\ None = 0 /\ None \in 0..MaxCopies /\ None \in Bytes /\ None \in 0..MaxKeys
      /\ None \in 0..MaxReleases /\ None \in 0..MaxArtifacts
  BY <1>1 DEF None, Bytes
<1>3. NoArt \in ArtType
  BY <1>2 DEF NoArt, ArtType
<1>4. Idle \in WorkerType
  BY <1>2, <1>3 DEF Idle, WorkerType, WorkerPcs, Jobs
<1> QED
  BY <1>1, <1>2, <1>3, <1>4

\* The records rows are written and remembered as.
LEMMA Written ==
  ASSUME NEW i, NEW f, NEW s
  PROVE  /\ LET a == [NoArt EXCEPT !.id = i] IN
              a.id = i /\ a.file = None /\ a.sha = None /\ a.sig = None
         /\ LET a == [NoArt EXCEPT !.id = i, !.file = f] IN
              a.id = i /\ a.file = f /\ a.sha = None
         /\ LET a == [NoArt EXCEPT !.id = i, !.file = f, !.sha = s] IN
              a.id = i /\ a.file = f /\ a.sha = s /\ a.sig = None
         /\ LET a == [NoArt EXCEPT !.id = i, !.sha = s] IN
              a.id = i /\ a.file = None /\ a.sha = s /\ a.sig = None
BY DEF NoArt

\* They have the type of rows.
LEMMA WrittenType ==
  ASSUME NEW i \in 0..MaxArtifacts, NEW f \in 0..MaxCopies, NEW s \in Bytes
  PROVE  /\ [NoArt EXCEPT !.id = i] \in ArtType
         /\ [NoArt EXCEPT !.id = i, !.file = f] \in ArtType
         /\ [NoArt EXCEPT !.id = i, !.file = f, !.sha = s] \in ArtType
         /\ [NoArt EXCEPT !.id = i, !.sha = s] \in ArtType
         /\ \A a \in ArtType : [a EXCEPT !.sha = s] \in ArtType
         /\ \A a \in ArtType : [a EXCEPT !.sig = None, !.by = None] \in ArtType
         /\ \A a \in ArtType, k \in 0..MaxKeys : [a EXCEPT !.sig = s, !.by = k] \in ArtType
<1>1. NoArt \in ArtType /\ None \in Bytes /\ None \in 0..MaxKeys
  BY Constants
<1> QED
  BY <1>1 DEF ArtType

\* What a request remembers of the rows it read.
LEMMA Remembered ==
  ASSUME TypeOK
  PROVE  /\ \A p \in Platforms : Noted(p) \in ArtType /\ Noted(p).id = art[p].id
                                 /\ Noted(p).file = art[p].file /\ Noted(p).sha = None
         /\ \A p \in Platforms : Row(p) \in [Platforms -> ArtType] /\ Row(p)[p] = Noted(p)
         /\ Rows \in [Platforms -> ArtType]
         /\ \A p \in Platforms : Rows[p].id = art[p].id /\ Rows[p].file = art[p].file
                                 /\ Rows[p].sha = art[p].sha
<1>1. NoArt \in ArtType /\ None \in Bytes /\ \A p \in Platforms : art[p] \in ArtType
  BY Constants DEF TypeOK
<1>2. ASSUME NEW p \in Platforms
      PROVE  /\ Noted(p) \in ArtType /\ Noted(p).id = art[p].id
             /\ Noted(p).file = art[p].file /\ Noted(p).sha = None
             /\ art[p].sha \in Bytes
  <2>1. art[p].id \in 0..MaxArtifacts /\ art[p].file \in 0..MaxCopies /\ art[p].sha \in Bytes
    BY <1>1 DEF ArtType
  <2>2. Noted(p) \in ArtType
    BY <1>1, <2>1, WrittenType DEF Noted
  <2>3. Noted(p).id = art[p].id /\ Noted(p).file = art[p].file /\ Noted(p).sha = None
    BY Written DEF Noted
  <2> QED
    BY <2>1, <2>2, <2>3
<1>3. \A p \in Platforms : Row(p) \in [Platforms -> ArtType] /\ Row(p)[p] = Noted(p)
  BY <1>1, <1>2 DEF Row
<1>4. \A p \in Platforms : [Noted(p) EXCEPT !.sha = art[p].sha] \in ArtType
  BY <1>2, WrittenType, Constants DEF NoArt
<1>5. ASSUME NEW p \in Platforms
      PROVE  LET b == [Noted(p) EXCEPT !.sha = art[p].sha] IN
             b.id = Noted(p).id /\ b.file = Noted(p).file /\ b.sha = art[p].sha
  BY <1>2 DEF ArtType
<1>6. Rows \in [Platforms -> ArtType]
  BY <1>4 DEF Rows
<1>7. \A p \in Platforms : Rows[p].id = art[p].id /\ Rows[p].file = art[p].file
                           /\ Rows[p].sha = art[p].sha
  BY <1>2, <1>5 DEF Rows
<1> QED
  BY <1>2, <1>3, <1>6, <1>7

\* Objects without some.
LEMMA Removing ==
  /\ \A keys : upload \in [Platforms -> Bytes] =>
       /\ Without(upload, keys) \in [Platforms -> Bytes]
       /\ \A p \in Platforms : Without(upload, keys)[p] = IF p \in keys THEN None ELSE upload[p]
  /\ \A keys : copy \in [Copies -> Bytes] =>
       /\ Without(copy, keys) \in [Copies -> Bytes]
       /\ \A c \in Copies : Without(copy, keys)[c] = IF c \in keys THEN None ELSE copy[c]
BY Constants DEF Without

\* What every step leaves of the requests but the one that moves.
LEMMA Moves ==
  ASSUME TypeOK, NEW w \in Workers, NEW r \in WorkerType, workers' = [workers EXCEPT ![w] = r]
  PROVE  /\ workers' \in [Workers -> WorkerType]
         /\ workers'[w] = r
         /\ \A v \in Workers : v # w => workers'[v] = workers[v]
BY DEF TypeOK

\* Another request's knowledge outlives a step that makes no row legacy and
\* leaves the request its copy.
LEMMA OthersKnow ==
  ASSUME NEW v \in Workers, TypeOK, Knows(v), workers'[v] = workers[v], require' = require,
         \A p \in Platforms : Legacy(p)' => Legacy(p),
         Keeps(v) => copy'[workers[v].new] = copy[workers[v].new]
  PROVE  Knows(v)'
<1>1. workers[v].todo \subseteq Platforms
  BY DEF TypeOK, WorkerType
<1> QED
  BY <1>1 DEF Knows, Keeps, Artifact, At

\* A request that only reads moves itself: it keeps the copy it had.
LEMMA Reading ==
  ASSUME ReleasesInv, NEW w \in Workers,
         workers' \in [Workers -> WorkerType], \A v \in Workers : v # w => workers'[v] = workers[v],
         UNCHANGED <<rel, art, upload, copy, urls, active, require, sells, made>>,
         workers'[w].new <= made.copies, workers'[w].dead \subseteq workers[w].dead,
         workers[w].pc \notin {"dropUpload", "drop"},
         Keeps(w)' <=> Keeps(w), Keeps(w) => workers'[w].new = workers[w].new,
         Knows(w)'
  PROVE  ReleasesInv'
<1>1. /\ workers' \in [Workers -> WorkerType]
      /\ \A v \in Workers : v # w => workers'[v] = workers[v]
  OBVIOUS
<1>2. TypeOK'
  BY <1>1 DEF ReleasesInv, TypeOK
<1>3. \A p \in Platforms : Legacy(p)' <=> Legacy(p)
  BY DEF Legacy, Has
<1>4. RowsOK'
  BY <1>3 DEF ReleasesInv, RowsOK, RowOK, Has
<1>5. \A v \in Workers : Keeps(v)' <=> Keeps(v)
  BY <1>1 DEF Keeps
<1>6. \A v \in Workers : Keeps(v) => workers'[v].new = workers[v].new
  BY <1>1
<1>7. \A v \in Workers : workers'[v].dead \subseteq workers[v].dead
  BY <1>1
<1>8. Copied'
  <2>1. \A v \in Workers : workers'[v].new <= made.copies
    BY <1>1 DEF ReleasesInv, Copied
  <2> QED
    BY <2>1, <1>5, <1>6, <1>7 DEF ReleasesInv, Copied
<1>9. Owned'
  BY <1>5, <1>6, <1>7 DEF ReleasesInv, Owned
<1>10. Covered'
  <2> SUFFICES ASSUME NEW c \in Copies, copy[c] # None
               PROVE  \/ \E p \in Platforms : art[p].file = c
                      \/ \E v \in Workers : Keeps(v)' /\ workers'[v].new = c
                      \/ \E v \in Workers : workers'[v].pc \in {"dropUpload", "drop"} /\ c \in workers'[v].dead
    BY DEF Covered
  <2>1. CASE \E p \in Platforms : art[p].file = c
    BY <2>1
  <2>2. CASE \E v \in Workers : Keeps(v) /\ workers[v].new = c
    BY <2>2, <1>5, <1>6
  <2>3. CASE \E v \in Workers : workers[v].pc \in {"dropUpload", "drop"} /\ c \in workers[v].dead
    BY <2>3, <1>1
  <2> QED
    BY <2>1, <2>2, <2>3 DEF ReleasesInv, Covered
<1>11. Requests'
  <2>1. \A v \in Workers : v # w => Knows(v)'
    BY <1>1, <1>3, OthersKnow DEF ReleasesInv, Requests
  <2> QED
    BY <2>1 DEF Requests
<1>12. Complete'
  BY DEF ReleasesInv, Complete, Out, Has, Uploaded, Shipped
<1> QED
  BY <1>2, <1>4, <1>8, <1>9, <1>10, <1>11, <1>12 DEF ReleasesInv

-----------------------------------------------------------------------------
(* The steps that only read. *)

\* What a request holds when it starts anew.
LEMMA Afresh ==
  /\ Idle.pc = "idle" /\ Idle.new = None /\ Idle.dead = {} /\ Idle.todo = {} /\ Idle.key = None
  /\ Idle.job = "publish"
BY DEF Idle

\* A request that is done, or gives up, having nothing of its own.
LEMMA GivesUp ==
  ASSUME ReleasesInv, NEW w \in Workers, Done(w), ~Keeps(w),
         workers[w].pc \notin {"dropUpload", "drop"},
         UNCHANGED <<rel, art, upload, copy, urls, active, require, sells, made>>
  PROVE  ReleasesInv'
<1>1. /\ workers' \in [Workers -> WorkerType] /\ workers'[w] = Idle
      /\ \A v \in Workers : v # w => workers'[v] = workers[v]
  BY Constants, Moves DEF ReleasesInv, Done
<1>2. workers'[w].new <= made.copies
  BY <1>1, Afresh, Constants DEF ReleasesInv, TypeOK, MadeType
<1>3. Knows(w)' /\ ~Keeps(w)'
  BY <1>1, Afresh DEF Knows, Keeps, At
<1> QED
  BY <1>1, <1>2, <1>3, Afresh, Reading

\* FinalizeArtifact's read of the artifact.
LEMMA FinalizeStartsKeeps ==
  ASSUME ReleasesInv, NEW w \in Workers, FinalizeStarts(w) PROVE ReleasesInv'
<1>1. PICK p \in Platforms :
        /\ Has(p)
        /\ workers' = [workers EXCEPT ![w] =
             [Idle EXCEPT !.pc = "copy", !.job = "finalize", !.on = p, !.snap = Row(p)]]
  BY DEF FinalizeStarts
<1>2. UNCHANGED <<rel, art, upload, copy, urls, active, require, sells, made>> /\ workers[w].pc = "idle"
  BY DEF FinalizeStarts, Objects, Product, At
<1> DEFINE r == [Idle EXCEPT !.pc = "copy", !.job = "finalize", !.on = p, !.snap = Row(p)]
<1>3. r \in WorkerType
  BY Constants, Remembered DEF ReleasesInv, WorkerType, WorkerPcs, Jobs
<1>4. r.pc = "copy" /\ r.on = p /\ r.snap = Row(p) /\ r.new = None /\ r.dead = {}
  BY DEF Idle
<1> HIDE DEF r
<1>5. /\ workers' \in [Workers -> WorkerType] /\ workers'[w] = r
      /\ \A v \in Workers : v # w => workers'[v] = workers[v]
  BY <1>1, <1>3, Moves DEF ReleasesInv, r
<1>6. workers'[w].new <= made.copies
  BY <1>4, <1>5, Constants DEF ReleasesInv, TypeOK, MadeType
<1>7. Artifact(w)'.id = art[p].id /\ Artifact(w)'.file = art[p].file
  BY <1>4, <1>5, Remembered DEF Artifact, ReleasesInv
<1>8. art'[p] = art[p] /\ (art[p].file # None => ~Legacy(p)')
  BY <1>2 DEF Legacy
<1>9. Knows(w)'
  BY <1>1, <1>4, <1>5, <1>7, <1>8 DEF Knows, At, Has
<1> QED
  BY <1>2, <1>4, <1>5, <1>6, <1>9, Reading DEF Keeps

\* The request that moves, when only some of what it holds changes.
LEMMA Turns ==
  ASSUME TypeOK, NEW w \in Workers, NEW pc \in WorkerPcs
  PROVE  /\ [workers[w] EXCEPT !.pc = pc] \in WorkerType
         /\ \A s \in Bytes : [workers[w] EXCEPT !.pc = pc, !.sha = s] \in WorkerType
         /\ \A c \in 0..MaxCopies : [workers[w] EXCEPT !.pc = pc, !.new = c] \in WorkerType
         /\ \A p \in Platforms : [workers[w] EXCEPT !.pc = pc, !.on = p] \in WorkerType
         /\ \A k \in 0..MaxKeys, t \in SUBSET Platforms :
              [workers[w] EXCEPT !.pc = pc, !.key = k, !.todo = t] \in WorkerType
<1>1. workers[w] \in WorkerType
  BY DEF TypeOK
<1>2. [workers[w] EXCEPT !.pc = pc] \in WorkerType
  BY <1>1 DEF WorkerType
<1>3. ASSUME NEW s \in Bytes PROVE [workers[w] EXCEPT !.pc = pc, !.sha = s] \in WorkerType
  BY <1>1 DEF WorkerType
<1>4. ASSUME NEW c \in 0..MaxCopies PROVE [workers[w] EXCEPT !.pc = pc, !.new = c] \in WorkerType
  BY <1>1 DEF WorkerType
<1>5. ASSUME NEW p \in Platforms PROVE [workers[w] EXCEPT !.pc = pc, !.on = p] \in WorkerType
  BY <1>1 DEF WorkerType
<1>6. ASSUME NEW k \in 0..MaxKeys, NEW t \in SUBSET Platforms
      PROVE  [workers[w] EXCEPT !.pc = pc, !.key = k, !.todo = t] \in WorkerType
  BY <1>1 DEF WorkerType
<1> QED
  BY <1>2, <1>3, <1>4, <1>5, <1>6

\* The digest of the copy, or the client expected another.
LEMMA HashCopyKeeps ==
  ASSUME ReleasesInv, NEW w \in Workers, HashCopy(w) PROVE ReleasesInv'
<1>1. UNCHANGED <<rel, art, upload, copy, urls, active, require, sells, made>> /\ workers[w].pc = "hash"
  BY DEF HashCopy, Objects, Product, At
<1>2. /\ workers[w] \in WorkerType /\ workers[w].on \in Platforms /\ workers[w].new \in Copies
      /\ workers[w].new # None /\ copy[workers[w].new] \in Bytes
      /\ workers[w].new <= made.copies /\ workers[w].dead \subseteq Copies /\ Knows(w)
      /\ copy[workers[w].new] # None
  <2>1. /\ workers[w] \in WorkerType /\ workers[w].new <= made.copies /\ Knows(w)
        /\ workers[w].new # None
    BY <1>1 DEF ReleasesInv, TypeOK, Requests, Copied, Keeps
  <2>2. workers[w].new \in Copies /\ workers[w].dead \subseteq Copies
    BY <2>1, Constants DEF WorkerType, Copies
  <2>3. workers[w].on \in Platforms /\ copy[workers[w].new] # None
    BY <1>1, <2>1 DEF Knows, At
  <2> QED
    BY <2>1, <2>2, <2>3 DEF ReleasesInv, TypeOK
<1>3. DigestOf(w) = copy[workers[w].new]
  BY <1>2, Written DEF DigestOf, ObjectOf
<1>4. CASE workers' = [workers EXCEPT ![w].pc = "record", ![w].sha = DigestOf(w)]
  <2> DEFINE r == [workers[w] EXCEPT !.pc = "record", !.sha = DigestOf(w)]
  <2>0. r \in WorkerType /\ workers' = [workers EXCEPT ![w] = r]
    BY <1>2, <1>3, <1>4, Turns DEF ReleasesInv, TypeOK, WorkerPcs
  <2>1. /\ workers' \in [Workers -> WorkerType]
        /\ \A v \in Workers : v # w => workers'[v] = workers[v]
        /\ workers'[w].pc = "record" /\ workers'[w].sha = DigestOf(w) /\ workers'[w].on = workers[w].on
        /\ workers'[w].snap = workers[w].snap /\ workers'[w].new = workers[w].new
        /\ workers'[w].dead = workers[w].dead
    BY <1>2, <2>0 DEF ReleasesInv, TypeOK, WorkerType
  <2>2. Knows(w)'
    BY <1>1, <1>2, <1>3, <2>1 DEF Knows, At, Artifact, Legacy, Has
  <2> QED
    BY <1>1, <1>2, <2>1, <2>2, Reading DEF Keeps
<1>5. CASE workers' = [workers EXCEPT ![w] = [Idle EXCEPT !.pc = "undo", !.new = workers[w].new]]
  <2> DEFINE r == [Idle EXCEPT !.pc = "undo", !.new = workers[w].new]
  <2>1. r \in WorkerType /\ r.pc = "undo" /\ r.new = workers[w].new /\ r.dead = {} /\ r.todo = {}
    <3>1. "undo" \in WorkerPcs /\ workers[w].new \in 0..MaxCopies /\ {} \in SUBSET Platforms
      BY <1>2 DEF WorkerPcs, WorkerType
    <3>2. r \in WorkerType
      BY <3>1, Constants DEF WorkerType
    <3> QED
      BY <3>2 DEF Idle
  <2> HIDE DEF r
  <2>2. /\ workers' \in [Workers -> WorkerType] /\ workers'[w] = r
        /\ \A v \in Workers : v # w => workers'[v] = workers[v]
    BY <1>5, <2>1, Moves DEF ReleasesInv, r
  <2>3. Knows(w)'
    BY <2>1, <2>2 DEF Knows, At
  <2> QED
    BY <1>1, <1>2, <2>1, <2>2, <2>3, Reading DEF Keeps
<1> QED
  BY <1>4, <1>5 DEF HashCopy

\* What a deletion reads first.
LEMMA RemoveStartsKeeps ==
  ASSUME ReleasesInv, NEW w \in Workers, RemoveStarts(w) PROVE ReleasesInv'
<1>1. UNCHANGED <<rel, art, upload, copy, urls, active, require, sells, made>> /\ workers[w].pc = "idle"
  BY DEF RemoveStarts, Objects, Product, At
<1>2. PICK r \in WorkerType :
        /\ workers' = [workers EXCEPT ![w] = r]
        /\ r.pc = "take" /\ r.new = None /\ r.dead = {}
        /\ r.job = "remove" => r.on \in Platforms
  <2>1. ASSUME NEW p \in Platforms,
               workers' = [workers EXCEPT ![w] =
                 [Idle EXCEPT !.pc = "take", !.job = "remove", !.on = p, !.snap = Row(p)]]
        PROVE  \E r \in WorkerType :
                 /\ workers' = [workers EXCEPT ![w] = r]
                 /\ r.pc = "take" /\ r.new = None /\ r.dead = {}
                 /\ r.job = "remove" => r.on \in Platforms
    <3> DEFINE r == [Idle EXCEPT !.pc = "take", !.job = "remove", !.on = p, !.snap = Row(p)]
    <3>1. r \in WorkerType
      BY Constants, Remembered DEF ReleasesInv, WorkerType, WorkerPcs, Jobs
    <3>2. r.pc = "take" /\ r.on = p /\ r.new = None /\ r.dead = {}
      BY DEF Idle
    <3> QED
      BY <2>1, <3>1, <3>2
  <2>2. ASSUME workers' = [workers EXCEPT ![w] =
                 [Idle EXCEPT !.pc = "take", !.job = "discard", !.of = made.releases, !.snap = Rows]]
        PROVE  \E r \in WorkerType :
                 /\ workers' = [workers EXCEPT ![w] = r]
                 /\ r.pc = "take" /\ r.new = None /\ r.dead = {}
                 /\ r.job = "remove" => r.on \in Platforms
    <3> DEFINE r == [Idle EXCEPT !.pc = "take", !.job = "discard", !.of = made.releases, !.snap = Rows]
    <3>1. made.releases \in 0..MaxReleases
      BY DEF ReleasesInv, TypeOK, MadeType
    <3>2. r \in WorkerType
      BY <3>1, Constants, Remembered DEF ReleasesInv, WorkerType, WorkerPcs, Jobs
    <3>3. r.pc = "take" /\ r.job = "discard" /\ r.new = None /\ r.dead = {}
      BY DEF Idle
    <3> QED
      BY <2>2, <3>2, <3>3
  <2> QED
    BY <2>1, <2>2 DEF RemoveStarts
<1>3. /\ workers' \in [Workers -> WorkerType] /\ workers'[w] = r
      /\ \A v \in Workers : v # w => workers'[v] = workers[v]
  BY <1>2, Moves DEF ReleasesInv
<1>4. workers'[w].new <= made.copies
  BY <1>2, <1>3, Constants DEF ReleasesInv, TypeOK, MadeType
<1>5. Knows(w)'
  BY <1>2, <1>3 DEF Knows, At
<1> QED
  BY <1>1, <1>2, <1>3, <1>4, <1>5, Reading DEF Keeps

\* Publish's read of the draft.
LEMMA PublishStartsKeeps ==
  ASSUME ReleasesInv, NEW w \in Workers, PublishStarts(w) PROVE ReleasesInv'
<1>1. UNCHANGED <<rel, art, upload, copy, urls, active, require, sells, made>> /\ workers[w].pc = "idle"
  BY DEF PublishStarts, Objects, Product, At
<1> DEFINE r == [Idle EXCEPT !.pc = "key", !.of = made.releases, !.snap = Rows]
<1>2. r \in WorkerType
  <2>1. made.releases \in 0..MaxReleases
    BY DEF ReleasesInv, TypeOK, MadeType
  <2> QED
    BY <2>1, Constants, Remembered DEF ReleasesInv, WorkerType, WorkerPcs
<1>3. r.pc = "key" /\ r.new = None /\ r.dead = {}
  BY DEF Idle
<1>4. workers' = [workers EXCEPT ![w] = r]
  BY DEF PublishStarts
<1> HIDE DEF r
<1>5. /\ workers' \in [Workers -> WorkerType] /\ workers'[w] = r
      /\ \A v \in Workers : v # w => workers'[v] = workers[v]
  BY <1>2, <1>4, Moves DEF ReleasesInv
<1>6. workers'[w].new <= made.copies
  BY <1>3, <1>5, Constants DEF ReleasesInv, TypeOK, MadeType
<1>7. Knows(w)'
  BY <1>3, <1>5 DEF Knows, At
<1> QED
  BY <1>1, <1>3, <1>5, <1>6, <1>7, Reading DEF Keeps

\* The lookup of the active key: with none, only what need not be signed
\* goes on.
LEMMA PickKeyKeeps ==
  ASSUME ReleasesInv, NEW w \in Workers, PickKey(w) PROVE ReleasesInv'
<1>1. UNCHANGED <<rel, art, upload, copy, urls, active, require, sells, made>> /\ workers[w].pc = "key"
  BY DEF PickKey, Objects, Product, At
<1>2. workers[w] \in WorkerType /\ workers[w].new <= made.copies /\ ~Keeps(w) /\ active \in 0..MaxKeys
  BY <1>1 DEF ReleasesInv, TypeOK, Copied, Keeps
<1>3. CASE active # None /\ workers' = [workers EXCEPT ![w].pc = "sign", ![w].key = active, ![w].todo = Read(w)]
  <2> DEFINE r == [workers[w] EXCEPT !.pc = "sign", !.key = active, !.todo = Read(w)]
  <2>1. Read(w) \in SUBSET Platforms /\ "sign" \in WorkerPcs
    BY DEF Read, WorkerPcs
  <2>2. r \in WorkerType
    BY <1>2, <2>1, Turns DEF ReleasesInv
  <2>3. workers' = [workers EXCEPT ![w] = r]
    BY <1>2, <1>3 DEF ReleasesInv, TypeOK
  <2>4. r.pc = "sign" /\ r.new = workers[w].new /\ r.dead = workers[w].dead /\ r.key = active
    BY <1>2 DEF WorkerType
  <2> HIDE DEF r
  <2>5. /\ workers' \in [Workers -> WorkerType] /\ workers'[w] = r
        /\ \A v \in Workers : v # w => workers'[v] = workers[v]
    BY <2>2, <2>3, Moves DEF ReleasesInv
  <2>6. Knows(w)'
    BY <1>3, <2>4, <2>5 DEF Knows, At
  <2> QED
    BY <1>1, <1>2, <2>4, <2>5, <2>6, Reading DEF Keeps
<1>4. CASE ~require /\ workers' = [workers EXCEPT ![w] = [Idle EXCEPT !.pc = "clear", !.of = workers[w].of]]
  <2> DEFINE r == [Idle EXCEPT !.pc = "clear", !.of = workers[w].of]
  <2>1. r \in WorkerType /\ r.pc = "clear" /\ r.new = None /\ r.dead = {}
    <3>1. r \in WorkerType
      BY <1>2, Constants DEF WorkerType, WorkerPcs
    <3> QED
      BY <3>1 DEF Idle
  <2>2. workers' = [workers EXCEPT ![w] = r]
    BY <1>4
  <2> HIDE DEF r
  <2>3. /\ workers' \in [Workers -> WorkerType] /\ workers'[w] = r
        /\ \A v \in Workers : v # w => workers'[v] = workers[v]
    BY <2>1, <2>2, Moves DEF ReleasesInv
  <2>4. workers'[w].new <= made.copies
    BY <2>1, <2>3, Constants DEF ReleasesInv, TypeOK, MadeType
  <2>5. Knows(w)'
    BY <1>1, <1>4, <2>1, <2>3 DEF Knows, At
  <2> QED
    BY <1>1, <1>2, <2>1, <2>3, <2>4, <2>5, Reading DEF Keeps
<1>5. CASE Done(w)
  BY <1>1, <1>2, <1>5, GivesUp
<1> QED
  BY <1>3, <1>4, <1>5 DEF PickKey

\* The bytes to sign still hash to what was recorded, or the publish stops.
LEMMA SignArtifactKeeps ==
  ASSUME ReleasesInv, NEW w \in Workers, SignArtifact(w) PROVE ReleasesInv'
<1>1. UNCHANGED <<rel, art, upload, copy, urls, active, require, sells, made>> /\ workers[w].pc = "sign"
  BY DEF SignArtifact, Objects, Product, At
<1>2. /\ workers[w] \in WorkerType /\ workers[w].new <= made.copies /\ ~Keeps(w)
      /\ workers[w].key # None
  BY <1>1 DEF ReleasesInv, TypeOK, Copied, Keeps, Requests, Knows, At
<1>3. ASSUME NEW p \in Platforms, workers' = [workers EXCEPT ![w].pc = "write", ![w].on = p]
      PROVE  ReleasesInv'
  <2> DEFINE r == [workers[w] EXCEPT !.pc = "write", !.on = p]
  <2>1. "write" \in WorkerPcs
    BY DEF WorkerPcs
  <2>2. r \in WorkerType
    BY <1>2, <2>1, Turns DEF ReleasesInv
  <2>3. workers' = [workers EXCEPT ![w] = r]
    BY <1>2, <1>3 DEF ReleasesInv, TypeOK
  <2>4. /\ r.pc = "write" /\ r.new = workers[w].new /\ r.dead = workers[w].dead
        /\ r.key = workers[w].key /\ r.on = p
    BY <1>2 DEF WorkerType
  <2> HIDE DEF r
  <2>5. /\ workers' \in [Workers -> WorkerType] /\ workers'[w] = r
        /\ \A v \in Workers : v # w => workers'[v] = workers[v]
    BY <2>2, <2>3, Moves DEF ReleasesInv
  <2>6. Knows(w)'
    BY <1>2, <2>4, <2>5 DEF Knows, At
  <2> QED
    BY <1>1, <1>2, <2>4, <2>5, <2>6, Reading DEF Keeps
<1>4. CASE Done(w)
  BY <1>1, <1>2, <1>4, GivesUp
<1>5. workers[w].todo \subseteq Platforms
  BY <1>2 DEF WorkerType
<1> QED
  BY <1>3, <1>4, <1>5 DEF SignArtifact

-----------------------------------------------------------------------------
(* The steps of a finalize. *)

\* The upload is copied to a key nobody has used.
LEMMA CopyUploadKeeps ==
  ASSUME ReleasesInv, NEW w \in Workers, CopyUpload(w) PROVE ReleasesInv'
<1>1. UNCHANGED <<rel, art, upload, urls, active, require, sells>> /\ workers[w].pc = "copy"
  BY DEF CopyUpload, Objects, Product, At
<1>2. /\ workers[w] \in WorkerType /\ workers[w].on \in Platforms /\ ~Keeps(w)
      /\ Knows(w) /\ made.copies \in 0..MaxCopies
  BY <1>1 DEF ReleasesInv, TypeOK, MadeType, Keeps, Requests, Knows
<1>3. CASE UNCHANGED <<copy, made>> /\ Done(w)
  BY <1>1, <1>2, <1>3, GivesUp
<1> DEFINE n == made.copies + 1
           p == workers[w].on
<1>4. ASSUME upload[p] # None, made.copies < MaxCopies,
             made' = [made EXCEPT !.copies = @ + 1],
             copy' = [copy EXCEPT ![n] = upload[p]],
             workers' = [workers EXCEPT ![w].pc = "hash", ![w].new = n]
      PROVE  ReleasesInv'
  <2>1. n \in Copies /\ n \in 0..MaxCopies /\ n # None /\ made.copies < n /\ n \in Nat
    BY <1>2, <1>4, Constants DEF Copies
  <2> DEFINE r == [workers[w] EXCEPT !.pc = "hash", !.new = n]
  <2>2. r \in WorkerType
    <3>1. "hash" \in WorkerPcs
      BY DEF WorkerPcs
    <3> QED
      BY <1>2, <2>1, <3>1, Turns DEF ReleasesInv
  <2>3. workers' = [workers EXCEPT ![w] = r]
    BY <1>2, <1>4 DEF ReleasesInv, TypeOK
  <2>4. /\ r.pc = "hash" /\ r.new = n /\ r.dead = workers[w].dead /\ r.on = p
        /\ r.snap = workers[w].snap
    BY <1>2 DEF WorkerType
  <2> HIDE DEF r
  <2>5. /\ workers' \in [Workers -> WorkerType] /\ workers'[w] = r
        /\ \A v \in Workers : v # w => workers'[v] = workers[v]
    BY <2>2, <2>3, Moves DEF ReleasesInv
  <2>6. /\ copy' \in [Copies -> Bytes] /\ copy'[n] = upload[p]
        /\ \A c \in Copies : c # n => copy'[c] = copy[c]
    BY <1>2, <1>4, <2>1 DEF ReleasesInv, TypeOK
  <2>7. /\ made'.copies = n
        /\ made' \in MadeType
    BY <1>4, <2>1 DEF ReleasesInv, TypeOK, MadeType
  <2> HIDE DEF n
  <2>8. TypeOK'
    BY <1>1, <2>5, <2>6, <2>7 DEF ReleasesInv, TypeOK
  <2>9. /\ \A q \in Platforms : art[q].file \in 0..MaxCopies /\ art[q].file < n
        /\ \A v \in Workers : workers[v].new \in 0..MaxCopies /\ workers[v].new < n
        /\ \A v \in Workers : workers[v].dead \subseteq Copies /\ \A c \in workers[v].dead : c < n
    <3>1. \A q \in Platforms : art[q].file \in 0..MaxCopies
      BY DEF ReleasesInv, TypeOK, ArtType
    <3>2. \A v \in Workers : workers[v].new \in 0..MaxCopies /\ workers[v].dead \subseteq Copies
      BY DEF ReleasesInv, TypeOK, WorkerType
    <3>3. \A x \in 0..MaxCopies : x <= made.copies => x < n
      BY <1>2, <2>1, Constants
    <3> QED
      BY <3>1, <3>2, <3>3 DEF ReleasesInv, Copied, Copies
  <2>10. \A q \in Platforms : Legacy(q)' <=> Legacy(q)
    BY <1>1 DEF Legacy, Has
  <2>11. RowsOK'
    <3> SUFFICES ASSUME NEW q \in Platforms PROVE RowOK(q)'
      BY DEF RowsOK
    <3>1. art[q].file # None => art[q].file \in Copies /\ art[q].file # n
      BY <2>1, <2>9, Constants DEF Copies
    <3> QED
      BY <1>1, <2>6, <2>10, <3>1 DEF ReleasesInv, RowsOK, RowOK, Has
  <2>12. \A v \in Workers : v # w => (Keeps(v)' <=> Keeps(v))
    BY <2>5 DEF Keeps
  <2>13. Copied'
    <3>1. /\ \A q \in Platforms : art[q].file <= n
          /\ \A v \in Workers : workers'[v].new <= n /\ \A c \in workers'[v].dead : c <= n
      BY <2>1, <2>4, <2>5, <2>9, Constants DEF Copies
    <3>2. \A c \in Copies : copy'[c] # None => c <= n
      BY <1>2, <2>1, <2>6, Constants DEF ReleasesInv, Copied, Copies, n
    <3>3. \A v \in Workers : Keeps(v)' => workers'[v].new # None
      BY <2>1, <2>4, <2>5, <2>12 DEF ReleasesInv, Copied
    <3> QED
      BY <1>1, <2>7, <3>1, <3>2, <3>3 DEF Copied
  <2>14. Owned'
    <3>1. \A v \in Workers : workers'[v].dead = workers[v].dead
      BY <2>4, <2>5
    <3>2. \A v \in Workers, q \in Platforms : Keeps(v)' => art[q].file # workers'[v].new
      BY <2>1, <2>4, <2>5, <2>9, <2>12, Constants DEF ReleasesInv, Owned
    <3>3. \A u, v \in Workers : Keeps(u)' /\ Keeps(v)' /\ workers'[u].new = workers'[v].new => u = v
      BY <2>1, <2>4, <2>5, <2>9, <2>12, Constants DEF ReleasesInv, Owned
    <3>4. \A u, v \in Workers : Keeps(u)' => workers'[u].new \notin workers'[v].dead
      <4>1. \A v \in Workers : n \notin workers[v].dead
        BY <2>1, <2>9, Constants DEF Copies
      <4> QED
        BY <2>4, <2>5, <2>12, <3>1, <4>1 DEF ReleasesInv, Owned
    <3> QED
      BY <1>1, <3>1, <3>2, <3>3, <3>4 DEF ReleasesInv, Owned
  <2>15. Covered'
    <3> SUFFICES ASSUME NEW c \in Copies, copy'[c] # None
                 PROVE  \/ \E q \in Platforms : art'[q].file = c
                        \/ \E v \in Workers : Keeps(v)' /\ workers'[v].new = c
                        \/ \E v \in Workers : workers'[v].pc \in {"dropUpload", "drop"} /\ c \in workers'[v].dead
      BY DEF Covered
    <3>1. CASE c = n
      BY <2>4, <2>5, <3>1 DEF Keeps
    <3>2. CASE c # n
      <4>1. copy[c] # None
        BY <2>6, <3>2
      <4>2. \A v \in Workers : Keeps(v) \/ workers[v].pc \in {"dropUpload", "drop"} => v # w
        BY <1>1, <1>2
      <4> QED
        BY <1>1, <2>5, <2>12, <4>1, <4>2 DEF ReleasesInv, Covered
    <3> QED
      BY <3>1, <3>2
  <2>16. Requests'
    <3>1. \A v \in Workers : v # w => Knows(v)'
      <4>1. \A v \in Workers : Keeps(v) => workers[v].new \in Copies /\ workers[v].new # n
        BY <2>1, <2>9, Constants DEF ReleasesInv, Copied, Copies
      <4> QED
        BY <1>1, <2>5, <2>6, <2>10, <4>1, OthersKnow DEF ReleasesInv, Requests
    <3>2. Knows(w)'
      BY <1>1, <1>2, <1>4, <2>4, <2>5, <2>6, <2>10 DEF Knows, At, Artifact
    <3> QED
      BY <3>1, <3>2 DEF Requests
  <2>17. Complete'
    BY <1>1 DEF ReleasesInv, Complete, Out, Has, Uploaded, Shipped
  <2> QED
    BY <2>8, <2>11, <2>13, <2>14, <2>15, <2>16, <2>17 DEF ReleasesInv
<1> QED
  BY <1>3, <1>4 DEF CopyUpload, Objects

\* The draft's row gets the copy, which had no other owner; the copy the row
\* had is to be removed.
LEMMA RecordFileRecords ==
  ASSUME ReleasesInv, NEW w \in Workers, NEW p \in Platforms, NEW a \in ArtType, NEW r \in WorkerType,
         workers[w].pc = "record", p = workers[w].on, art[p].id = Artifact(w).id, rel = "draft",
         a.id = art[p].id, a.file = workers[w].new, a.sha = workers[w].sha, a.sig = None,
         r.pc = "dropUpload", r.on = p, r.dead = {art[p].file} \ {None, workers[w].new}, r.new = None, r.todo = {},
         art' = [art EXCEPT ![p] = a], workers' = [workers EXCEPT ![w] = r],
         UNCHANGED <<rel, upload, copy, urls, active, require, sells, made>>
  PROVE  ReleasesInv'
<1> DEFINE c == workers[w].new
           old == art[p].file
<1>1. /\ art[p] \in ArtType /\ Knows(w) /\ Keeps(w)
      /\ c \in Copies /\ c # None /\ c <= made.copies /\ old \in 0..MaxCopies /\ old <= made.copies
      /\ workers[w].sha = copy[c] /\ copy[c] # None
  <2>1. workers[w] \in WorkerType /\ art[p] \in ArtType /\ Knows(w) /\ Keeps(w)
    BY DEF ReleasesInv, TypeOK, Requests, Keeps
  <2>2. c \in 0..MaxCopies /\ c # None /\ c <= made.copies /\ old \in 0..MaxCopies /\ old <= made.copies
    BY <2>1 DEF ReleasesInv, Copied, WorkerType, ArtType
  <2>3. c \in Copies
    BY <2>2, Constants DEF Copies
  <2> QED
    BY <2>1, <2>2, <2>3 DEF Knows, At
<1>3. art[p].id # None
  BY <1>1 DEF Knows
<1>4. a \in ArtType /\ a.id = art[p].id /\ a.file = c /\ a.sha = copy[c] /\ a.sig = None
  BY <1>1
<1>6. /\ r.pc = "dropUpload" /\ r.on = p /\ r.dead = {old} \ {None, c} /\ r.new = None /\ r.todo = {}
  OBVIOUS
<1>8. /\ workers' \in [Workers -> WorkerType] /\ workers'[w] = r
      /\ \A v \in Workers : v # w => workers'[v] = workers[v]
  BY Moves DEF ReleasesInv
<1>9. /\ art' \in [Platforms -> ArtType] /\ art'[p] = a
      /\ \A q \in Platforms : q # p => art'[q] = art[q]
  BY DEF ReleasesInv, TypeOK
<1> HIDE DEF c, old
<1>10. TypeOK'
  BY <1>8, <1>9 DEF ReleasesInv, TypeOK
<1>11. /\ \A q \in Platforms : art[q].file # c
       /\ \A q \in Platforms : art[q].file = old /\ old # None => q = p
       /\ \A v \in Workers : c \notin workers[v].dead /\ (v # w /\ Keeps(v) => workers[v].new # c)
       /\ \A v \in Workers : Keeps(v) => workers[v].new # old
       /\ old = art[p].file
  BY <1>1 DEF ReleasesInv, Owned, c, old
<1>12. \A q \in Platforms : Legacy(q)' => Legacy(q) /\ q # p
  BY <1>1, <1>4, <1>9 DEF Legacy, Has
<1>13. RowsOK'
  <2> SUFFICES ASSUME NEW q \in Platforms PROVE RowOK(q)'
    BY DEF RowsOK
  <2>1. CASE q = p
    BY <1>1, <1>3, <1>4, <1>9, <1>12, <2>1 DEF RowOK, Has
  <2>2. CASE q # p
    BY <1>9, <1>12, <2>2 DEF ReleasesInv, RowsOK, RowOK, Has
  <2> QED
    BY <2>1, <2>2
<1>14. ~Keeps(w)' /\ \A v \in Workers : v # w => (Keeps(v)' <=> Keeps(v))
  BY <1>6, <1>8 DEF Keeps
<1>15. Copied'
  <2>1. None <= made.copies
    BY Constants DEF ReleasesInv, TypeOK, MadeType
  <2> QED
    BY <1>1, <1>4, <1>6, <1>8, <1>9, <1>14, <2>1 DEF ReleasesInv, Copied
<1>16. Owned'
  <2>1. \A q, s \in Platforms : art'[q].file # None /\ art'[q].file = art'[s].file => q = s
    BY <1>4, <1>9, <1>11 DEF ReleasesInv, Owned
  <2>2. ASSUME NEW v \in Workers, NEW q \in Platforms
        PROVE  /\ Keeps(v)' => art'[q].file # workers'[v].new
               /\ art'[q].file \notin workers'[v].dead
    <3>1. Keeps(v)' => art'[q].file # workers'[v].new
      BY <1>4, <1>8, <1>9, <1>11, <1>14 DEF ReleasesInv, Owned
    <3>2. CASE v = w
      BY <1>1, <1>4, <1>6, <1>8, <1>9, <1>11, <3>1, <3>2
    <3>3. CASE v # w
      BY <1>4, <1>8, <1>9, <1>11, <3>1, <3>3 DEF ReleasesInv, Owned
    <3> QED
      BY <3>2, <3>3
  <2>3. ASSUME NEW u \in Workers, NEW v \in Workers, Keeps(u)'
        PROVE  /\ Keeps(v)' /\ workers'[u].new = workers'[v].new => u = v
               /\ workers'[u].new \notin workers'[v].dead
    BY <1>6, <1>8, <1>11, <1>14, <2>3 DEF ReleasesInv, Owned
  <2> QED
    BY <2>1, <2>2, <2>3 DEF Owned
<1>17. Covered'
  <2> SUFFICES ASSUME NEW d \in Copies, copy[d] # None
               PROVE  \/ \E q \in Platforms : art'[q].file = d
                      \/ \E v \in Workers : Keeps(v)' /\ workers'[v].new = d
                      \/ \E v \in Workers : workers'[v].pc \in {"dropUpload", "drop"} /\ d \in workers'[v].dead
    BY DEF Covered
  <2>1. CASE d = c
    BY <1>4, <1>9, <2>1
  <2>2. CASE d = old /\ d # c
    <3>1. d # None
      BY Constants DEF Copies
    <3> QED
      BY <1>6, <1>8, <2>2, <3>1
  <2>3. CASE d # c /\ d # old
    <3>1. ASSUME NEW q \in Platforms, art[q].file = d PROVE art'[q].file = d
      BY <1>9, <1>11, <2>3, <3>1
    <3>2. ASSUME NEW v \in Workers, Keeps(v), workers[v].new = d PROVE Keeps(v)' /\ workers'[v].new = d
      BY <1>8, <1>14, <2>3, <3>2 DEF c
    <3>3. ASSUME NEW v \in Workers, workers[v].pc \in {"dropUpload", "drop"}
          PROVE  workers'[v] = workers[v]
      BY <1>8, <3>3
    <3> QED
      BY <3>1, <3>2, <3>3 DEF ReleasesInv, Covered
  <2> QED
    BY <2>1, <2>2, <2>3
<1>18. Requests'
  <2>1. \A v \in Workers : v # w => Knows(v)'
    BY <1>8, <1>12, OthersKnow DEF ReleasesInv, Requests
  <2>2. Knows(w)'
    BY <1>6, <1>8, <1>12 DEF Knows, At
  <2> QED
    BY <2>1, <2>2 DEF Requests
<1>19. Complete'
  BY DEF ReleasesInv, Complete, Out
<1> QED
  BY <1>10, <1>13, <1>15, <1>16, <1>17, <1>18, <1>19 DEF ReleasesInv

\* ReplaceArtifactFile records the copy, or leaves it to be removed.
LEMMA RecordFileKeeps ==
  ASSUME ReleasesInv, NEW w \in Workers, RecordFile(w) PROVE ReleasesInv'
<1> DEFINE p == workers[w].on
           c == workers[w].new
<1>1. UNCHANGED <<rel, upload, copy, urls, active, require, sells, made>> /\ workers[w].pc = "record"
  BY DEF RecordFile, Objects, Product, At
<1>2. /\ workers[w] \in WorkerType /\ p \in Platforms /\ Knows(w) /\ Keeps(w)
      /\ c \in 0..MaxCopies /\ c <= made.copies /\ workers[w].sha \in Bytes
  <2>1. workers[w] \in WorkerType /\ Knows(w) /\ Keeps(w) /\ c <= made.copies
    BY <1>1 DEF ReleasesInv, TypeOK, Requests, Keeps, Copied
  <2> QED
    BY <1>1, <2>1 DEF Knows, WorkerType
<1>3. CASE /\ art[p].id = Artifact(w).id /\ rel = "draft"
           /\ art' = [art EXCEPT ![p] = [NoArt EXCEPT !.id = Artifact(w).id, !.file = workers[w].new,
                                                      !.sha = workers[w].sha]]
           /\ workers' = [workers EXCEPT ![w] =
                [Idle EXCEPT !.pc = "dropUpload", !.job = "finalize", !.on = p,
                             !.dead = {Replaced(w)} \ {None, workers[w].new}]]
  <2> DEFINE a == [NoArt EXCEPT !.id = Artifact(w).id, !.file = workers[w].new, !.sha = workers[w].sha]
             r == [Idle EXCEPT !.pc = "dropUpload", !.job = "finalize", !.on = p,
                               !.dead = {Replaced(w)} \ {None, workers[w].new}]
  <2>1. art[p] \in ArtType /\ art[p].id \in 0..MaxArtifacts /\ art[p].file \in 0..MaxCopies
    BY <1>2 DEF ReleasesInv, TypeOK, ArtType
  <2>2. a.id = art[p].id /\ a.file = c /\ a.sha = workers[w].sha /\ a.sig = None
    BY <1>3, Written
  <2>3. a \in ArtType
    BY <1>2, <1>3, <2>1, WrittenType
  <2>4. Replaced(w) = art[p].file
    BY DEF Replaced
  <2>5. r \in WorkerType
    <3>1. {Replaced(w)} \ {None, workers[w].new} \subseteq Copies
      BY <2>1, <2>4, Constants DEF Copies
    <3> QED
      BY <1>2, <3>1, Constants DEF WorkerType, WorkerPcs, Jobs
  <2>6. r.pc = "dropUpload" /\ r.on = p /\ r.dead = {art[p].file} \ {None, c} /\ r.new = None /\ r.todo = {}
    BY <2>4 DEF Idle
  <2>7. art' = [art EXCEPT ![p] = a] /\ workers' = [workers EXCEPT ![w] = r]
    BY <1>3
  <2>8. p \in Platforms /\ p = workers[w].on /\ art[p].id = Artifact(w).id /\ rel = "draft"
    BY <1>2, <1>3
  <2> HIDE DEF a, r, p
  <2> QED
    BY <1>1, <2>2, <2>3, <2>5, <2>6, <2>7, <2>8, RecordFileRecords
<1>4. ASSUME UNCHANGED art,
             workers' = [workers EXCEPT ![w] = [Idle EXCEPT !.pc = "undo", !.new = workers[w].new,
               !.todo = IF art[p].id = Artifact(w).id /\ Artifact(w).file # None THEN {p} ELSE {}]]
      PROVE  ReleasesInv'
  <2> DEFINE todo == IF art[p].id = Artifact(w).id /\ Artifact(w).file # None THEN {p} ELSE {}
             r == [Idle EXCEPT !.pc = "undo", !.new = workers[w].new, !.todo = todo]
  <2>1. todo \subseteq Platforms /\ \A q \in todo : ~Legacy(q)'
    BY <1>1, <1>2, <1>4 DEF Knows, Legacy, Has
  <2>2. workers' = [workers EXCEPT ![w] = r]
    BY <1>4
  <2> HIDE DEF todo
  <2>3. r \in WorkerType
    BY <1>2, <2>1, Constants DEF WorkerType, WorkerPcs
  <2>4. r.pc = "undo" /\ r.new = c /\ r.dead = {} /\ r.todo = todo
    BY DEF Idle
  <2> HIDE DEF r
  <2>5. /\ workers' \in [Workers -> WorkerType] /\ workers'[w] = r
        /\ \A v \in Workers : v # w => workers'[v] = workers[v]
    BY <2>2, <2>3, Moves DEF ReleasesInv
  <2>6. Knows(w)'
    BY <2>1, <2>4, <2>5 DEF Knows, At
  <2>7. Keeps(w)' /\ workers'[w].new = c /\ workers'[w].dead = {}
    BY <2>4, <2>5 DEF Keeps
  <2>8. /\ UNCHANGED <<rel, art, upload, copy, urls, active, require, sells, made>>
        /\ workers[w].pc \notin {"dropUpload", "drop"} /\ (Keeps(w)' <=> Keeps(w))
        /\ workers'[w].new <= made.copies /\ workers'[w].new = workers[w].new
        /\ workers'[w].dead \subseteq workers[w].dead
    BY <1>1, <1>2, <1>4, <2>7
  <2> HIDE DEF p, c
  <2> QED
    BY <2>5, <2>6, <2>8, Reading
<1> QED
  BY <1>3, <1>4 DEF RecordFile

\* Objects that no row serves go: a copy that only w had or was to remove,
\* and uploads that are no row's file.
LEMMA ObjectsGo ==
  ASSUME ReleasesInv, NEW w \in Workers, NEW gone \in SUBSET Copies, NEW loads \in SUBSET Platforms,
         workers' \in [Workers -> WorkerType], \A v \in Workers : v # w => workers'[v] = workers[v],
         copy' = Without(copy, gone), upload' = Without(upload, loads),
         UNCHANGED <<rel, art, urls, active, require, sells, made>>,
         \A p \in Platforms : art[p].file \notin gone,
         \A p \in loads : ~Legacy(p),
         \A v \in Workers : v # w /\ Keeps(v) => workers[v].new \notin gone,
         ~Keeps(w)', Keeps(w) => workers[w].new \in gone,
         workers'[w].new <= made.copies, workers'[w].dead \subseteq workers[w].dead,
         \/ workers[w].pc \notin {"dropUpload", "drop"} \/ workers[w].dead \subseteq gone
         \/ workers'[w].pc \in {"dropUpload", "drop"} /\ workers'[w].dead = workers[w].dead,
         Knows(w)'
  PROVE  ReleasesInv'
<1>1. /\ copy' \in [Copies -> Bytes] /\ upload' \in [Platforms -> Bytes]
      /\ \A c \in Copies : copy'[c] = IF c \in gone THEN None ELSE copy[c]
      /\ \A p \in Platforms : upload'[p] = IF p \in loads THEN None ELSE upload[p]
  BY Removing DEF ReleasesInv, TypeOK
<1>2. TypeOK'
  BY <1>1 DEF ReleasesInv, TypeOK
<1>3. \A p \in Platforms : Legacy(p)' <=> Legacy(p)
  BY DEF Legacy, Has
<1>4. \A p \in Platforms : art[p].file # None => art[p].file \in Copies
  BY Constants DEF ReleasesInv, TypeOK, ArtType, Copies
<1>5. RowsOK'
  <2> SUFFICES ASSUME NEW p \in Platforms PROVE RowOK(p)'
    BY DEF RowsOK
  <2> QED
    BY <1>1, <1>3, <1>4 DEF ReleasesInv, RowsOK, RowOK, Has
<1>6. \A v \in Workers : v # w => (Keeps(v)' <=> Keeps(v))
  BY DEF Keeps
<1>7. \A c \in Copies : copy'[c] # None => copy[c] # None /\ c \notin gone
  BY <1>1
<1>8. Copied'
  <2>1. /\ \A v \in Workers : workers'[v].new <= made.copies
        /\ \A v \in Workers : workers'[v].dead \subseteq workers[v].dead
        /\ \A v \in Workers : Keeps(v)' => workers'[v].new # None
    BY <1>6 DEF ReleasesInv, Copied
  <2> QED
    BY <1>7, <2>1 DEF ReleasesInv, Copied
<1>9. Owned'
  <2>1. \A v \in Workers : Keeps(v)' => v # w /\ Keeps(v) /\ workers'[v].new = workers[v].new
    BY <1>6
  <2>2. \A v \in Workers : workers'[v].dead \subseteq workers[v].dead
    OBVIOUS
  <2> QED
    BY <2>1, <2>2 DEF ReleasesInv, Owned
<1>10. Covered'
  <2> SUFFICES ASSUME NEW c \in Copies, copy'[c] # None
               PROVE  \/ \E p \in Platforms : art[p].file = c
                      \/ \E v \in Workers : Keeps(v)' /\ workers'[v].new = c
                      \/ \E v \in Workers : workers'[v].pc \in {"dropUpload", "drop"} /\ c \in workers'[v].dead
    BY DEF Covered
  <2>1. copy[c] # None /\ c \notin gone
    BY <1>7
  <2>2. ASSUME NEW v \in Workers, Keeps(v), workers[v].new = c PROVE Keeps(v)' /\ workers'[v].new = c
    BY <1>6, <2>1, <2>2
  <2>3. ASSUME NEW v \in Workers, workers[v].pc \in {"dropUpload", "drop"}, c \in workers[v].dead
        PROVE  workers'[v].pc \in {"dropUpload", "drop"} /\ c \in workers'[v].dead
    BY <2>1, <2>3
  <2> QED
    BY <2>1, <2>2, <2>3 DEF ReleasesInv, Covered
<1>11. Requests'
  <2>1. ASSUME NEW v \in Workers, v # w PROVE Knows(v)'
    <3>1. Keeps(v) => workers[v].new \in Copies
      <4>1. workers[v].new \in 0..MaxCopies
        BY DEF ReleasesInv, TypeOK, WorkerType
      <4> QED
        BY <4>1, Constants DEF ReleasesInv, Copied, Copies
    <3>2. Keeps(v) => copy'[workers[v].new] = copy[workers[v].new]
      BY <1>1, <2>1, <3>1
    <3> QED
      BY <1>3, <2>1, <3>2, OthersKnow DEF ReleasesInv, Requests
  <2> QED
    BY <2>1 DEF Requests
<1>12. Complete'
  BY DEF ReleasesInv, Complete, Out, Has, Uploaded, Shipped
<1> QED
  BY <1>2, <1>5, <1>8, <1>9, <1>10, <1>11, <1>12 DEF ReleasesInv

\* What is not recorded is removed: nobody else has the copy, and a row is not
\* served from the upload.
LEMMA UndoCopyKeeps ==
  ASSUME ReleasesInv, NEW w \in Workers, UndoCopy(w) PROVE ReleasesInv'
<1>1. /\ UNCHANGED <<rel, art, urls, active, require, sells, made>> /\ workers[w].pc = "undo"
      /\ copy' = Without(copy, {workers[w].new}) /\ upload' = Without(upload, workers[w].todo)
      /\ Done(w)
  BY DEF UndoCopy, Product, At
<1>2. /\ workers[w] \in WorkerType /\ Knows(w) /\ Keeps(w) /\ workers[w].new # None
  BY <1>1 DEF ReleasesInv, TypeOK, Requests, Keeps, Copied
<1>3. {workers[w].new} \in SUBSET Copies /\ workers[w].todo \in SUBSET Platforms
  BY <1>2, Constants DEF WorkerType, Copies
<1>4. /\ workers' \in [Workers -> WorkerType] /\ workers'[w] = Idle
      /\ \A v \in Workers : v # w => workers'[v] = workers[v]
  BY <1>1, Constants, Moves DEF ReleasesInv, Done
<1>5. ~Keeps(w)' /\ Knows(w)'
  BY <1>4, Afresh DEF Keeps, Knows, At
<1>6. workers'[w].new <= made.copies /\ workers'[w].dead \subseteq workers[w].dead
  BY <1>4, Afresh, Constants DEF ReleasesInv, TypeOK, MadeType
<1>7. \A p \in workers[w].todo : ~Legacy(p)
  BY <1>1, <1>2 DEF Knows
<1>8. /\ \A p \in Platforms : art[p].file \notin {workers[w].new}
      /\ \A v \in Workers : v # w /\ Keeps(v) => workers[v].new \notin {workers[w].new}
  BY <1>2 DEF ReleasesInv, Owned
<1> QED
  BY <1>1, <1>3, <1>4, <1>5, <1>6, <1>7, <1>8, ObjectsGo

\* The upload was copied: no row is served from it.
LEMMA DropUploadKeeps ==
  ASSUME ReleasesInv, NEW w \in Workers, DropUpload(w) PROVE ReleasesInv'
<1>1. /\ UNCHANGED <<rel, art, copy, urls, active, require, sells, made>> /\ workers[w].pc = "dropUpload"
      /\ upload' = Without(upload, {workers[w].on}) /\ Goes(w, "drop")
  BY DEF DropUpload, Product, At
<1>2. workers[w] \in WorkerType /\ Knows(w) /\ ~Keeps(w) /\ workers[w].new <= made.copies
  BY <1>1 DEF ReleasesInv, TypeOK, Requests, Keeps, Copied
<1>3. workers[w].on \in Platforms /\ ~Legacy(workers[w].on)
  BY <1>1, <1>2 DEF Knows, At
<1> DEFINE r == [workers[w] EXCEPT !.pc = "drop"]
<1>4. r \in WorkerType
  <2>1. "drop" \in WorkerPcs
    BY DEF WorkerPcs
  <2> QED
    BY <2>1, Turns DEF ReleasesInv
<1>5. /\ r.pc = "drop" /\ r.new = workers[w].new /\ r.dead = workers[w].dead /\ r.todo = workers[w].todo
  BY <1>2 DEF WorkerType
<1>6. workers' = [workers EXCEPT ![w] = r]
  BY <1>1, <1>2 DEF Goes, ReleasesInv, TypeOK
<1> HIDE DEF r
<1>7. /\ workers' \in [Workers -> WorkerType] /\ workers'[w] = r
      /\ \A v \in Workers : v # w => workers'[v] = workers[v]
  BY <1>4, <1>6, Moves DEF ReleasesInv
<1>8. \A p \in Platforms : Legacy(p)' <=> Legacy(p)
  BY <1>1 DEF Legacy, Has
<1>9. ~Keeps(w)' /\ Knows(w)'
  <2>1. workers[w].todo \subseteq Platforms /\ \A p \in workers[w].todo : ~Legacy(p)
    BY <1>1, <1>2 DEF Knows, WorkerType
  <2> QED
    BY <1>5, <1>7, <1>8, <2>1 DEF Keeps, Knows, At
<1>10. copy' = Without(copy, {})
  BY <1>1 DEF Without, ReleasesInv, TypeOK
<1>11. /\ {} \in SUBSET Copies /\ {workers[w].on} \in SUBSET Platforms
       /\ \A p \in {workers[w].on} : ~Legacy(p)
       /\ workers'[w].new <= made.copies /\ workers'[w].dead = workers[w].dead
       /\ workers'[w].pc \in {"dropUpload", "drop"}
       /\ \A p \in Platforms : art[p].file \notin {}
       /\ \A v \in Workers : v # w /\ Keeps(v) => workers[v].new \notin {}
  BY <1>2, <1>3, <1>5, <1>7
<1> QED
  BY <1>1, <1>2, <1>7, <1>9, <1>10, <1>11, ObjectsGo

\* The copies that were replaced go: no row is served from them.
LEMMA DropFilesKeeps ==
  ASSUME ReleasesInv, NEW w \in Workers, DropFiles(w) PROVE ReleasesInv'
<1>1. /\ UNCHANGED <<rel, art, upload, urls, active, require, sells, made>> /\ workers[w].pc = "drop"
      /\ copy' = Without(copy, workers[w].dead) /\ (Done(w) \/ Goes(w, "dropUploads"))
  BY DEF DropFiles, Product, At
<1>2. workers[w] \in WorkerType /\ Knows(w) /\ ~Keeps(w) /\ workers[w].new <= made.copies
  BY <1>1 DEF ReleasesInv, TypeOK, Requests, Keeps, Copied
<1>3. workers[w].todo \subseteq Platforms /\ \A p \in workers[w].todo : ~Legacy(p)
  BY <1>1, <1>2 DEF Knows, WorkerType
<1>4. \A p \in Platforms : Legacy(p)' <=> Legacy(p)
  BY <1>1 DEF Legacy, Has
<1>5. /\ workers' \in [Workers -> WorkerType] /\ \A v \in Workers : v # w => workers'[v] = workers[v]
      /\ ~Keeps(w)' /\ Knows(w)' /\ workers'[w].new <= made.copies
      /\ workers'[w].dead \subseteq workers[w].dead
  <2>1. CASE Done(w)
    <3>1. /\ workers' \in [Workers -> WorkerType] /\ workers'[w] = Idle
          /\ \A v \in Workers : v # w => workers'[v] = workers[v]
      BY <2>1, Constants, Moves DEF ReleasesInv, Done
    <3>2. workers'[w].new <= made.copies
      BY <1>1, <3>1, Afresh, Constants DEF ReleasesInv, TypeOK, MadeType
    <3> QED
      BY <3>1, <3>2, Afresh DEF Keeps, Knows, At
  <2>2. CASE Goes(w, "dropUploads")
    <3> DEFINE r == [workers[w] EXCEPT !.pc = "dropUploads"]
    <3>1. "dropUploads" \in WorkerPcs
      BY DEF WorkerPcs
    <3>2. r \in WorkerType /\ workers' = [workers EXCEPT ![w] = r]
      BY <1>2, <2>2, <3>1, Turns DEF Goes, ReleasesInv, TypeOK
    <3>3. r.pc = "dropUploads" /\ r.new = workers[w].new /\ r.dead = workers[w].dead /\ r.todo = workers[w].todo
      BY <1>2 DEF WorkerType
    <3> HIDE DEF r
    <3>4. /\ workers' \in [Workers -> WorkerType] /\ workers'[w] = r
          /\ \A v \in Workers : v # w => workers'[v] = workers[v]
      BY <3>2, Moves DEF ReleasesInv
    <3> QED
      BY <1>2, <1>3, <1>4, <3>3, <3>4 DEF Keeps, Knows, At
  <2> QED
    BY <1>1, <2>1, <2>2
<1>6. upload' = Without(upload, {})
  BY <1>1 DEF Without, ReleasesInv, TypeOK
<1>7. /\ workers[w].dead \in SUBSET Copies /\ {} \in SUBSET Platforms
      /\ \A p \in {} : ~Legacy(p)
  BY <1>2 DEF WorkerType
<1>8. /\ \A p \in Platforms : art[p].file \notin workers[w].dead
      /\ \A v \in Workers : v # w /\ Keeps(v) => workers[v].new \notin workers[w].dead
  BY DEF ReleasesInv, Owned
<1> QED
  BY <1>1, <1>2, <1>5, <1>6, <1>7, <1>8, ObjectsGo

\* The uploads of the rows that went.
LEMMA DropUploadsKeeps ==
  ASSUME ReleasesInv, NEW w \in Workers, DropUploads(w) PROVE ReleasesInv'
<1>1. /\ UNCHANGED <<rel, art, copy, urls, active, require, sells, made>> /\ workers[w].pc = "dropUploads"
      /\ upload' = Without(upload, workers[w].todo) /\ Done(w)
  BY DEF DropUploads, Product, At
<1>2. workers[w] \in WorkerType /\ Knows(w) /\ ~Keeps(w)
  BY <1>1 DEF ReleasesInv, TypeOK, Requests, Keeps
<1>3. /\ workers[w].todo \in SUBSET Platforms /\ \A p \in workers[w].todo : ~Legacy(p)
      /\ {} \in SUBSET Copies
  BY <1>1, <1>2 DEF Knows, WorkerType
<1>4. /\ workers' \in [Workers -> WorkerType] /\ workers'[w] = Idle
      /\ \A v \in Workers : v # w => workers'[v] = workers[v]
  BY <1>1, Constants, Moves DEF ReleasesInv, Done
<1>5. ~Keeps(w)' /\ Knows(w)' /\ workers'[w].dead \subseteq workers[w].dead
  BY <1>4, Afresh DEF Keeps, Knows, At
<1>6. workers'[w].new <= made.copies
  BY <1>4, Afresh, Constants DEF ReleasesInv, TypeOK, MadeType
<1>7. copy' = Without(copy, {})
  BY <1>1 DEF Without, ReleasesInv, TypeOK
<1>8. /\ \A p \in Platforms : art[p].file \notin {}
      /\ \A v \in Workers : v # w /\ Keeps(v) => workers[v].new \notin {}
      /\ workers[w].pc \notin {"dropUpload", "drop"}
  BY <1>1
<1> QED
  BY <1>1, <1>2, <1>3, <1>4, <1>5, <1>6, <1>7, <1>8, ObjectsGo

-----------------------------------------------------------------------------
(* Removing rows. *)

\* Rows of a draft go, and their copies are to be removed: w has every file
\* the rows had.
LEMMA RowsGo ==
  ASSUME ReleasesInv, NEW w \in Workers, NEW S \in SUBSET Platforms, NEW r \in WorkerType,
         rel = "draft", rel' \in {"draft", "none"}, art' \in [Platforms -> ArtType],
         \A p \in Platforms : art'[p] = IF p \in S THEN NoArt ELSE art[p],
         workers' = [workers EXCEPT ![w] = r], workers[w].pc = "take",
         r.pc = "drop", r.new = None, r.dead = {art[p].file : p \in S} \ {None},
         \A p \in r.todo : p \in S \/ ~Legacy(p)',
         UNCHANGED <<upload, copy, urls, active, require, sells, made>>
  PROVE  ReleasesInv'
<1>1. /\ workers' \in [Workers -> WorkerType] /\ workers'[w] = r
      /\ \A v \in Workers : v # w => workers'[v] = workers[v]
  BY Moves DEF ReleasesInv
<1>2. TypeOK'
  BY <1>1 DEF ReleasesInv, TypeOK
<1>3. NoArt.id = None /\ NoArt.file = None /\ NoArt.sha = None /\ NoArt.sig = None
  BY DEF NoArt
<1>4. /\ \A p \in Platforms : p \in S => art'[p].file = None
      /\ \A p \in Platforms : p \notin S => art'[p] = art[p]
  BY <1>3
<1>5. \A p \in Platforms : Legacy(p)' => Legacy(p) /\ p \notin S
  BY <1>3 DEF Legacy, Has
<1>6. RowsOK'
  <2> SUFFICES ASSUME NEW p \in Platforms PROVE RowOK(p)'
    BY DEF RowsOK
  <2>1. CASE p \in S
    BY <1>3, <1>5, <2>1 DEF RowOK
  <2>2. CASE p \notin S
    BY <1>4, <1>5, <2>2 DEF ReleasesInv, RowsOK, RowOK, Has
  <2> QED
    BY <2>1, <2>2
<1>7. ~Keeps(w) /\ ~Keeps(w)' /\ \A v \in Workers : v # w => (Keeps(v)' <=> Keeps(v))
  BY <1>1 DEF Keeps
<1>8. None <= made.copies
  BY Constants DEF ReleasesInv, TypeOK, MadeType
<1>9. Copied'
  <2>1. \A p \in Platforms : art'[p].file <= made.copies
    BY <1>4, <1>8 DEF ReleasesInv, Copied
  <2>2. \A v \in Workers : workers'[v].new <= made.copies
    BY <1>1, <1>8 DEF ReleasesInv, Copied
  <2>3. ASSUME NEW v \in Workers PROVE \A c \in workers'[v].dead : c <= made.copies
    <3>1. CASE v = w
      BY <1>1, <3>1 DEF ReleasesInv, Copied
    <3>2. CASE v # w
      BY <1>1, <3>2 DEF ReleasesInv, Copied
    <3> QED
      BY <3>1, <3>2
  <2>4. \A v \in Workers : Keeps(v)' => workers'[v].new # None
    BY <1>1, <1>7 DEF ReleasesInv, Copied
  <2> QED
    BY <2>1, <2>2, <2>3, <2>4 DEF ReleasesInv, Copied
<1>10. Owned'
  <2>1. \A p, q \in Platforms : art'[p].file # None /\ art'[p].file = art'[q].file => p = q
    BY <1>4 DEF ReleasesInv, Owned
  <2>2. ASSUME NEW v \in Workers, NEW p \in Platforms
        PROVE  /\ Keeps(v)' => art'[p].file # workers'[v].new
               /\ art'[p].file \notin workers'[v].dead
    <3>1. Keeps(v)' => art'[p].file # workers'[v].new
      BY <1>1, <1>4, <1>7 DEF ReleasesInv, Owned, Copied
    <3>2. None \notin workers'[v].dead
      <4>1. workers'[v].dead \subseteq Copies
        BY <1>1 DEF WorkerType
      <4> QED
        BY <4>1, Constants DEF Copies
    <3>3. CASE p \in S
      BY <1>4, <3>1, <3>2, <3>3
    <3>4. CASE p \notin S /\ v = w
      BY <1>1, <1>4, <3>1, <3>4 DEF ReleasesInv, Owned
    <3>5. CASE p \notin S /\ v # w
      BY <1>1, <1>4, <3>1, <3>5 DEF ReleasesInv, Owned
    <3> QED
      BY <3>3, <3>4, <3>5
  <2>3. ASSUME NEW u \in Workers, NEW v \in Workers, Keeps(u)'
        PROVE  /\ Keeps(v)' /\ workers'[u].new = workers'[v].new => u = v
               /\ workers'[u].new \notin workers'[v].dead
    <3>1. Keeps(u) /\ workers'[u] = workers[u]
      BY <1>1, <1>7, <2>3
    <3>2. Keeps(v)' /\ workers'[u].new = workers'[v].new => u = v
      BY <1>1, <1>7, <3>1 DEF ReleasesInv, Owned
    <3>3. CASE v = w
      BY <1>1, <3>1, <3>2, <3>3 DEF ReleasesInv, Owned
    <3>4. CASE v # w
      BY <1>1, <3>1, <3>2, <3>4 DEF ReleasesInv, Owned
    <3> QED
      BY <3>3, <3>4
  <2> QED
    BY <2>1, <2>2, <2>3 DEF Owned
<1>11. Covered'
  <2> SUFFICES ASSUME NEW c \in Copies, copy[c] # None
               PROVE  \/ \E p \in Platforms : art'[p].file = c
                      \/ \E v \in Workers : Keeps(v)' /\ workers'[v].new = c
                      \/ \E v \in Workers : workers'[v].pc \in {"dropUpload", "drop"} /\ c \in workers'[v].dead
    BY DEF Covered
  <2>1. ASSUME NEW p \in Platforms, art[p].file = c
        PROVE  \/ art'[p].file = c
               \/ workers'[w].pc \in {"dropUpload", "drop"} /\ c \in workers'[w].dead
    <3>1. c # None
      BY Constants DEF Copies
    <3> QED
      BY <1>1, <1>4, <2>1, <3>1
  <2>2. ASSUME NEW v \in Workers, Keeps(v), workers[v].new = c PROVE Keeps(v)' /\ workers'[v].new = c
    BY <1>1, <1>7, <2>2
  <2>3. ASSUME NEW v \in Workers, workers[v].pc \in {"dropUpload", "drop"}
        PROVE  workers'[v] = workers[v]
    BY <1>1, <2>3
  <2> QED
    BY <2>1, <2>2, <2>3 DEF ReleasesInv, Covered
<1>12. Requests'
  <2>1. \A v \in Workers : v # w => Knows(v)'
    BY <1>1, <1>5, OthersKnow DEF ReleasesInv, Requests
  <2>2. Knows(w)'
    <3>1. \A p \in workers'[w].todo : p \in Platforms /\ ~Legacy(p)'
      BY <1>1, <1>5 DEF WorkerType
    <3> QED
      BY <1>1, <3>1 DEF Knows, At
  <2> QED
    BY <2>1, <2>2 DEF Requests
<1>13. Complete'
  BY DEF ReleasesInv, Complete, Out
<1> QED
  BY <1>2, <1>6, <1>9, <1>10, <1>11, <1>12, <1>13 DEF ReleasesInv

\* DeleteArtifact's transaction.
LEMMA TakeRowKeeps ==
  ASSUME ReleasesInv, NEW w \in Workers, TakeRow(w) PROVE ReleasesInv'
<1> DEFINE p == workers[w].on
<1>1. /\ UNCHANGED <<rel, upload, copy, urls, active, require, sells, made>> /\ workers[w].pc = "take"
      /\ workers[w].job = "remove"
  BY DEF TakeRow, Objects, Product, At
<1>2. workers[w] \in WorkerType /\ ~Keeps(w) /\ p \in Platforms
  BY <1>1 DEF ReleasesInv, TypeOK, Requests, Keeps, Knows, At
<1>3. CASE Done(w) /\ UNCHANGED art
  BY <1>1, <1>2, <1>3, GivesUp
<1>4. ASSUME rel = "draft", art' = [art EXCEPT ![p] = NoArt],
             workers' = [workers EXCEPT ![w] =
               [Idle EXCEPT !.pc = "drop", !.dead = {art[p].file} \ {None}, !.todo = {p}]]
      PROVE  ReleasesInv'
  <2> DEFINE r == [Idle EXCEPT !.pc = "drop", !.dead = {art[p].file} \ {None}, !.todo = {p}]
  <2>1. r \in WorkerType
    <3>1. art[p].file \in 0..MaxCopies
      BY <1>2 DEF ReleasesInv, TypeOK, ArtType
    <3>2. {art[p].file} \ {None} \subseteq Copies
      BY <3>1, Constants DEF Copies
    <3> QED
      BY <1>2, <3>2, Constants DEF WorkerType, WorkerPcs
  <2>2. r.pc = "drop" /\ r.new = None /\ r.dead = {art[p].file} \ {None} /\ r.todo = {p}
    BY DEF Idle
  <2>3. workers' = [workers EXCEPT ![w] = r]
    BY <1>4
  <2> HIDE DEF r
  <2>4. /\ art' \in [Platforms -> ArtType]
        /\ \A q \in Platforms : art'[q] = IF q \in {p} THEN NoArt ELSE art[q]
    BY <1>2, <1>4, Constants DEF ReleasesInv, TypeOK
  <2>5. /\ {p} \in SUBSET Platforms /\ r.dead = {art[q].file : q \in {p}} \ {None}
        /\ \A q \in r.todo : q \in {p} \/ ~Legacy(q)'
        /\ rel' \in {"draft", "none"}
    BY <1>1, <1>2, <1>4, <2>2
  <2> HIDE DEF p
  <2> QED
    BY <1>1, <1>4, <2>1, <2>2, <2>3, <2>4, <2>5, RowsGo
<1> QED
  BY <1>3, <1>4 DEF TakeRow

\* DeleteDraft's transaction.
LEMMA TakeDraftKeeps ==
  ASSUME ReleasesInv, NEW w \in Workers, TakeDraft(w) PROVE ReleasesInv'
<1>1. UNCHANGED <<upload, copy, urls, active, require, sells, made>> /\ workers[w].pc = "take"
  BY DEF TakeDraft, Objects, Product, At
<1>2. workers[w] \in WorkerType /\ ~Keeps(w)
  BY <1>1 DEF ReleasesInv, TypeOK, Keeps
<1>3. CASE Done(w) /\ UNCHANGED <<rel, art>>
  BY <1>1, <1>2, <1>3, GivesUp
<1> DEFINE todo == {p \in Platforms : \/ workers[w].snap[p].file # None
                                      \/ Has(p) /\ art[p].file = None}
           dead == {art[p].file : p \in Platforms} \ {None}
           r == [Idle EXCEPT !.pc = "drop", !.dead = dead, !.todo = todo]
<1>4. ASSUME rel = "draft", rel' = "none", art' = [p \in Platforms |-> NoArt],
             workers' = [workers EXCEPT ![w] = r]
      PROVE  ReleasesInv'
  <2>1. dead \subseteq Copies
    <3>1. \A p \in Platforms : art[p].file \in 0..MaxCopies
      BY DEF ReleasesInv, TypeOK, ArtType
    <3> QED
      BY <3>1, Constants DEF Copies
  <2>2. todo \subseteq Platforms
    OBVIOUS
  <2> HIDE DEF dead, todo
  <2>3. r \in WorkerType
    BY <2>1, <2>2, Constants DEF WorkerType, WorkerPcs
  <2>4. r.pc = "drop" /\ r.new = None /\ r.dead = dead /\ r.todo = todo
    BY DEF Idle
  <2> HIDE DEF r
  <2>5. /\ art' \in [Platforms -> ArtType]
        /\ \A q \in Platforms : art'[q] = IF q \in Platforms THEN NoArt ELSE art[q]
    BY <1>4, Constants
  <2>6. /\ r.dead = {art[q].file : q \in Platforms} \ {None}
        /\ \A q \in r.todo : q \in Platforms \/ ~Legacy(q)'
        /\ rel' \in {"draft", "none"} /\ Platforms \in SUBSET Platforms
    BY <1>4, <2>2, <2>4 DEF dead
  <2> QED
    BY <1>1, <1>4, <2>3, <2>4, <2>5, <2>6, RowsGo
<1> QED
  BY <1>3, <1>4 DEF TakeDraft

-----------------------------------------------------------------------------
(* The steps that leave every row its file. *)

\* Copies keep their owners.
LEMMA FilesStay ==
  ASSUME ReleasesInv, \A p \in Platforms : art'[p].file = art[p].file,
         copy' = copy, made'.copies = made.copies,
         \A v \in Workers : /\ Keeps(v)' <=> Keeps(v)
                            /\ Keeps(v) => workers'[v].new = workers[v].new
                            /\ workers'[v].new <= made.copies
                            /\ workers'[v].dead \subseteq workers[v].dead
                            /\ workers[v].pc \in {"dropUpload", "drop"} => workers'[v] = workers[v]
  PROVE  Copied' /\ Owned' /\ Covered'
<1>1. Copied'
  BY DEF ReleasesInv, Copied
<1>2. Owned'
  BY DEF ReleasesInv, Owned
<1>3. Covered'
  BY DEF ReleasesInv, Covered
<1> QED
  BY <1>1, <1>2, <1>3

\* A request that goes on from one of Publish's steps, having no copy.
LEMMA GoesOn ==
  ASSUME ReleasesInv, NEW w \in Workers, NEW r \in WorkerType, workers' = [workers EXCEPT ![w] = r],
         workers[w].pc \in {"clear", "write", "gate"}, ~(r.pc \in {"hash", "record", "undo"}),
         r.new = None \/ r.new = workers[w].new, r.dead \subseteq workers[w].dead
  PROVE  /\ workers' \in [Workers -> WorkerType] /\ workers'[w] = r
         /\ \A v \in Workers : v # w => workers'[v] = workers[v]
         /\ \A v \in Workers : /\ Keeps(v)' <=> Keeps(v)
                               /\ Keeps(v) => workers'[v].new = workers[v].new
                               /\ workers'[v].new <= made.copies
                               /\ workers'[v].dead \subseteq workers[v].dead
                               /\ workers[v].pc \in {"dropUpload", "drop"} => workers'[v] = workers[v]
<1>1. /\ workers' \in [Workers -> WorkerType] /\ workers'[w] = r
      /\ \A v \in Workers : v # w => workers'[v] = workers[v]
  BY Moves DEF ReleasesInv
<1>2. workers'[w].new <= made.copies
  BY <1>1, Constants DEF ReleasesInv, TypeOK, MadeType, Copied
<1>3. \A v \in Workers : v # w => workers'[v].new <= made.copies
  BY <1>1 DEF ReleasesInv, Copied
<1> QED
  BY <1>1, <1>2, <1>3 DEF Keeps

\* Signatures of the draft change and nothing else of its rows; none is over
\* other bytes than the row's.
LEMMA SignaturesChange ==
  ASSUME ReleasesInv, NEW w \in Workers, NEW r \in WorkerType, workers' = [workers EXCEPT ![w] = r],
         workers[w].pc \in {"clear", "write", "gate"}, ~(r.pc \in {"hash", "record", "undo"}),
         r.new = None \/ r.new = workers[w].new, r.dead \subseteq workers[w].dead,
         rel = "draft", rel' = "draft", art' \in [Platforms -> ArtType],
         \A p \in Platforms : /\ art'[p].id = art[p].id /\ art'[p].file = art[p].file
                              /\ art'[p].sha = art[p].sha /\ art'[p].sig \in {None, art[p].sha},
         Knows(w)',
         UNCHANGED <<upload, copy, urls, active, require, sells, made>>
  PROVE  ReleasesInv'
<1>1. /\ workers' \in [Workers -> WorkerType]
      /\ \A v \in Workers : v # w => workers'[v] = workers[v]
  BY GoesOn
<1>2. Copied' /\ Owned' /\ Covered'
  BY GoesOn, FilesStay
<1>3. TypeOK'
  BY <1>1 DEF ReleasesInv, TypeOK
<1>4. \A p \in Platforms : Legacy(p)' <=> Legacy(p)
  BY DEF Legacy, Has
<1>5. RowsOK'
  BY <1>4 DEF ReleasesInv, RowsOK, RowOK, Has
<1>6. Requests'
  <2>1. \A v \in Workers : v # w => Knows(v)'
    BY <1>1, <1>4, OthersKnow DEF ReleasesInv, Requests
  <2> QED
    BY <2>1 DEF Requests
<1>7. Complete'
  BY DEF ReleasesInv, Complete, Out
<1> QED
  BY <1>2, <1>3, <1>5, <1>6, <1>7 DEF ReleasesInv

\* ClearReleaseSignatures.
LEMMA ClearSignaturesKeeps ==
  ASSUME ReleasesInv, NEW w \in Workers, ClearSignatures(w) PROVE ReleasesInv'
<1>1. /\ UNCHANGED <<rel, upload, copy, urls, active, require, sells, made>> /\ workers[w].pc = "clear"
  BY DEF ClearSignatures, Objects, Product, At
<1>2. workers[w] \in WorkerType /\ ~Keeps(w) /\ ~require
  BY <1>1 DEF ReleasesInv, TypeOK, Requests, Keeps, Knows, At
<1>3. CASE Done(w) /\ UNCHANGED art
  BY <1>1, <1>2, <1>3, GivesUp
<1> DEFINE r == [Idle EXCEPT !.pc = "gate", !.of = workers[w].of]
<1>4. ASSUME rel = "draft", art' = [p \in Platforms |-> [art[p] EXCEPT !.sig = None, !.by = None]],
             workers' = [workers EXCEPT ![w] = r]
      PROVE  ReleasesInv'
  <2>1. r \in WorkerType
    BY <1>2, Constants DEF WorkerType, WorkerPcs
  <2>2. r.pc = "gate" /\ r.new = None /\ r.dead = {}
    BY DEF Idle
  <2> HIDE DEF r
  <2>3. workers'[w] = r
    BY <1>4, <2>1, Moves DEF ReleasesInv
  <2>4. Knows(w)'
    BY <1>1, <1>2, <2>2, <2>3 DEF Knows, At
  <2>5. ASSUME NEW p \in Platforms
        PROVE  LET a == [art[p] EXCEPT !.sig = None, !.by = None] IN
                 a \in ArtType /\ a.id = art[p].id /\ a.file = art[p].file /\ a.sha = art[p].sha /\ a.sig = None
    <3>1. art[p] \in ArtType
      BY DEF ReleasesInv, TypeOK
    <3> QED
      BY <3>1, Constants DEF ArtType
  <2>6. /\ art' \in [Platforms -> ArtType]
        /\ \A p \in Platforms : /\ art'[p].id = art[p].id /\ art'[p].file = art[p].file
                                /\ art'[p].sha = art[p].sha /\ art'[p].sig \in {None, art[p].sha}
    BY <1>4, <2>5
  <2> QED
    BY <1>1, <1>4, <2>1, <2>2, <2>4, <2>6, SignaturesChange
<1> QED
  BY <1>3, <1>4 DEF ClearSignatures

\* UpdateArtifactSignatureOf: over what was read, and the row is as it was read.
LEMMA WriteSignatureKeeps ==
  ASSUME ReleasesInv, NEW w \in Workers, WriteSignature(w) PROVE ReleasesInv'
<1> DEFINE p == workers[w].on
           k == workers[w].key
<1>1. /\ UNCHANGED <<rel, upload, copy, urls, active, require, sells, made>> /\ workers[w].pc = "write"
  BY DEF WriteSignature, Objects, Product, At
<1>2. workers[w] \in WorkerType /\ ~Keeps(w) /\ p \in Platforms /\ k # None /\ k \in 0..MaxKeys
  <2>1. workers[w] \in WorkerType /\ ~Keeps(w) /\ p \in Platforms /\ k # None
    BY <1>1 DEF ReleasesInv, TypeOK, Requests, Keeps, Knows, At
  <2> QED
    BY <2>1 DEF WorkerType
<1>3. CASE Done(w) /\ UNCHANGED art
  BY <1>1, <1>2, <1>3, GivesUp
<1> DEFINE r1 == [Idle EXCEPT !.pc = "gate", !.of = workers[w].of, !.key = workers[w].key]
           r2 == [workers[w] EXCEPT !.pc = "sign", !.on = Nowhere, !.todo = workers[w].todo \ {p}]
           r == IF workers[w].todo = {p} THEN r1 ELSE r2
<1>4. ASSUME SameFile(w), rel = "draft",
             art' = [art EXCEPT ![p].sig = Artifact(w).sha, ![p].by = workers[w].key],
             workers' = [workers EXCEPT ![w] = r]
      PROVE  ReleasesInv'
  <2>1. r1 \in WorkerType /\ r2 \in WorkerType
    <3>1. r1 \in WorkerType
      BY <1>2, Constants DEF WorkerType, WorkerPcs
    <3>2. workers[w].todo \ {p} \subseteq Platforms
      BY <1>2 DEF WorkerType
    <3>3. r2 \in WorkerType
      BY <1>2, <3>2 DEF WorkerType, WorkerPcs
    <3> QED
      BY <3>1, <3>3
  <2>2. r1.pc = "gate" /\ r1.new = None /\ r1.dead = {} /\ r1.key = k
    BY DEF Idle
  <2>3. r2.pc = "sign" /\ r2.new = workers[w].new /\ r2.dead = workers[w].dead /\ r2.key = k
    BY <1>2 DEF WorkerType
  <2>4. workers' = [workers EXCEPT ![w] = r]
    BY <1>4
  <2> HIDE DEF r1, r2
  <2>5. /\ r \in WorkerType /\ r.pc \in {"gate", "sign"} /\ r.dead \subseteq workers[w].dead
        /\ r.new = None \/ r.new = workers[w].new
        /\ r.key = k
    BY <2>1, <2>2, <2>3
  <2> HIDE DEF r
  <2>6. workers'[w] = r
    BY <2>4, <2>5, Moves DEF ReleasesInv
  <2>7. Knows(w)'
    BY <1>2, <2>5, <2>6 DEF Knows, At
  <2>8. Artifact(w).sha = art[p].sha
    BY <1>4 DEF SameFile
  <2>9. /\ art' \in [Platforms -> ArtType]
        /\ \A q \in Platforms : /\ art'[q].id = art[q].id /\ art'[q].file = art[q].file
                                /\ art'[q].sha = art[q].sha /\ art'[q].sig \in {None, art[q].sha}
    <3> DEFINE a == [art[p] EXCEPT !.sig = art[p].sha, !.by = k]
    <3>1. \A q \in Platforms : art[q] \in ArtType /\ art[q].sig \in {None, art[q].sha}
      BY DEF ReleasesInv, TypeOK, RowsOK, RowOK
    <3>2. /\ a \in ArtType /\ a.id = art[p].id /\ a.file = art[p].file /\ a.sha = art[p].sha
          /\ a.sig = art[p].sha
      BY <1>2, <3>1 DEF ArtType
    <3>3. art' = [art EXCEPT ![p] = a]
      BY <1>2, <1>4, <2>8 DEF ReleasesInv, TypeOK
    <3> HIDE DEF a
    <3>4. art' \in [Platforms -> ArtType] /\ art'[p] = a /\ \A q \in Platforms : q # p => art'[q] = art[q]
      BY <1>2, <3>2, <3>3 DEF ReleasesInv, TypeOK
    <3> QED
      BY <3>1, <3>2, <3>4
  <2> HIDE DEF p, k
  <2>10. r \in WorkerType /\ ~(r.pc \in {"hash", "record", "undo"})
    BY <2>5
  <2> QED
    BY <1>1, <1>4, <2>4, <2>5, <2>7, <2>9, <2>10, SignaturesChange
<1>5. \/ /\ SameFile(w) /\ rel = "draft"
         /\ art' = [art EXCEPT ![p].sig = Artifact(w).sha, ![p].by = workers[w].key]
         /\ workers' = [workers EXCEPT ![w] = r]
      \/ Done(w) /\ UNCHANGED art
  BY Zenon DEF WriteSignature
<1> HIDE DEF p, k, r
<1> QED
  BY <1>3, <1>4, <1>5

\* PublishRelease: what its locks let it check of the draft is what goes out.
LEMMA PublishReleaseKeeps ==
  ASSUME ReleasesInv, NEW w \in Workers, PublishRelease(w) PROVE ReleasesInv'
<1>1. /\ UNCHANGED <<art, upload, copy, urls, active, require, sells, made>> /\ workers[w].pc = "gate"
      /\ workers' = [workers EXCEPT ![w] = Idle]
      /\ rel' # rel => rel = "draft" /\ rel' = "published" /\ Ready(workers[w].key)
  BY DEF PublishRelease, Objects, Product, At, Done
<1>2. /\ workers' \in [Workers -> WorkerType] /\ workers'[w] = Idle
      /\ \A v \in Workers : v # w => workers'[v] = workers[v]
  BY <1>1, Constants, Moves DEF ReleasesInv
<1>3. Copied' /\ Owned' /\ Covered'
  <2>1. Idle \in WorkerType /\ ~(Idle.pc \in {"hash", "record", "undo"}) /\ Idle.new = None
        /\ Idle.dead \subseteq workers[w].dead
    BY Constants, Afresh
  <2> QED
    BY <1>1, <2>1, GoesOn, FilesStay
<1>4. TypeOK'
  BY <1>1, <1>2 DEF ReleasesInv, TypeOK
<1>5. \A p \in Platforms : Legacy(p)' <=> Legacy(p)
  BY <1>1 DEF Legacy, Has
<1>6. RowsOK'
  BY <1>1, <1>5 DEF ReleasesInv, RowsOK, RowOK, Has
<1>7. Requests'
  <2>1. \A v \in Workers : v # w => Knows(v)'
    BY <1>1, <1>2, <1>5, OthersKnow DEF ReleasesInv, Requests
  <2>2. Knows(w)'
    BY <1>2, Afresh DEF Knows, At
  <2> QED
    BY <2>1, <2>2 DEF Requests
<1>8. Complete'
  <2>1. CASE rel' = rel
    BY <1>1, <2>1 DEF ReleasesInv, Complete, Out, Has, Uploaded, Shipped
  <2>2. CASE rel' # rel
    <3>1. require => workers[w].key # None
      BY <1>1 DEF ReleasesInv, Requests, Knows, At
    <3>2. rel = "draft" /\ rel' = "published" /\ sells
      BY <1>1, <2>2 DEF ReleasesInv, Complete
    <3>3. \A p \in Platforms : Has(p) => Uploaded(art[p])
      BY <1>1, <2>2 DEF Ready
    <3>4. require => \A p, q \in Shipped : art[p].sig # None /\ art[p].by = art[q].by
      BY <1>1, <2>2, <3>1 DEF Ready, Shipped
    <3> QED
      BY <1>1, <3>2, <3>3, <3>4 DEF Complete, Out, Has, Uploaded, Shipped
  <2> QED
    BY <2>1, <2>2
<1> QED
  BY <1>3, <1>4, <1>6, <1>7, <1>8 DEF ReleasesInv

\* A step of the admin that touches no object and no request.
LEMMA AdminStep ==
  ASSUME ReleasesInv, UNCHANGED <<workers, copy, require>>, TypeOK', RowsOK', Complete',
         made'.copies = made.copies,
         \A p \in Platforms : art'[p].file = art[p].file /\ (Legacy(p)' => Legacy(p))
  PROVE  ReleasesInv'
<1>1. \A v \in Workers : /\ Keeps(v)' <=> Keeps(v)
                         /\ Keeps(v) => workers'[v].new = workers[v].new
                         /\ workers'[v].new <= made.copies
                         /\ workers'[v].dead \subseteq workers[v].dead
                         /\ workers[v].pc \in {"dropUpload", "drop"} => workers'[v] = workers[v]
  BY DEF Keeps, ReleasesInv, Copied
<1>2. Copied' /\ Owned' /\ Covered'
  BY <1>1, FilesStay
<1>3. Requests'
  BY OthersKnow DEF ReleasesInv, Requests
<1> QED
  BY <1>2, <1>3 DEF ReleasesInv

\* What was made is counted, one at a time.
LEMMA Counted ==
  ASSUME TypeOK
  PROVE  /\ made.releases < MaxReleases /\ made' = [made EXCEPT !.releases = @ + 1] =>
              made' \in MadeType /\ made'.copies = made.copies
         /\ made.rows < MaxArtifacts /\ made' = [made EXCEPT !.rows = @ + 1] =>
              made' \in MadeType /\ made'.copies = made.copies
         /\ made.uploads < MaxUploads /\ made' = [made EXCEPT !.uploads = @ + 1] =>
              made' \in MadeType /\ made'.copies = made.copies
         /\ made.keys < MaxKeys /\ made' = [made EXCEPT !.keys = @ + 1] =>
              made' \in MadeType /\ made'.copies = made.copies
<1>1. made \in MadeType
  BY DEF TypeOK
<1>2. /\ made.releases < MaxReleases => made.releases + 1 \in 0..MaxReleases
      /\ made.rows < MaxArtifacts => made.rows + 1 \in 0..MaxArtifacts
      /\ made.uploads < MaxUploads => made.uploads + 1 \in Bytes
      /\ made.keys < MaxKeys => made.keys + 1 \in 0..MaxKeys
  BY <1>1, Constants DEF MadeType, Bytes
<1>3. made.releases < MaxReleases /\ made' = [made EXCEPT !.releases = @ + 1] =>
        made' \in MadeType /\ made'.copies = made.copies
  BY <1>1, <1>2 DEF MadeType
<1>4. made.rows < MaxArtifacts /\ made' = [made EXCEPT !.rows = @ + 1] =>
        made' \in MadeType /\ made'.copies = made.copies
  BY <1>1, <1>2 DEF MadeType
<1>5. made.uploads < MaxUploads /\ made' = [made EXCEPT !.uploads = @ + 1] =>
        made' \in MadeType /\ made'.copies = made.copies
  BY <1>1, <1>2 DEF MadeType
<1>6. made.keys < MaxKeys /\ made' = [made EXCEPT !.keys = @ + 1] =>
        made' \in MadeType /\ made'.copies = made.copies
  BY <1>1, <1>2 DEF MadeType
<1> QED
  BY <1>3, <1>4, <1>5, <1>6

\* A row begins empty: it is not served from an earlier upload.
LEMMA AddArtifactKeeps ==
  ASSUME ReleasesInv, NEW p \in Platforms, AddArtifact(p) PROVE ReleasesInv'
<1> DEFINE a == [NoArt EXCEPT !.id = made.rows + 1]
<1>1. /\ UNCHANGED <<rel, upload, copy, active, require, sells, workers>>
      /\ rel = "draft" /\ ~Has(p) /\ urls' = urls \cup {p}
      /\ art' = [art EXCEPT ![p] = a]
      /\ made.rows < MaxArtifacts /\ made' = [made EXCEPT !.rows = @ + 1]
  BY DEF AddArtifact
<1>2. made' \in MadeType /\ made'.copies = made.copies
  BY <1>1, Counted DEF ReleasesInv
<1>3. made.rows + 1 \in 0..MaxArtifacts
  BY <1>1, Constants DEF ReleasesInv, TypeOK, MadeType
<1>4. /\ a \in ArtType /\ a.file = None /\ a.sha = None /\ a.sig = None
  BY <1>3, Constants, Written, WrittenType
<1> HIDE DEF a
<1>5. art' \in [Platforms -> ArtType] /\ art'[p] = a /\ \A q \in Platforms : q # p => art'[q] = art[q]
  BY <1>1, <1>4 DEF ReleasesInv, TypeOK
<1>6. art[p].file = None
  BY <1>1 DEF ReleasesInv, RowsOK, RowOK
<1>7. \A q \in Platforms : art'[q].file = art[q].file /\ (Legacy(q)' => Legacy(q) /\ q # p)
  BY <1>4, <1>5, <1>6 DEF Legacy, Has
<1>8. TypeOK'
  BY <1>1, <1>2, <1>5 DEF ReleasesInv, TypeOK
<1>9. RowsOK'
  <2> SUFFICES ASSUME NEW q \in Platforms PROVE RowOK(q)'
    BY DEF RowsOK
  <2>1. CASE q = p
    BY <1>4, <1>5, <1>7, <2>1 DEF RowOK
  <2>2. CASE q # p
    BY <1>1, <1>5, <1>7, <2>2 DEF ReleasesInv, RowsOK, RowOK, Has
  <2> QED
    BY <2>1, <2>2
<1>10. Complete'
  BY <1>1 DEF ReleasesInv, Complete, Out
<1> QED
  BY <1>1, <1>2, <1>7, <1>8, <1>9, <1>10, AdminStep

\* The other steps: whoever holds a URL, and the admin.
LEMMA OutsideKeeps ==
  ASSUME ReleasesInv,
         \/ CreateRelease \/ (\E p \in Platforms : Put(p))
         \/ Yank \/ Unyank \/ ChangeType \/ NextKey \/ DeactivateKey
  PROVE  ReleasesInv'
<1>1. CASE CreateRelease
  <2>1. made' \in MadeType /\ made'.copies = made.copies
    BY <1>1, Counted DEF CreateRelease, ReleasesInv
  <2>2. TypeOK'
    BY <1>1, <2>1 DEF CreateRelease, ReleasesInv, TypeOK
  <2>3. \A p \in Platforms : Legacy(p)' <=> Legacy(p)
    BY <1>1 DEF CreateRelease, Legacy, Has
  <2>4. RowsOK'
    BY <1>1, <2>3 DEF CreateRelease, ReleasesInv, RowsOK, RowOK, Has
  <2>5. Complete'
    BY <1>1 DEF CreateRelease, ReleasesInv, Complete, Out
  <2> QED
    BY <1>1, <2>1, <2>2, <2>3, <2>4, <2>5, AdminStep DEF CreateRelease
<1>2. ASSUME NEW p \in Platforms, Put(p) PROVE ReleasesInv'
  <2>1. made' \in MadeType /\ made'.copies = made.copies
    BY <1>2, Counted DEF Put, ReleasesInv
  <2>2. made.uploads + 1 \in Bytes
    BY <1>2, Constants DEF Put, ReleasesInv, TypeOK, MadeType, Bytes
  <2>3. /\ upload' \in [Platforms -> Bytes]
        /\ \A q \in Platforms : q # p => upload'[q] = upload[q]
    BY <1>2, <2>2 DEF Put, ReleasesInv, TypeOK
  <2>4. TypeOK'
    BY <1>2, <2>1, <2>3 DEF Put, ReleasesInv, TypeOK
  <2>5. \A q \in Platforms : Legacy(q)' <=> Legacy(q)
    BY <1>2 DEF Put, Legacy, Has
  <2>6. RowsOK'
    <3>1. ~Legacy(p)
      BY <1>2 DEF Put, ReleasesInv, RowsOK, RowOK
    <3> QED
      BY <1>2, <2>3, <2>5, <3>1 DEF Put, ReleasesInv, RowsOK, RowOK, Has
  <2>7. Complete'
    BY <1>2 DEF Put, ReleasesInv, Complete, Out, Has, Uploaded, Shipped
  <2> QED
    BY <1>2, <2>1, <2>4, <2>5, <2>6, <2>7, AdminStep DEF Put
<1>3. ASSUME Yank \/ Unyank \/ ChangeType \/ NextKey \/ DeactivateKey PROVE ReleasesInv'
  <2>1. UNCHANGED <<art, upload, copy, urls, workers, require>>
    BY <1>3 DEF Yank, Unyank, ChangeType, NextKey, DeactivateKey, Rest, Objects, Product
  <2>2. made' \in MadeType /\ made'.copies = made.copies
    BY <1>3, Counted DEF Yank, Unyank, ChangeType, NextKey, DeactivateKey, ReleasesInv, TypeOK
  <2>3. TypeOK'
    <3>1. made.keys < MaxKeys => made.keys + 1 \in 0..MaxKeys
      BY Constants DEF ReleasesInv, TypeOK, MadeType
    <3> QED
      BY <1>3, <2>1, <2>2, <3>1, Constants
      DEF Yank, Unyank, ChangeType, NextKey, DeactivateKey, Product, ReleasesInv, TypeOK
  <2>4. \A p \in Platforms : Legacy(p)' <=> Legacy(p)
    BY <2>1 DEF Legacy, Has
  <2>5. RowsOK'
    BY <2>1, <2>4 DEF ReleasesInv, RowsOK, RowOK, Has
  <2>6. Complete'
    BY <1>3, <2>1 DEF Yank, Unyank, ChangeType, NextKey, DeactivateKey, Product,
                      ReleasesInv, Complete, Out, Has, Uploaded, Shipped
  <2> QED
    BY <2>1, <2>2, <2>3, <2>4, <2>5, <2>6, AdminStep
<1> QED
  BY <1>1, <1>2, <1>3

-----------------------------------------------------------------------------
(* The theorems. *)

\* The invariant holds of a new release, and of one from before there were
\* served copies.
LEMMA InitInv == Init => ReleasesInv
<1> SUFFICES ASSUME Init PROVE ReleasesInv
  OBVIOUS
<1>1. workers = [w \in Workers |-> Idle] /\ copy = [c \in Copies |-> None] /\ urls = {} /\ active = None
      /\ sells = TRUE /\ require \in BOOLEAN
  BY DEF Init
<1>2. \A w \in Workers : workers[w] = Idle /\ workers[w].pc = "idle" /\ workers[w].new = None
                         /\ workers[w].dead = {}
  BY <1>1, Afresh
<1>3. /\ NoArt \in ArtType /\ NoArt.id = None /\ NoArt.file = None /\ NoArt.sha = None /\ NoArt.sig = None
  BY Constants DEF NoArt
<1> DEFINE Begins == /\ art \in [Platforms -> ArtType] /\ upload \in [Platforms -> Bytes] /\ made \in MadeType
                     /\ rel \in {"none", "draft", "published"}
                     /\ \A p \in Platforms : art[p].file = None /\ art[p].sig = None
                     /\ \A p \in Platforms : art[p].id # None => upload[p] = art[p].sha /\ art[p].sha # None
                     /\ rel = "published" => ~require
                     /\ made.copies = 0
<1>4. Begins
  <2>1. CASE /\ rel = "none" /\ art = [p \in Platforms |-> NoArt]
             /\ upload = [p \in Platforms |-> None]
             /\ made = [releases |-> 0, uploads |-> 0, copies |-> 0, rows |-> 0, keys |-> 0]
    <3>1. made \in MadeType /\ made.copies = 0
      BY <2>1, Constants DEF MadeType, Bytes
    <3> QED
      BY <1>3, <2>1, <3>1, Constants
  <2>2. ASSUME MaxReleases > 0, MaxUploads > 0, MaxArtifacts > 0, ~require, NEW old \in Platforms,
               rel \in {"draft", "published"},
               art = [p \in Platforms |-> IF p = old THEN [NoArt EXCEPT !.id = 1, !.sha = 1] ELSE NoArt],
               upload = [p \in Platforms |-> IF p = old THEN 1 ELSE None],
               made = [releases |-> 1, uploads |-> 1, copies |-> 0, rows |-> 1, keys |-> 0]
        PROVE  Begins
    <3> DEFINE a == [NoArt EXCEPT !.id = 1, !.sha = 1]
    <3>1. 1 \in 0..MaxArtifacts /\ 1 \in Bytes /\ 1 \in 0..MaxReleases /\ 1 # None
      BY <2>2, Constants DEF Bytes
    <3>2. a \in ArtType /\ a.file = None /\ a.sha = 1 /\ a.sig = None
      <4>1. a \in ArtType
        BY <3>1, Constants DEF ArtType
      <4> QED
        BY <4>1 DEF NoArt
    <3>3. made \in MadeType /\ made.copies = 0
      BY <2>2, <3>1, Constants DEF MadeType
    <3>4. \A p \in Platforms : art[p] = IF p = old THEN a ELSE NoArt
      BY <2>2
    <3>5. art \in [Platforms -> ArtType]
      BY <1>3, <2>2, <3>2
    <3> HIDE DEF a
    <3> QED
      BY <1>3, <2>2, <3>1, <3>2, <3>3, <3>4, <3>5, Constants
  <2> QED
    BY <2>1, <2>2 DEF Init
<1>5. TypeOK
  BY <1>1, <1>4, Constants DEF TypeOK
<1>6. RowsOK
  BY <1>1, <1>4 DEF RowsOK, RowOK, Legacy, Has
<1>7. \A w \in Workers : ~Keeps(w)
  BY <1>2 DEF Keeps
<1>8. Copied /\ Owned /\ Covered
  BY <1>1, <1>2, <1>4, <1>7, Constants DEF Copied, Owned, Covered
<1>9. Requests
  BY <1>2, Afresh DEF Requests, Knows, At
<1>10. Complete
  BY <1>1, <1>4 DEF Complete, Out, Has, Uploaded
<1> QED
  BY <1>5, <1>6, <1>8, <1>9, <1>10 DEF ReleasesInv

\* Every step keeps the invariant.
LEMMA InvNext == ReleasesInv /\ [Next]_vars => ReleasesInv'
<1> SUFFICES ASSUME ReleasesInv, [Next]_vars PROVE ReleasesInv'
  OBVIOUS
<1>1. ASSUME NEW w \in Workers, Request(w) PROVE ReleasesInv'
  BY <1>1, FinalizeStartsKeeps, CopyUploadKeeps, HashCopyKeeps, RecordFileKeeps, UndoCopyKeeps,
     DropUploadKeeps, DropFilesKeeps, RemoveStartsKeeps, TakeRowKeeps, TakeDraftKeeps,
     DropUploadsKeeps, PublishStartsKeeps, PickKeyKeeps, ClearSignaturesKeeps, SignArtifactKeeps,
     WriteSignatureKeeps, PublishReleaseKeeps DEF Request
<1>2. ASSUME NEW p \in Platforms, AddArtifact(p) PROVE ReleasesInv'
  BY <1>2, AddArtifactKeeps
<1>3. CASE \/ CreateRelease \/ (\E p \in Platforms : Put(p))
           \/ Yank \/ Unyank \/ ChangeType \/ GenerateKey \/ RotateKey \/ DeactivateKey
  BY <1>3, OutsideKeeps DEF GenerateKey, RotateKey
<1>4. CASE UNCHANGED vars
  BY <1>4 DEF vars, ReleasesInv, TypeOK, RowsOK, RowOK, Legacy, Has, Copied, Owned, Covered, Keeps,
              Requests, Knows, At, Artifact, Complete, Out, Uploaded, Shipped
<1> QED
  BY <1>1, <1>2, <1>3, <1>4 DEF Next

\* Every served copy has one owner, which a number used once makes sure of,
\* whatever requests run beside each other.
THEOREM ReleasesInvHolds == Spec => []ReleasesInv
<1>1. Init => ReleasesInv
  BY InitInv
<1>2. ReleasesInv /\ [Next]_vars => ReleasesInv'
  BY InvNext
<1> QED
  BY <1>1, <1>2, PTL DEF Spec

\* Behind every artifact of a release that went out is the object that was
\* recorded.
LEMMA Behind ==
  ReleasesInv /\ Out => \A p \in Shipped : ObjectOf(p, art[p]) = art[p].sha /\ art[p].sha # None
BY DEF ReleasesInv, Complete, RowsOK, RowOK, Shipped, Uploaded, ObjectOf, Legacy

\* A published release can be installed, and no served copy is left over
\* (Publish, FinalizeArtifact: service/release.go).
THEOREM ShippedVerifiesHolds == Spec => []ShippedVerifies
<1>1. ReleasesInv => ShippedVerifies
  <2> SUFFICES ASSUME ReleasesInv PROVE ShippedVerifies
    OBVIOUS
  <2>1. rel = "published" => Installable
    <3> SUFFICES ASSUME rel = "published" PROVE Installable
      OBVIOUS
    <3>1. Out /\ sells
      BY DEF Out, ReleasesInv, Complete
    <3>2. \A p \in Shipped : art[p].sig \in {None, art[p].sha}
      BY DEF ReleasesInv, RowsOK, RowOK, Shipped
    <3>3. require => \A p, q \in Shipped : art[p].sig # None /\ art[p].by = art[q].by
      BY <3>1 DEF ReleasesInv, Complete
    <3> QED
      BY <3>1, <3>2, <3>3, Behind DEF Installable
  <2>2. ASSUME Quiet PROVE NoOrphanCopies
    <3> SUFFICES ASSUME NEW c \in Copies, copy[c] # None
                 PROVE  \E p \in Platforms : Has(p) /\ art[p].file = c
      BY DEF NoOrphanCopies
    <3>1. PICK p \in Platforms : art[p].file = c
      BY <2>2 DEF Quiet, At, Keeps, ReleasesInv, Covered
    <3>2. c # None
      BY Constants DEF Copies
    <3> QED
      BY <3>1, <3>2 DEF ReleasesInv, RowsOK, RowOK
  <2> QED
    BY <2>1, <2>2 DEF ShippedVerifies
<1> QED
  BY <1>1, ReleasesInvHolds, PTL

\* Once a release is out no step writes its rows: each asks for a draft.
LEMMA OutStays == Out /\ [Next]_vars => Out' /\ UNCHANGED art
<1> SUFFICES ASSUME Out, [Next]_vars PROVE Out' /\ UNCHANGED art
  OBVIOUS
<1>1. ASSUME NEW w \in Workers, Request(w) PROVE Out' /\ UNCHANGED art
  BY <1>1 DEF Request, Out, FinalizeStarts, CopyUpload, HashCopy, RecordFile, UndoCopy, DropUpload,
     DropFiles, RemoveStarts, TakeRow, TakeDraft, DropUploads, PublishStarts, PickKey,
     ClearSignatures, SignArtifact, WriteSignature, PublishRelease
<1>2. CASE UNCHANGED vars
  BY <1>2 DEF vars, Out
<1> QED
  BY <1>1, <1>2 DEF Next, Out, CreateRelease, AddArtifact, Put, Yank, Unyank, ChangeType, GenerateKey,
     RotateKey, NextKey, DeactivateKey, Rest

\* What went out stays as it went out: bytes, digests and signatures.
THEOREM ServedIsFrozenHolds == Spec => ServedIsFrozen
<1>1. ReleasesInv /\ ReleasesInv' /\ [Next]_vars => (Out => Out' /\ UNCHANGED Served)
  <2> SUFFICES ASSUME ReleasesInv, ReleasesInv', [Next]_vars, Out PROVE Out' /\ UNCHANGED Served
    OBVIOUS
  <2>1. Out' /\ art' = art
    BY OutStays
  <2>2. Shipped' = Shipped
    BY <2>1 DEF Shipped, Has
  <2>3. \A p \in Shipped : ObjectOf(p, art[p]) = art[p].sha
    BY Behind
  <2>4. \A p \in Shipped' : ObjectOf(p, art[p])' = art'[p].sha
    <3>1. ReleasesInv' /\ Out' => \A p \in Shipped' : ObjectOf(p, art[p])' = art'[p].sha
      BY DEF ReleasesInv, Complete, RowsOK, RowOK, Shipped, Uploaded, ObjectOf, Legacy
    <3> QED
      BY <2>1, <3>1
  <2>5. \A p \in Shipped : ObjectOf(p, art[p])' = ObjectOf(p, art[p])
    BY <2>1, <2>2, <2>3, <2>4
  <2> QED
    BY <2>1, <2>2, <2>5 DEF Served
<1>2. ReleasesInv /\ ReleasesInv' /\ [Next]_vars => [Out => Out' /\ UNCHANGED Served]_vars
  BY <1>1
<1> QED
  BY <1>2, ReleasesInvHolds, PTL DEF Spec, ServedIsFrozen

-----------------------------------------------------------------------------
(***************************************************************************)
(* Feeds                                                                   *)
(*                                                                         *)
(* While a product is gated, nothing handed out before works for longer    *)
(* than is left of a link's life since the gate went up.                   *)
(***************************************************************************)

Draining == product.gated => product.gatedFor # Feeds!Never /\ (~late => usable + product.gatedFor <= LinkLife)
FeedsInv ==
  /\ Feeds!TypeOK /\ Draining
  /\ live \/ usable > 0 => shipped
  /\ Feeds!PeriodsAreEnforced

\* The life of a link is a number of ticks; Never is none of them.
LEMMA LinkTicks == LinkLife \in Nat /\ LinkLife > 0 /\ Feeds!Never \notin Nat
  BY DeliveryAssumption DEF Feeds!FeedsAssumption, Feeds!Never

\* What the invariant says of the types.
LEMMA FeedsFacts ==
  ASSUME Feeds!TypeOK
  PROVE  /\ product = [serves |-> product.serves, gated |-> product.gated, gatedFor |-> product.gatedFor]
         /\ product.serves \in BOOLEAN /\ product.gated \in BOOLEAN
         /\ product.gatedFor \in (0..LinkLife) \cup {Feeds!Never}
         /\ live \in BOOLEAN /\ shipped \in BOOLEAN /\ period \in BOOLEAN
         /\ late \in BOOLEAN /\ misjudged \in BOOLEAN
         /\ usable \in 0..LinkLife /\ usable \in Nat
         /\ \A a \in Workers : /\ admins[a] \in Feeds!AdminType
                               /\ admins[a].read.serves \in BOOLEAN /\ admins[a].read.gated \in BOOLEAN
<1>1. product \in Feeds!ProductType /\ usable \in 0..LinkLife
      /\ {live, shipped, period, late, misjudged} \subseteq BOOLEAN
      /\ admins \in [Workers -> Feeds!AdminType]
  BY DEF Feeds!TypeOK, Feeds!Ticks
<1>2. \A a \in Workers : /\ admins[a] \in Feeds!AdminType
                         /\ admins[a].read.serves \in BOOLEAN /\ admins[a].read.gated \in BOOLEAN
  BY <1>1 DEF Feeds!AdminType
<1>3. /\ live \in BOOLEAN /\ shipped \in BOOLEAN /\ period \in BOOLEAN
      /\ late \in BOOLEAN /\ misjudged \in BOOLEAN
  BY <1>1, Zenon
<1>4. usable \in Nat
  BY <1>1, LinkTicks
<1> QED
  BY <1>1, <1>2, <1>3, <1>4 DEF Feeds!ProductType, Feeds!Ticks

\* A product with public feeds, nothing published, and no periods.
LEMMA FeedsInit == Feeds!Init => FeedsInv
<1> SUFFICES ASSUME Feeds!Init PROVE FeedsInv
  OBVIOUS
<1>1. product.serves = TRUE /\ product.gated = FALSE /\ product.gatedFor = Feeds!Never
      /\ product \in Feeds!ProductType
  BY LinkTicks DEF Feeds!Init, Feeds!Fresh, Feeds!ProductType
<1>2. Feeds!Idle \in Feeds!AdminType
  BY DEF Feeds!Idle, Feeds!AdminType, Feeds!Shape, Feeds!Fresh
<1>3. usable = 0 /\ usable \in 0..LinkLife
  BY LinkTicks DEF Feeds!Init
<1>4. Feeds!TypeOK
  BY <1>1, <1>2, <1>3 DEF Feeds!Init, Feeds!TypeOK, Feeds!Ticks
<1> QED
  BY <1>1, <1>3, <1>4 DEF Feeds!Init, FeedsInv, Draining, Feeds!PeriodsAreEnforced, Feeds!Enforced

\* The transaction of an update.  What it makes of the product is gated where
\* it was gated or is gated just now; feeds that are public are refused where a
\* period exists, unless they were public; and feeds that come back gated were
\* judged on what the product is, or have waited out every link.
LEMMA WrittenProduct ==
  ASSUME FeedsInv, NEW a \in Workers, Feeds!UpdateWrites(a)
  PROVE  /\ product' \in Feeds!ProductType
         /\ product'.gated => \/ product.gated /\ product'.gatedFor = product.gatedFor
                              \/ product'.gatedFor = 0
         /\ product'.serves /\ ~product'.gated /\ period => product.serves /\ ~product.gated
         /\ ~misjudged' /\ ~late /\ product'.serves /\ product'.gated /\ period /\ ~product.serves => usable = 0
<1>f. /\ product = [serves |-> product.serves, gated |-> product.gated, gatedFor |-> product.gatedFor]
      /\ product.serves \in BOOLEAN /\ product.gated \in BOOLEAN
      /\ product.gatedFor \in (0..LinkLife) \cup {Feeds!Never}
      /\ admins[a].read.serves \in BOOLEAN /\ admins[a].read.gated \in BOOLEAN
  BY FeedsFacts DEF FeedsInv
<1> DEFINE up == IF Feeds!GatingNow(a) THEN Feeds!GateUp(product) ELSE product
           new == Feeds!Columns(a, up)
           type == admins[a].type
           gate == admins[a].gate
           waits(own) == Feeds!RestoringFeeds(a) /\ period /\ ~Feeds!Drained(up, own)
<1>1. PICK own \in 1..LinkLife :
        product' = IF Feeds!Target(a).serves # product.serves /\ type = "none" /\ live THEN product
                   ELSE IF waits(own) THEN up
                   ELSE IF Feeds!TriggerRefuses(up, new) THEN product
                   ELSE new
  BY DEF Feeds!UpdateWrites
<1>2. misjudged' = (misjudged \/ (~product.serves /\ product'.serves /\ product'.gated
                                  /\ admins[a].read # Feeds!Shape(product)))
  BY DEF Feeds!UpdateWrites
<1>3. \A row \in Feeds!ProductType :
        /\ Feeds!GateUp(row).serves = row.serves /\ Feeds!GateUp(row).gated = TRUE /\ Feeds!GateUp(row).gatedFor = 0
        /\ Feeds!GateUp(row) \in Feeds!ProductType
  <2> TAKE row \in Feeds!ProductType
  <2>1. 0 \in Feeds!Ticks
    BY LinkTicks DEF Feeds!Ticks
  <2>2. Feeds!GateUp(row) = [[row EXCEPT !.gated = TRUE] EXCEPT !.gatedFor = 0]
    BY DEF Feeds!GateUp
  <2> QED
    BY <2>1, <2>2 DEF Feeds!ProductType
<1>4. product \in Feeds!ProductType
  BY DEF FeedsInv, Feeds!TypeOK
<1>5. /\ up \in Feeds!ProductType /\ up.serves = product.serves
      /\ Feeds!GatingNow(a) => up.gated /\ up.gatedFor = 0
      /\ ~Feeds!GatingNow(a) => up = product
  BY <1>3, <1>4
<1>6. Feeds!Target(a).serves \in BOOLEAN /\ Feeds!Target(a).gated \in BOOLEAN
  BY <1>f DEF Feeds!Target
<1> DEFINE typed == IF type = Feeds!Keep THEN up ELSE [up EXCEPT !.serves = Feeds!Target(a).serves]
<1> HIDE DEF up
<1>7. typed \in Feeds!ProductType /\ typed.gated = up.gated /\ typed.gatedFor = up.gatedFor
      /\ typed.serves = IF type = Feeds!Keep THEN product.serves ELSE Feeds!Target(a).serves
  BY <1>5, <1>6 DEF Feeds!ProductType
<1>8. new = IF gate = Feeds!Keep \/ Feeds!GatingNow(a) THEN typed
            ELSE IF Feeds!Target(a).gated /\ ~up.gated THEN Feeds!GateUp(typed)
            ELSE [typed EXCEPT !.gated = Feeds!Target(a).gated]
  BY DEF Feeds!Columns
<1> HIDE DEF typed, new
<1>9. /\ new \in Feeds!ProductType /\ new.serves = typed.serves
      /\ new.gated => (up.gated /\ new.gatedFor = up.gatedFor) \/ new.gatedFor = 0
  <2>1. CASE gate = Feeds!Keep \/ Feeds!GatingNow(a)
    BY <1>7, <1>8, <2>1
  <2>2. CASE ~(gate = Feeds!Keep \/ Feeds!GatingNow(a)) /\ Feeds!Target(a).gated /\ ~up.gated
    BY <1>3, <1>7, <1>8, <2>2
  <2>3. CASE ~(gate = Feeds!Keep \/ Feeds!GatingNow(a)) /\ ~(Feeds!Target(a).gated /\ ~up.gated)
    <3>1. new = [typed EXCEPT !.gated = Feeds!Target(a).gated]
      BY <1>8, <2>3
    <3>2. /\ new \in Feeds!ProductType /\ new.serves = typed.serves
          /\ new.gated = Feeds!Target(a).gated /\ new.gatedFor = typed.gatedFor
      BY <1>6, <1>7, <3>1 DEF Feeds!ProductType
    <3> QED
      BY <1>6, <1>7, <2>3, <3>2
  <2> QED
    BY <2>1, <2>2, <2>3
<1>10. up.gated => (product.gated /\ up.gatedFor = product.gatedFor) \/ up.gatedFor = 0
  BY <1>5
<1>11. product' \in Feeds!ProductType
  BY <1>1, <1>4, <1>5, <1>9
<1>12. product'.gated => \/ product.gated /\ product'.gatedFor = product.gatedFor
                         \/ product'.gatedFor = 0
  BY <1>1, <1>9, <1>10
<1>13. product'.serves /\ ~product'.gated /\ period => product.serves /\ ~product.gated
  <2>1. up.serves /\ ~up.gated => product.serves /\ ~product.gated
    BY <1>5
  <2>2. ~Feeds!TriggerRefuses(up, new) /\ new.serves /\ ~new.gated /\ period => up.serves /\ ~up.gated
    BY DEF Feeds!TriggerRefuses
  <2> QED
    BY <1>1, <2>1, <2>2
<1>14. ASSUME ~misjudged', ~late, product'.serves, product'.gated, period, ~product.serves PROVE usable = 0
  <2>1. admins[a].read = Feeds!Shape(product)
    BY <1>2, <1>14
  <2>2. admins[a].read.serves = product.serves /\ admins[a].read.gated = product.gated
    BY <2>1 DEF Feeds!Shape
  <2>3. product' = new /\ ~waits(own)
    BY <1>1, <1>5, <1>14
  <2>4. typed.serves /\ type # Feeds!Keep /\ Feeds!Target(a).serves
    BY <1>7, <1>9, <1>14, <2>3
  <2>5. Feeds!Target(a).gated = IF gate = Feeds!Keep THEN product.gated ELSE gate = "on"
    BY <2>2 DEF Feeds!Target
  <2>6. Feeds!GatingNow(a) <=> gate = "on" /\ ~product.gated
    BY <2>2 DEF Feeds!GatingNow
  <2>7. Feeds!Target(a).gated /\ up.gated
    <3>1. CASE gate = Feeds!Keep
      BY <1>5, <1>7, <1>8, <1>14, <2>3, <2>5, <2>6, <3>1 DEF Feeds!Keep
    <3>2. CASE gate = "on"
      BY <1>5, <2>5, <2>6, <3>2 DEF Feeds!Keep
    <3>3. CASE gate # Feeds!Keep /\ gate # "on"
      <4>1. ~Feeds!Target(a).gated /\ ~Feeds!GatingNow(a)
        BY <2>5, <2>6, <3>3
      <4>2. new = [typed EXCEPT !.gated = Feeds!Target(a).gated]
        BY <1>8, <3>3, <4>1
      <4>3. ~new.gated
        BY <1>7, <4>1, <4>2 DEF Feeds!ProductType
      <4> QED
        BY <1>14, <2>3, <4>3
    <3> QED
      BY <3>1, <3>2, <3>3
  <2>8. Feeds!RestoringFeeds(a)
    BY <1>14, <2>2, <2>4, <2>7 DEF Feeds!RestoringFeeds
  <2>9. Feeds!Drained(up, own)
    BY <1>14, <2>3, <2>8
  <2>10. up.gatedFor = Feeds!Never \/ ~shipped \/ up.gatedFor >= LinkLife
    <3>1. Feeds!Drain(own) >= LinkLife
      BY <1>1, LinkTicks DEF Feeds!Drain
    <3>2. Feeds!Drain(own) \in Nat
      BY <1>1, LinkTicks DEF Feeds!Drain
    <3>3. up.gatedFor = Feeds!Never \/ up.gatedFor \in Nat
      BY <1>5, LinkTicks DEF Feeds!ProductType, Feeds!Ticks
    <3> QED
      BY <2>9, <3>1, <3>2, <3>3, LinkTicks DEF Feeds!Drained
  <2>11. usable \in Nat
    BY FeedsFacts DEF FeedsInv
  <2>12. CASE ~shipped
    BY <2>11, <2>12 DEF FeedsInv
  <2>13. CASE Feeds!GatingNow(a)
    BY <1>5, <2>10, <2>12, <2>13, LinkTicks
  <2>14. CASE ~Feeds!GatingNow(a) /\ shipped
    <3>1. product.gated /\ product.gatedFor = up.gatedFor
      BY <1>5, <2>7, <2>14
    <3>2. product.gatedFor # Feeds!Never /\ usable + product.gatedFor <= LinkLife
      BY <1>14, <3>1 DEF FeedsInv, Draining
    <3>3. product.gatedFor \in Nat
      BY <1>f, <3>2, LinkTicks
    <3> QED
      BY <2>10, <2>11, <2>14, <3>1, <3>2, <3>3, LinkTicks
  <2> QED
    BY <2>12, <2>13, <2>14
<1> QED
  BY <1>11, <1>12, <1>13, <1>14

\* Every step keeps it: a link is handed out by a public feed, or counts as
\* late; a gate that goes up starts the wait anew; and a period is set where
\* no feeds are, or once the links are out of use.
LEMMA FeedsStep == FeedsInv /\ Feeds!Next => FeedsInv'
<1> SUFFICES ASSUME FeedsInv, Feeds!Next PROVE FeedsInv'
  OBVIOUS
<1> USE DEF Feeds!PeriodsAreEnforced, Feeds!Enforced
<1>f. /\ product \in Feeds!ProductType /\ product.serves \in BOOLEAN /\ product.gated \in BOOLEAN
      /\ product.gatedFor = Feeds!Never \/ product.gatedFor \in Nat
      /\ live \in BOOLEAN /\ shipped \in BOOLEAN /\ period \in BOOLEAN
      /\ late \in BOOLEAN /\ misjudged \in BOOLEAN
      /\ request \in {"none", "read"} /\ usable \in 0..LinkLife /\ usable \in Nat
      /\ admins \in [Workers -> Feeds!AdminType]
  BY FeedsFacts, LinkTicks DEF FeedsInv, Feeds!TypeOK
\* The types, from those of what a step changes.
<1>t. ASSUME product' \in Feeds!ProductType, live' \in BOOLEAN, shipped' \in BOOLEAN, period' \in BOOLEAN,
             late' \in BOOLEAN, misjudged' \in BOOLEAN, request' \in {"none", "read"},
             usable' \in 0..LinkLife, admins' \in [Workers -> Feeds!AdminType]
      PROVE  Feeds!TypeOK'
  BY <1>t DEF Feeds!TypeOK, Feeds!Ticks
<1>1. CASE Feeds!Tick
  <2>1. /\ product' = Feeds!Aged(product) /\ usable' = IF usable = 0 THEN 0 ELSE usable - 1
        /\ UNCHANGED <<live, shipped, period, request, admins, late, misjudged>>
    BY <1>1 DEF Feeds!Tick
  <2>2. usable' \in 0..LinkLife /\ usable' \in Nat /\ usable' <= usable /\ (usable > 0 => usable' = usable - 1)
    BY <1>f, <2>1, LinkTicks
  <2>3. CASE product.gatedFor \in {Feeds!Never, LinkLife}
    <3>1. product' = product
      BY <2>1, <2>3 DEF Feeds!Aged
    <3>2. Feeds!TypeOK'
      BY <1>f, <1>t, <2>1, <2>2, <3>1
    <3>3. Draining'
      BY <1>f, <2>1, <2>2, <3>1, LinkTicks DEF FeedsInv, Draining
    <3> QED
      BY <1>f, <2>1, <2>2, <3>1, <3>2, <3>3, LinkTicks DEF FeedsInv
  <2>4. CASE product.gatedFor \notin {Feeds!Never, LinkLife}
    <3>1. product' = [product EXCEPT !.gatedFor = product.gatedFor + 1]
      BY <2>1, <2>4 DEF Feeds!Aged
    <3>2. product.gatedFor \in 0..LinkLife
      BY <2>4, FeedsFacts DEF FeedsInv
    <3>3. product.gatedFor + 1 \in 0..LinkLife
      BY <2>4, <3>2, LinkTicks
    <3>4. /\ product' \in Feeds!ProductType /\ product'.serves = product.serves /\ product'.gated = product.gated
          /\ product'.gatedFor = product.gatedFor + 1
      BY <1>f, <3>1, <3>3 DEF Feeds!ProductType, Feeds!Ticks
    <3>5. Feeds!TypeOK'
      BY <1>f, <1>t, <2>1, <2>2, <3>4
    <3>6. Draining'
      BY <1>f, <2>1, <2>2, <3>2, <3>3, <3>4, LinkTicks DEF FeedsInv, Draining
    <3> QED
      BY <1>f, <2>1, <2>2, <3>4, <3>5, <3>6, LinkTicks DEF FeedsInv
  <2> QED
    BY <2>3, <2>4
<1>2. CASE Feeds!Releases
  <2>1. live' \in BOOLEAN /\ shipped' \in BOOLEAN /\ (shipped => shipped') /\ (live' => shipped')
        /\ UNCHANGED <<product, period, request, usable, admins, late, misjudged>>
    BY <1>2, <1>f DEF Feeds!Releases
  <2>2. Feeds!TypeOK'
    BY <1>f, <1>t, <2>1
  <2> QED
    BY <2>1, <2>2 DEF FeedsInv, Draining
<1>3. CASE Feeds!FeedRead
  <2>1. request' = "read" /\ UNCHANGED <<product, live, shipped, period, usable, admins, late, misjudged>>
    BY <1>3 DEF Feeds!FeedRead
  <2>2. Feeds!TypeOK'
    BY <1>f, <1>t, <2>1
  <2> QED
    BY <2>1, <2>2 DEF FeedsInv, Draining
<1>4. CASE Feeds!FeedSign
  <2>1. request' = "none" /\ UNCHANGED <<product, live, shipped, period, admins, misjudged>>
    BY <1>4 DEF Feeds!FeedSign
  <2>2. PICK life \in 1..LinkLife : usable' = IF live /\ life > usable THEN life ELSE usable
    BY <1>4 DEF Feeds!FeedSign
  <2>3. late' = (late \/ (live /\ (product.gated \/ ~product.serves)))
    BY <1>4 DEF Feeds!FeedSign
  <2>4. usable' \in 0..LinkLife /\ usable' \in Nat /\ (~live => usable' = usable)
    BY <1>f, <2>2, LinkTicks
  <2>5. Feeds!TypeOK'
    BY <1>f, <1>t, <2>1, <2>3, <2>4
  <2>6. ~late' => ~late /\ (usable' = usable \/ (product.serves /\ ~product.gated))
    BY <1>f, <2>3, <2>4
  <2>7. Draining'
    BY <2>1, <2>6 DEF FeedsInv, Draining
  <2>8. live' \/ usable' > 0 => shipped'
    BY <1>f, <2>1, <2>4 DEF FeedsInv
  <2>9. Feeds!PeriodsAreEnforced'
    BY <2>1, <2>6 DEF FeedsInv
  <2> QED
    BY <2>5, <2>7, <2>8, <2>9 DEF FeedsInv
<1>5. CASE Feeds!SetPeriod
  <2>1. period' = TRUE /\ UNCHANGED <<product, live, shipped, request, usable, admins, late, misjudged>>
    BY <1>5 DEF Feeds!SetPeriod
  <2>2. PICK own \in 1..LinkLife : Feeds!Enforceable(own)
    BY <1>5 DEF Feeds!SetPeriod
  <2>3. Feeds!Drain(own) \in Nat /\ Feeds!Drain(own) >= LinkLife
    BY LinkTicks DEF Feeds!Drain
  <2>4. Feeds!TypeOK'
    BY <1>f, <1>t, <2>1
  <2>5. ASSUME ~late, product.serves PROVE product.gated /\ usable = 0
    <3>1. product.gated /\ (product.gatedFor = Feeds!Never \/ ~shipped \/ product.gatedFor >= Feeds!Drain(own))
      BY <2>2, <2>5 DEF Feeds!Enforceable, Feeds!Drained
    <3>2. product.gatedFor # Feeds!Never /\ usable + product.gatedFor <= LinkLife /\ product.gatedFor \in Nat
      BY <1>f, <2>5, <3>1 DEF FeedsInv, Draining
    <3>3. ~shipped => usable = 0
      BY <1>f DEF FeedsInv
    <3> QED
      BY <1>f, <2>3, <3>1, <3>2, <3>3, LinkTicks
  <2> QED
    BY <2>1, <2>4, <2>5 DEF FeedsInv, Draining
<1>6. CASE Feeds!EndPeriods
  <2>1. period' = FALSE /\ UNCHANGED <<product, live, shipped, request, usable, admins, late, misjudged>>
    BY <1>6 DEF Feeds!EndPeriods
  <2>2. Feeds!TypeOK'
    BY <1>f, <1>t, <2>1
  <2> QED
    BY <2>1, <2>2 DEF FeedsInv, Draining
<1>7. ASSUME NEW a \in Workers, Feeds!UpdateStarts(a) PROVE FeedsInv'
  <2>1. UNCHANGED <<product, live, shipped, period, request, usable, late, misjudged>>
    BY <1>7 DEF Feeds!UpdateStarts
  <2>2. PICK type \in {Feeds!Keep, "serves", "none"}, gate \in {Feeds!Keep, "on", "off"} :
          admins' = [admins EXCEPT ![a] = [pc |-> "write", read |-> Feeds!Shape(product), type |-> type, gate |-> gate]]
    BY <1>7 DEF Feeds!UpdateStarts
  <2>3. [pc |-> "write", read |-> Feeds!Shape(product), type |-> type, gate |-> gate] \in Feeds!AdminType
    BY <1>f DEF Feeds!AdminType, Feeds!Shape
  <2>4. admins' \in [Workers -> Feeds!AdminType]
    BY <1>f, <2>2, <2>3
  <2>5. Feeds!TypeOK'
    BY <1>f, <1>t, <2>1, <2>4
  <2> QED
    BY <2>1, <2>5 DEF FeedsInv, Draining
<1>8. ASSUME NEW a \in Workers, Feeds!UpdateWrites(a) PROVE FeedsInv'
  <2>1. /\ admins' = [admins EXCEPT ![a] = Feeds!Idle] /\ UNCHANGED <<live, shipped, period, request, usable, late>>
        /\ misjudged' = (misjudged \/ (~product.serves /\ product'.serves /\ product'.gated
                                       /\ admins[a].read # Feeds!Shape(product)))
    BY <1>8 DEF Feeds!UpdateWrites
  <2>2. Feeds!Idle \in Feeds!AdminType
    BY DEF Feeds!Idle, Feeds!AdminType, Feeds!Shape, Feeds!Fresh
  <2>3. admins' \in [Workers -> Feeds!AdminType]
    BY <1>f, <2>1, <2>2
  <2>4. /\ product' \in Feeds!ProductType
        /\ product'.gated => \/ product.gated /\ product'.gatedFor = product.gatedFor
                             \/ product'.gatedFor = 0
        /\ product'.serves /\ ~product'.gated /\ period => product.serves /\ ~product.gated
        /\ ~misjudged' /\ ~late /\ product'.serves /\ product'.gated /\ period /\ ~product.serves => usable = 0
    BY <1>8, WrittenProduct
  <2>5. Feeds!TypeOK'
    BY <1>f, <1>t, <2>1, <2>3, <2>4
  <2>6. Draining'
    BY <1>f, <2>1, <2>4, LinkTicks DEF FeedsInv, Draining
  <2>7. Feeds!PeriodsAreEnforced'
    <3> SUFFICES ASSUME ~late, ~misjudged', product'.serves, period PROVE product'.gated /\ usable = 0
      BY <2>1
    <3>1. ~misjudged
      BY <2>1
    <3>2. product.serves => product.gated /\ usable = 0
      BY <3>1 DEF FeedsInv
    <3>3. product'.gated
      BY <2>4, <3>2
    <3> QED
      BY <2>4, <3>2, <3>3
  <2> QED
    BY <2>1, <2>5, <2>6, <2>7 DEF FeedsInv
<1> QED
  BY <1>1, <1>2, <1>3, <1>4, <1>5, <1>6, <1>7, <1>8 DEF Feeds!Next

\* The releases of the product are another part.
LEMMA FeedsStill == FeedsInv /\ UNCHANGED feedVars => FeedsInv'
  BY DEF FeedsInv, feedVars, Feeds!TypeOK, Draining, Feeds!PeriodsAreEnforced, Feeds!Enforced

\* Where a product with feeds sells update periods, no copy of a public feed
\* and no link from one can get round them, for any number of administrators
\* and any life of a link (feedGateCheck, FeedsCanEnforcePeriodsIn and the
\* trigger products_keep_feed_gated).
THEOREM PeriodsAreEnforcedHolds == Delivery => []PeriodsAreEnforced
<1>1. DeliveryInit => FeedsInv
  BY FeedsInit DEF DeliveryInit
<1>2. FeedsInv /\ [DeliveryNext]_<<part, vars, feedVars>> => FeedsInv'
  BY FeedsStep, FeedsStill DEF DeliveryNext, ReleasesNext, FeedsNext
<1>3. FeedsInv => PeriodsAreEnforced
  BY DEF FeedsInv, PeriodsAreEnforced
<1> QED
  BY <1>1, <1>2, <1>3, PTL DEF Delivery
=============================================================================
