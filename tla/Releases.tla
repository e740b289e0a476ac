------------------------------ MODULE Releases ------------------------------
(***************************************************************************)
(* One release of a product: its artifacts, the objects behind them, the   *)
(* keys that sign them, and the way from draft to published                *)
(* (internal/service/release.go, release_signing.go, internal/store/       *)
(* release.go, release_signing.go, product_shape.go, internal/storage).    *)
(*                                                                         *)
(* An artifact's upload goes by a presigned URL straight to the object     *)
(* store, and the URL works for its whole lifetime.  Finalizing copies the *)
(* upload to a key of its own, hashes the copy and records it; publishing  *)
(* signs what it read of the draft, then takes the release live.  Each     *)
(* call to the store and each transaction is a step, and requests run      *)
(* beside each other.  Each upload has bytes of its own: a number stands   *)
(* for the bytes, for their sha256 and for what a signature covers.        *)
(***************************************************************************)
EXTENDS Integers, FiniteSets

CONSTANTS
  Platforms,      \* platforms an artifact can be for
  Workers,        \* admin requests at once
  MaxUploads,     \* bound: uploads
  MaxCopies,      \* bound: served copies made
  MaxReleases,    \* bound: releases of this version made
  MaxArtifacts,   \* bound: artifact rows made
  MaxKeys         \* bound: signing keys made

ASSUME ReleasesAssumption ==
  /\ IsFiniteSet(Platforms) /\ IsFiniteSet(Workers)
  /\ {MaxUploads, MaxCopies, MaxReleases, MaxArtifacts, MaxKeys} \subseteq Nat

VARIABLES
  rel,        \* the release's status; "none": no such release
  art,        \* its artifact rows, by platform
  upload,     \* the object at each platform's upload key
  copy,       \* the objects at the served keys
  urls,       \* platforms for which a presigned PUT URL still works
  active,     \* the product's active signing key
  require,    \* the product's RequireSigning
  sells,      \* the product's type has releases
  workers,    \* what each request is doing
  made        \* how many releases, uploads, copies, rows and keys were made

vars == <<rel, art, upload, copy, urls, active, require, sells, workers, made>>

None == 0                         \* no bytes, no key, no row, the upload key
Bytes == 0..MaxUploads
Copies == 1..MaxCopies
Nowhere == "nowhere"
\* file: None is the platform's upload key, else a served copy.
ArtType == [id : 0..MaxArtifacts, file : 0..MaxCopies, sha : Bytes, sig : Bytes, by : 0..MaxKeys]
NoArt == [id |-> None, file |-> None, sha |-> None, sig |-> None, by |-> None]
Jobs == {"finalize", "remove", "discard", "publish"}
WorkerPcs == {"idle", "copy", "hash", "record", "undo", "dropUpload", "drop", "take", "dropUploads",
              "key", "clear", "sign", "write", "gate"}
WorkerType ==
  [pc : WorkerPcs, job : Jobs, of : 0..MaxReleases, on : Platforms \cup {Nowhere},
   snap : [Platforms -> ArtType], new : 0..MaxCopies, sha : Bytes,
   todo : SUBSET Platforms, dead : SUBSET Copies, key : 0..MaxKeys]

Idle == [pc |-> "idle", job |-> "publish", of |-> None, on |-> Nowhere,
         snap |-> [p \in Platforms |-> NoArt], new |-> None, sha |-> None, todo |-> {}, dead |-> {},
         key |-> None]

MadeType == [releases : 0..MaxReleases, uploads : Bytes, copies : 0..MaxCopies,
             rows : 0..MaxArtifacts, keys : 0..MaxKeys]

TypeOK ==
  /\ rel \in {"none", "draft", "published", "yanked"}
  /\ art \in [Platforms -> ArtType]
  /\ upload \in [Platforms -> Bytes] /\ copy \in [Copies -> Bytes]
  /\ urls \subseteq Platforms
  /\ active \in 0..MaxKeys
  /\ require \in BOOLEAN /\ sells \in BOOLEAN
  /\ workers \in [Workers -> WorkerType]
  /\ made \in MadeType

Has(p) == art[p].id # None
Uploaded(a) == a.sha # None
\* The object an artifact's file key names.
ObjectOf(p, a) == IF a.file = None THEN upload[p] ELSE copy[a.file]
Exists(p, a) == ObjectOf(p, a) # None
\* The objects without some; to delete one that is gone is no error.
Without(objects, keys) == [k \in DOMAIN objects |-> IF k \in keys THEN None ELSE objects[k]]

\* A release from before served copies is served from its upload key; its
\* URLs have run out.
Init ==
  /\ require \in BOOLEAN /\ sells = TRUE
  /\ \/ rel = "none" /\ art = [p \in Platforms |-> NoArt]
        /\ upload = [p \in Platforms |-> None]
        /\ made = [releases |-> 0, uploads |-> 0, copies |-> 0, rows |-> 0, keys |-> 0]
     \/ MaxReleases > 0 /\ MaxUploads > 0 /\ MaxArtifacts > 0 /\ ~require
        /\ \E old \in Platforms :
             /\ rel \in {"draft", "published"}
             /\ art = [p \in Platforms |-> IF p = old
                        THEN [NoArt EXCEPT !.id = 1, !.sha = 1] ELSE NoArt]
             /\ upload = [p \in Platforms |-> IF p = old THEN 1 ELSE None]
        /\ made = [releases |-> 1, uploads |-> 1, copies |-> 0, rows |-> 1, keys |-> 0]
  /\ copy = [c \in Copies |-> None]
  /\ urls = {}
  /\ active = None
  /\ workers = [w \in Workers |-> Idle]

-----------------------------------------------------------------------------
(* The draft, its rows and its uploads. *)

\* CreateRelease: while the product's type has releases.
CreateRelease ==
  /\ rel = "none" /\ sells
  /\ made.releases < MaxReleases
  /\ made' = [made EXCEPT !.releases = @ + 1]
  /\ rel' = "draft"
  /\ UNCHANGED <<art, upload, copy, urls, active, require, sells, workers>>

\* AddArtifact: the row, then the URL for the platform's upload key.  The
\* row of a URL that cannot be made is taken back.
AddArtifact(p) ==
  /\ rel = "draft" /\ ~Has(p)
  /\ made.rows < MaxArtifacts
  /\ art' = [art EXCEPT ![p] = [NoArt EXCEPT !.id = made.rows + 1]]
  /\ made' = [made EXCEPT !.rows = @ + 1]
  /\ urls' = urls \cup {p}
  /\ UNCHANGED <<rel, upload, copy, active, require, sells, workers>>

\* Whoever holds the URL puts bytes at the upload key, whatever became of
\* the artifact, for as long as the URL works.
Put(p) ==
  /\ p \in urls
  /\ made.uploads < MaxUploads
  /\ made' = [made EXCEPT !.uploads = @ + 1]
  /\ upload' = [upload EXCEPT ![p] = made.uploads + 1]
  /\ UNCHANGED <<rel, art, copy, urls, active, require, sells, workers>>

-----------------------------------------------------------------------------
(* FinalizeArtifact. *)

At(w, pc) == workers[w].pc = pc
Goes(w, pc) == workers' = [workers EXCEPT ![w].pc = pc]
Done(w) == workers' = [workers EXCEPT ![w] = Idle]
\* What a request remembers of the rows it read: of one, of each.
Noted(p) == [NoArt EXCEPT !.id = art[p].id, !.file = art[p].file]
Row(p) == [q \in Platforms |-> IF q = p THEN Noted(p) ELSE NoArt]
Rows == [p \in Platforms |-> [Noted(p) EXCEPT !.sha = art[p].sha]]
Artifact(w) == workers[w].snap[workers[w].on]
Objects == <<upload, copy>>
Product == <<active, require, sells>>

\* The artifact and its release are read, in any state.
FinalizeStarts(w) ==
  /\ At(w, "idle")
  /\ \E p \in Platforms :
       /\ Has(p)
       /\ workers' = [workers EXCEPT ![w] =
            [Idle EXCEPT !.pc = "copy", !.job = "finalize", !.on = p, !.snap = Row(p)]]
  /\ UNCHANGED <<rel, art, Objects, urls, Product, made>>

\* MUTANT: the upload itself is served, as before there were copies.
CopyUpload_Serves(w) ==
  /\ At(w, "copy")
  /\ workers' = [workers EXCEPT ![w].pc = "hash"]
  /\ UNCHANGED <<rel, art, Objects, urls, Product, made>>

\* With no upload there is nothing to do: it is incomplete, or this is a
\* retry and the artifact is answered as it is.
CopyUpload(w) ==
  LET p == workers[w].on IN
  /\ At(w, "copy")
  /\ \/ /\ upload[p] = None
        /\ Done(w)
        /\ UNCHANGED <<Objects, made>>
     \/ /\ upload[p] # None
        /\ made.copies < MaxCopies
        /\ made' = [made EXCEPT !.copies = @ + 1]
        /\ copy' = [copy EXCEPT ![made.copies + 1] = upload[p]]
        /\ workers' = [workers EXCEPT ![w].pc = "hash", ![w].new = made.copies + 1]
        /\ UNCHANGED upload
  /\ UNCHANGED <<rel, art, urls, Product>>

\* Of the copy, not of the upload.
DigestOf(w) == ObjectOf(workers[w].on, [NoArt EXCEPT !.file = workers[w].new])

\* The digest is the server's own; a client that expected
\* another is refused.
HashCopy(w) ==
  /\ At(w, "hash")
  /\ \/ workers' = [workers EXCEPT ![w].pc = "record", ![w].sha = DigestOf(w)]
     \/ workers' = [workers EXCEPT ![w] = [Idle EXCEPT !.pc = "undo", !.new = workers[w].new]]
  /\ UNCHANGED <<rel, art, Objects, urls, Product, made>>

\* The file key removed once the new one is recorded.
Replaced(w) == art[workers[w].on].file

\* ReplaceArtifactFile, under the release's row lock.
RecordFile(w) ==
  LET p == workers[w].on IN
  /\ At(w, "record")
  /\ \/ /\ art[p].id = Artifact(w).id /\ rel = "draft"
        /\ art' = [art EXCEPT ![p] = [NoArt EXCEPT !.id = Artifact(w).id, !.file = workers[w].new,
                                                   !.sha = workers[w].sha]]
        /\ workers' = [workers EXCEPT ![w] =
             [Idle EXCEPT !.pc = "dropUpload", !.job = "finalize", !.on = p,
                          !.dead = {Replaced(w)} \ {None, workers[w].new}]]
     \/ /\ art[p].id # Artifact(w).id \/ rel # "draft"
        /\ workers' = [workers EXCEPT ![w] = [Idle EXCEPT !.pc = "undo", !.new = workers[w].new,
             \* The release went out: a later upload of the artifact goes too,
             \* unless it is what the release serves.
             !.todo = IF art[p].id = Artifact(w).id /\ Artifact(w).file # None THEN {p} ELSE {}]]
        /\ UNCHANGED art
  /\ UNCHANGED <<rel, Objects, urls, Product, made>>

\* What is not recorded is removed again.
UndoCopy(w) ==
  /\ At(w, "undo")
  /\ copy' = Without(copy, {workers[w].new})
  /\ upload' = Without(upload, workers[w].todo)
  /\ Done(w)
  /\ UNCHANGED <<rel, art, urls, Product, made>>

\* The upload is copied, and the copy it replaced is referenced no more.
DropUpload(w) ==
  /\ At(w, "dropUpload")
  /\ upload' = Without(upload, {workers[w].on})
  /\ Goes(w, "drop")
  /\ UNCHANGED <<rel, art, copy, urls, Product, made>>

\* A deletion goes on to the uploads.
DropFiles(w) ==
  /\ At(w, "drop")
  /\ copy' = Without(copy, workers[w].dead)
  /\ IF workers[w].job = "finalize" THEN Done(w) ELSE Goes(w, "dropUploads")
  /\ UNCHANGED <<rel, art, upload, urls, Product, made>>

-----------------------------------------------------------------------------
(* DeleteArtifact and DeleteDraft. *)

\* What is read first, for the uploads to remove.
RemoveStarts(w) ==
  /\ At(w, "idle")
  /\ rel # "none"
  /\ \/ \E p \in Platforms :
          /\ Has(p)
          /\ workers' = [workers EXCEPT ![w] =
               [Idle EXCEPT !.pc = "take", !.job = "remove", !.on = p, !.snap = Row(p)]]
     \/ workers' = [workers EXCEPT ![w] =
          [Idle EXCEPT !.pc = "take", !.job = "discard", !.of = made.releases, !.snap = Rows]]
  /\ UNCHANGED <<rel, art, Objects, urls, Product, made>>

\* The rows go, under the release's row lock, only of a draft.
TakeRow(w) ==
  LET p == workers[w].on IN
  /\ At(w, "take") /\ workers[w].job = "remove"
  /\ \/ /\ art[p].id = Artifact(w).id /\ rel = "draft"
        /\ art' = [art EXCEPT ![p] = NoArt]
        /\ workers' = [workers EXCEPT ![w] =
             [Idle EXCEPT !.pc = "drop", !.dead = {art[p].file} \ {None}, !.todo = {p}]]
     \/ /\ art[p].id # Artifact(w).id \/ rel # "draft"
        /\ Done(w)
        /\ UNCHANGED art
  /\ UNCHANGED <<rel, Objects, urls, Product, made>>

TakeDraft(w) ==
  /\ At(w, "take") /\ workers[w].job = "discard"
  /\ \/ /\ workers[w].of = made.releases /\ rel = "draft"
        /\ rel' = "none"
        /\ art' = [p \in Platforms |-> NoArt]
        /\ workers' = [workers EXCEPT ![w] =
             [Idle EXCEPT !.pc = "drop", !.dead = {art[p].file : p \in Platforms} \ {None},
                          !.todo = {p \in Platforms : \/ workers[w].snap[p].file # None
                                                      \/ Has(p) /\ art[p].file = None}]]
     \/ /\ workers[w].of # made.releases \/ rel # "draft"
        /\ Done(w)
        /\ UNCHANGED <<rel, art>>
  /\ UNCHANGED <<Objects, urls, Product, made>>

DropUploads(w) ==
  /\ At(w, "dropUploads")
  /\ upload' = Without(upload, workers[w].todo)
  /\ Done(w)
  /\ UNCHANGED <<rel, art, copy, urls, Product, made>>

-----------------------------------------------------------------------------
(* Publish. *)

\* The draft as it is read: it has artifacts, all of them uploaded.
PublishStarts(w) ==
  /\ At(w, "idle")
  /\ rel = "draft"
  /\ \E p \in Platforms : Has(p)
  /\ \A p \in Platforms : Has(p) => Uploaded(art[p])
  /\ workers' = [workers EXCEPT ![w] =
       [Idle EXCEPT !.pc = "key", !.of = made.releases, !.snap = Rows]]
  /\ UNCHANGED <<rel, art, Objects, urls, Product, made>>

\* The artifacts a publish read.
Read(w) == {p \in Platforms : workers[w].snap[p].id # None}
Present(w) == \A p \in Read(w) : Exists(p, workers[w].snap[p])

\* Every object is still there; the active key is looked up once.  With
\* none, the product decides whether it ships unsigned.
PickKey(w) ==
  /\ At(w, "key")
  /\ \/ /\ Present(w)
        /\ active # None
        /\ workers' = [workers EXCEPT ![w].pc = "sign", ![w].key = active, ![w].todo = Read(w)]
     \/ /\ Present(w)
        /\ active = None /\ ~require
        /\ workers' = [workers EXCEPT ![w] = [Idle EXCEPT !.pc = "clear", !.of = workers[w].of]]
     \/ /\ ~Present(w) \/ (active = None /\ require)
        /\ Done(w)
  /\ UNCHANGED <<rel, art, Objects, urls, Product, made>>

\* ClearReleaseSignatures: what an earlier attempt signed.
ClearSignatures(w) ==
  /\ At(w, "clear")
  /\ \/ /\ workers[w].of = made.releases /\ rel = "draft"
        /\ art' = [p \in Platforms |-> [art[p] EXCEPT !.sig = None, !.by = None]]
        /\ workers' = [workers EXCEPT ![w] = [Idle EXCEPT !.pc = "gate", !.of = workers[w].of]]
     \/ /\ workers[w].of # made.releases \/ rel # "draft"
        /\ Done(w)
        /\ UNCHANGED art
  /\ UNCHANGED <<rel, Objects, urls, Product, made>>

\* SignArtifactWith: the bytes must still hash to what was recorded.
SignArtifact(w) ==
  /\ At(w, "sign")
  /\ \E p \in workers[w].todo :
       IF ObjectOf(p, workers[w].snap[p]) = workers[w].snap[p].sha
       THEN workers' = [workers EXCEPT ![w].pc = "write", ![w].on = p]
       ELSE Done(w)
  /\ UNCHANGED <<rel, art, Objects, urls, Product, made>>

\* MUTANT: UpdateArtifactSignature, whatever the artifact points at.
SameFile_Row(w) == art[workers[w].on].id = Artifact(w).id

\* The row a signature is for: still the one that was read, with its file.
SameFile(w) ==
  LET now == art[workers[w].on] IN
  /\ now.id = Artifact(w).id /\ now.file = Artifact(w).file /\ now.sha = Artifact(w).sha

\* UpdateArtifactSignatureOf, under the release's row lock.
WriteSignature(w) ==
  LET p == workers[w].on IN
  /\ At(w, "write")
  /\ \/ /\ SameFile(w) /\ rel = "draft"
        /\ art' = [art EXCEPT ![p].sig = Artifact(w).sha, ![p].by = workers[w].key]
        /\ workers' = [workers EXCEPT ![w] =
             IF workers[w].todo = {p}
             THEN [Idle EXCEPT !.pc = "gate", !.of = workers[w].of, !.key = workers[w].key]
             ELSE [workers[w] EXCEPT !.pc = "sign", !.on = Nowhere, !.todo = workers[w].todo \ {p}]]
     \/ /\ ~SameFile(w) \/ rel # "draft"
        /\ Done(w)
        /\ UNCHANGED art
  /\ UNCHANGED <<rel, Objects, urls, Product, made>>

\* What PublishRelease asks of the artifacts as they are now, with a key
\* or without.
Ready(key) ==
  /\ \E p \in Platforms : Has(p)
  /\ \A p \in Platforms : Has(p) => Uploaded(art[p])
  /\ key # None => /\ active = key
                   /\ \A p \in Platforms : Has(p) => art[p].sig # None /\ art[p].by = key

\* PublishRelease: the release's row is locked, then the key's.
PublishRelease(w) ==
  /\ At(w, "gate")
  /\ rel' = IF workers[w].of = made.releases /\ rel = "draft" /\ Ready(workers[w].key)
            THEN "published" ELSE rel
  /\ Done(w)
  /\ UNCHANGED <<art, Objects, urls, Product, made>>

-----------------------------------------------------------------------------
(* Withdrawing and restoring, the product's type, the keys. *)

Rest == <<art, Objects, urls, workers>>

Yank ==
  /\ rel = "published"
  /\ rel' = "yanked"
  /\ UNCHANGED <<Rest, Product, made>>

\* UnyankRelease and the type change hold the product's shape lock.
Unyank ==
  /\ rel = "yanked" /\ sells
  /\ rel' = "published"
  /\ UNCHANGED <<Rest, Product, made>>

\* The type changes to one without releases only while none is live.
ChangeType ==
  /\ sells => rel \notin {"draft", "published"}
  /\ sells' = ~sells
  /\ UNCHANGED <<Rest, rel, active, require, made>>

NextKey ==
  /\ made.keys < MaxKeys
  /\ made' = [made EXCEPT !.keys = @ + 1]
  /\ active' = made.keys + 1
  /\ UNCHANGED <<Rest, rel, require, sells>>

\* At most one key of a product is active.
GenerateKey == active = None /\ NextKey

\* Retires the active key, if there is one, in the same transaction.
RotateKey == NextKey

DeactivateKey ==
  /\ active # None
  /\ active' = None
  /\ UNCHANGED <<Rest, rel, require, sells, made>>

Request(w) ==
  \/ FinalizeStarts(w) \/ CopyUpload(w) \/ HashCopy(w) \/ RecordFile(w) \/ UndoCopy(w)
  \/ DropUpload(w) \/ DropFiles(w)
  \/ RemoveStarts(w) \/ TakeRow(w) \/ TakeDraft(w) \/ DropUploads(w)
  \/ PublishStarts(w) \/ PickKey(w) \/ ClearSignatures(w) \/ SignArtifact(w) \/ WriteSignature(w)
  \/ PublishRelease(w)

Next ==
  \/ CreateRelease \/ \E p \in Platforms : AddArtifact(p) \/ Put(p)
  \/ \E w \in Workers : Request(w)
  \/ Yank \/ Unyank \/ ChangeType \/ GenerateKey \/ RotateKey \/ DeactivateKey

Spec == Init /\ [][Next]_vars

-----------------------------------------------------------------------------
(* Properties. *)

Quiet == \A w \in Workers : At(w, "idle")
Shipped == {p \in Platforms : Has(p)}

Out == rel \in {"published", "yanked"}
Served == [p \in Shipped |-> [row |-> art[p], object |-> ObjectOf(p, art[p])]]

\* A published release can be installed: its product has releases, behind
\* every artifact is an object with the digest recorded, and a signature,
\* where there is one, is over those bytes.  A product that requires
\* signing ships everything signed by one key.  Publish and FinalizeArtifact
\* (service/release.go), PublishRelease and UpdateArtifactSignatureOf.  And
\* no served copy is left with nothing pointing at it, whichever of two
\* finalizes, deletions and publishes wins (ReplaceArtifactFile).
Installable ==
  /\ sells
  /\ \A p \in Shipped : ObjectOf(p, art[p]) = art[p].sha /\ art[p].sha # None
  /\ \A p \in Shipped : art[p].sig \in {None, art[p].sha}
  /\ require => \A p, q \in Shipped : art[p].sig # None /\ art[p].by = art[q].by
NoOrphanCopies == \A c \in Copies : copy[c] # None => \E p \in Platforms : Has(p) /\ art[p].file = c
ShippedVerifies == (rel = "published" => Installable) /\ (Quiet => NoOrphanCopies)

\* What went out stays as it went out, whoever still holds an upload URL,
\* finalizes again, removes or publishes: bytes, digest and signatures.
ServedIsFrozen == [][Out => Out' /\ UNCHANGED Served]_vars
=============================================================================
