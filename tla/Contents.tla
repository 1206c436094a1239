------------------------------ MODULE Contents ------------------------------
(***************************************************************************)
(* Uploaded files of the control plane: rows of content_objects, the blobs *)
(* they stand for in the object store, the rows that reference them, and   *)
(* the garbage collector that every process runs.                          *)
(*                                                                         *)
(* Row and blob are not written together.  An upload stores the blob first *)
(* and registers it second; the collector claims a row, deletes the blob   *)
(* and marks the row, each a step of its own.  The claim decides from the  *)
(* snapshot of its statement, so a reference may have been stored between  *)
(* the snapshot and the lock.                                              *)
(***************************************************************************)
EXTENDS FiniteSets, Integers

CONSTANTS
  Keys,      \* storage keys, drawn at random by each upload
  Bodies,    \* digest and size of an upload
  Processes, \* control plane processes
  Lasting,   \* the processes that go on running
  Holders,   \* rows that reference objects: assets, attachments, packages
  Revisable, \* the holders that are challenges of a contest, whose assets may change
  Logo       \* platform_settings, which may replace its reference

ASSUME ContentsAssumption == 
  /\ IsFiniteSet(Keys) /\ Lasting \subseteq Processes
  /\ Logo \notin Holders /\ Revisable \subseteq Holders

VARIABLES
  objects,    \* content_objects by the key of the upload that stored them
  blobs,      \* keys the object store has a blob for
  references, \* content_references and the columns that name an object
  uploads,    \* uploads in progress, by key
  commits,    \* keys whose blob a commit has found, row not yet updated
  collectors, \* one run of collectGarbage per process
  disowned    \* history: rows whose uploader was told that they failed

contentVars ==
  <<objects, blobs, references, uploads, commits, collectors, disowned>>

-----------------------------------------------------------------------------

Statuses == {"absent", "temporary", "committed", "quarantined", "deleted"}

\* expired: created_at, or committed_at once there is one, is past the grace
\* period.  wasCommitted: committed_at is set.
Objects == [status : Statuses, body : Bodies, expired : BOOLEAN, wasCommitted : BOOLEAN]
Upload == [body : Bodies, step : {"stored", "discarding"}]
Idle == [phase |-> "idle", listed |-> {}, unreferenced |-> {}, claimed |-> {}, current |-> {}]
Collectors ==
  [phase : {"idle", "claiming", "working", "deleting", "marking"},
   listed : SUBSET Keys, unreferenced : SUBSET Keys,
   claimed : SUBSET Keys, current : SUBSET Keys]

\* Rows, blobs, references and the steps under way are of their types, the state
\* of a row agrees with its times as the table's check demands, and a collector
\* has one object in hand exactly while it deletes or marks it.
ContentsTypeOK ==
  /\ objects \in [Keys -> Objects]
  /\ \A k \in Keys : /\ objects[k].status = "temporary" => ~objects[k].wasCommitted
                     /\ objects[k].status = "committed" => objects[k].wasCommitted
  /\ blobs \subseteq Keys
  /\ references \subseteq Keys \X (Holders \cup {Logo})
  /\ DOMAIN uploads \subseteq Keys /\ \A k \in DOMAIN uploads : uploads[k] \in Upload
  /\ commits \subseteq Keys
  /\ collectors \in [Processes -> Collectors]
  /\ \A p \in Processes :
       Cardinality(collectors[p].current) =
         IF collectors[p].phase \in {"deleting", "marking"} THEN 1 ELSE 0
  /\ disowned \subseteq Keys

ContentsInit ==
  /\ \E b \in Bodies :
       objects = [k \in Keys |-> [status |-> "absent", body |-> b, expired |-> FALSE,
                                  wasCommitted |-> FALSE]]
  /\ blobs = {}
  /\ references = {}
  /\ uploads = <<>>
  /\ commits = {}
  /\ collectors = [p \in Processes |-> Idle]
  /\ disowned = {}

Referenced(k) == \E h \in Holders \cup {Logo} : <<k, h>> \in references
Unused(k) == objects[k].status = "absent" /\ k \notin blobs \cup DOMAIN uploads

\* content_objects_digest_size_unique
Taken(b) == \E k \in Keys : /\ objects[k].body = b
                            /\ objects[k].status \notin {"absent", "deleted"}

With(f, k, x) == [j \in DOMAIN f \cup {k} |-> IF j = k THEN x ELSE f[j]]
Without(f, k) == [j \in DOMAIN f \ {k} |-> f[j]]

-----------------------------------------------------------------------------
(***************************************************************************)
(* Uploads                                                                 *)
(***************************************************************************)

\* store.put under a fresh key, before any row says so.
Put(k, b) ==
  /\ Unused(k)
  /\ blobs' = blobs \cup {k}
  /\ uploads' = With(uploads, k, [body |-> b, step |-> "stored"])
  /\ UNCHANGED <<objects, references, commits, collectors, disowned>>

Inserted(k) ==
  objects' = [objects EXCEPT ![k] = [status |-> "temporary", body |-> uploads[k].body,
                                     expired |-> FALSE, wasCommitted |-> FALSE]]

\* registerTemporary inserts the row, unless a live row has the same digest.
Register(k) ==
  /\ k \in DOMAIN uploads /\ uploads[k].step = "stored"
  /\ IF Taken(uploads[k].body)
     THEN /\ uploads' = [uploads EXCEPT ![k].step = "discarding"]
          /\ UNCHANGED objects
     ELSE /\ Inserted(k)
          /\ uploads' = Without(uploads, k)
  /\ UNCHANGED <<blobs, references, commits, collectors, disowned>>

\* registerTemporary throws: nothing was inserted, or the connection was lost
\* after the insert was committed.  The upload then discards its blob.
RegisterFails(k) ==
  /\ k \in DOMAIN uploads /\ uploads[k].step = "stored"
  /\ uploads' = [uploads EXCEPT ![k].step = "discarding"]
  /\ \/ UNCHANGED <<objects, disowned>>
     \/ ~Taken(uploads[k].body) /\ Inserted(k) /\ disowned' = disowned \cup {k}
  /\ UNCHANGED <<blobs, references, commits, collectors>>

\* bestEffortDelete, which may fail without saying so.
Discard(k) ==
  /\ k \in DOMAIN uploads /\ uploads[k].step = "discarding"
  /\ uploads' = Without(uploads, k)
  /\ blobs' \in {blobs, blobs \ {k}}
  /\ UNCHANGED <<objects, references, commits, collectors, disowned>>

\* The process of the upload dies: a stored blob may be left with no row.
UploadDies(k) ==
  /\ k \in DOMAIN uploads
  /\ uploads' = Without(uploads, k)
  /\ UNCHANGED <<objects, blobs, references, commits, collectors, disowned>>

\* commitTemporary: the row is temporary and store.stat finds the blob.
Stat(k) ==
  /\ objects[k].status = "temporary" /\ k \in blobs /\ k \notin commits
  /\ commits' = commits \cup {k}
  /\ UNCHANGED <<objects, blobs, references, uploads, collectors, disowned>>

\* The update is guarded by the status, which may have moved since, and may not
\* be made at all.
Commit(k) ==
  /\ k \in commits
  /\ commits' = commits \ {k}
  /\ \/ /\ objects[k].status = "temporary"
        /\ objects' = [objects EXCEPT ![k].status = "committed", ![k].expired = FALSE,
                                      ![k].wasCommitted = TRUE]
     \/ UNCHANGED objects
  /\ UNCHANGED <<blobs, references, uploads, collectors, disowned>>

-----------------------------------------------------------------------------
(***************************************************************************)
(* References                                                              *)
(***************************************************************************)

\* A new row that references the objects of K.  The trigger takes the objects'
\* rows FOR SHARE and requires them committed.  A claim skips rows so locked:
\* insert and commit of the references are one step.
Attach(K, h) ==
  /\ K # {} /\ \A k \in K : objects[k].status = "committed"
  /\ \A k \in Keys : <<k, h>> \notin references
  /\ references' = references \cup (K \X {h})
  /\ UNCHANGED <<objects, blobs, uploads, commits, collectors, disowned>>

HeldBy(h) == {r \in references : r[2] = h}

\* The references of h are deleted and those to K inserted, in one transaction.
Replace(h, K) ==
  /\ \A k \in K : objects[k].status = "committed"
  /\ K \X {h} # HeldBy(h)
  /\ references' = (references \ HeldBy(h)) \cup (K \X {h})
  /\ UNCHANGED <<objects, blobs, uploads, commits, collectors, disowned>>

\* PostgresPlatformSettingsRepository.update with a logo, or with none.
ReplaceLogo(K) == Cardinality(K) <= 1 /\ Replace(Logo, K)

\* A mounted challenge is revised.  All its assets are required committed, also
\* the ones it keeps.
ReviseAssets(h, K) ==
  /\ h \in Revisable /\ HeldBy(h) # {}
  /\ Replace(h, K)

-----------------------------------------------------------------------------
(***************************************************************************)
(* Garbage collection                                                      *)
(***************************************************************************)

\* 24 hours pass since the row was created or committed.
Expire(k) ==
  /\ objects[k].status \in {"temporary", "committed"} /\ ~objects[k].expired
  /\ objects' = [objects EXCEPT ![k].expired = TRUE]
  /\ UNCHANGED <<blobs, references, uploads, commits, collectors, disowned>>

CollectableOnce(k) ==
  objects[k].status \in {"temporary", "committed"} /\ objects[k].expired

\* What the candidates' WHERE says of the row itself.
Collectable(k) ==
  \/ objects[k].status = "quarantined"
  \/ objects[k].status \in {"temporary", "committed"} /\ objects[k].expired

\* The snapshot of claimGarbage.
List(p) ==
  /\ collectors[p].phase = "idle"
  /\ collectors' = [collectors EXCEPT
       ![p].phase = "claiming",
       ![p].listed = {k \in Keys : Collectable(k)},
       ![p].unreferenced = {k \in Keys : ~Referenced(k)}]
  /\ UNCHANGED <<objects, blobs, references, uploads, commits, disowned>>

\* FOR UPDATE SKIP LOCKED looks at a changed row again, but at the references
\* only in the snapshot.
Claim(p, K) ==
  /\ collectors[p].phase = "claiming"
  /\ \A k \in K : /\ k \in collectors[p].listed /\ Collectable(k)
                  /\ objects[k].status = "quarantined" \/ k \in collectors[p].unreferenced
  /\ objects' = [k \in Keys |-> IF k \in K THEN [objects[k] EXCEPT !.status = "quarantined"]
                                           ELSE objects[k]]
  /\ collectors' = [collectors EXCEPT ![p] = [Idle EXCEPT !.phase = "working", !.claimed = K]]
  /\ UNCHANGED <<blobs, references, uploads, commits, disowned>>

ReleasedAsTemporary(o) == [o EXCEPT !.status = "temporary"]

Released(o) ==
  [o EXCEPT !.status = IF o.wasCommitted THEN "committed" ELSE "temporary"]

DeleteAsClaimed(p, k) ==
  /\ collectors[p].phase = "working" /\ k \in collectors[p].claimed
  /\ collectors' = [collectors EXCEPT ![p].phase = "deleting", ![p].current = {k},
                                      ![p].claimed = @ \ {k}]
  /\ UNCHANGED <<objects, blobs, references, uploads, commits, disowned>>

\* confirmGarbageUnreferenced: a new statement, which sees every reference.
Confirm(p, k) ==
  /\ collectors[p].phase = "working" /\ k \in collectors[p].claimed
  /\ IF objects[k].status = "quarantined" /\ ~Referenced(k)
     THEN /\ collectors' = [collectors EXCEPT ![p].phase = "deleting", ![p].current = {k},
                                              ![p].claimed = @ \ {k}]
          /\ UNCHANGED objects
     ELSE /\ collectors' = [collectors EXCEPT ![p].claimed = @ \ {k}]
          /\ objects' = IF objects[k].status = "quarantined"
                        THEN [objects EXCEPT ![k] = Released(@)] ELSE objects
  /\ UNCHANGED <<blobs, references, uploads, commits, disowned>>

DeleteBlob(p) ==
  /\ collectors[p].phase = "deleting"
  /\ blobs' = blobs \ collectors[p].current
  /\ collectors' = [collectors EXCEPT ![p].phase = "marking"]
  /\ UNCHANGED <<objects, references, uploads, commits, disowned>>

MarkDeleted(p) ==
  /\ collectors[p].phase = "marking"
  /\ objects' = [k \in Keys |->
       IF k \in collectors[p].current /\ objects[k].status = "quarantined"
       THEN [objects[k] EXCEPT !.status = "deleted"] ELSE objects[k]]
  /\ collectors' = [collectors EXCEPT ![p].phase = "working", ![p].current = {}]
  /\ UNCHANGED <<blobs, references, uploads, commits, disowned>>

\* A call of the loop throws: the object stays claimed and the next one is tried.
\* A deletion that failed may have removed the blob all the same.
CandidateFails(p) ==
  /\ \/ /\ collectors[p].phase = "working"
        /\ \E k \in collectors[p].claimed :
             collectors' = [collectors EXCEPT ![p].claimed = @ \ {k}]
        /\ UNCHANGED blobs
     \/ /\ collectors[p].phase \in {"deleting", "marking"}
        /\ collectors' = [collectors EXCEPT ![p].phase = "working", ![p].current = {}]
        /\ blobs' \in {blobs, blobs \ collectors[p].current}
  /\ UNCHANGED <<objects, references, uploads, commits, disowned>>

CollectionEnds(p) ==
  /\ collectors[p].phase = "working" /\ collectors[p].claimed = {}
  /\ collectors' = [collectors EXCEPT ![p] = Idle]
  /\ UNCHANGED <<objects, blobs, references, uploads, commits, disowned>>

\* The process dies, or the claim fails.
CollectorDies(p) ==
  /\ collectors[p].phase # "idle"
  /\ collectors' = [collectors EXCEPT ![p] = Idle]
  /\ UNCHANGED <<objects, blobs, references, uploads, commits, disowned>>

-----------------------------------------------------------------------------

Collect(p) ==
  \/ List(p) \/ DeleteBlob(p) \/ MarkDeleted(p) \/ CollectionEnds(p)
  \/ \E K \in SUBSET Keys : Claim(p, K)
  \/ \E k \in Keys : Confirm(p, k)

StoreStep ==
  \/ \E k \in Keys, b \in Bodies : Put(k, b)
  \/ \E k \in Keys : \/ Register(k) \/ RegisterFails(k) \/ Discard(k) \/ UploadDies(k)
                     \/ Stat(k) \/ Commit(k) \/ Expire(k)
  \/ \E p \in Processes : Collect(p) \/ CandidateFails(p) \/ CollectorDies(p)

ContentsNext ==
  \/ StoreStep
  \/ \E K \in SUBSET Keys : \/ ReplaceLogo(K)
                           \/ \E h \in Holders : Attach(K, h) \/ ReviseAssets(h, K)

ContentsSpec == ContentsInit /\ [][ContentsNext]_contentVars

\* The timer of a process that lasts runs the collector again and again, and what
\* is claimed comes first; claims, confirmations, deletions and marks do not all
\* fail.  Nothing is assumed of the other processes.
ContentsFairness ==
  \A p \in Lasting :
    /\ WF_contentVars(Collect(p))
    /\ SF_contentVars(DeleteBlob(p))
    /\ SF_contentVars(MarkDeleted(p))
    /\ \A k \in Keys :
         /\ SF_contentVars(\E K \in SUBSET Keys : k \in K /\ Claim(p, K))
         /\ SF_contentVars(Confirm(p, k))

ContentsFairSpec == ContentsSpec /\ ContentsFairness

-----------------------------------------------------------------------------
(***************************************************************************)
(* Properties                                                              *)
(***************************************************************************)

\* What is referenced keeps its blob, although collectors work from stale
\* snapshots, side by side, and stop anywhere.  The exception is a row whose
\* uploader was told that the registration failed and removed the blob itself.
ReferencedIsStored ==
  \A k \in Keys :
    Referenced(k) \/ objects[k].status = "committed"
      => k \in blobs \cup disowned

\* A claimed object is not stuck: it is deleted, or released if it turned out to
\* be referenced, although collectors and their calls fail half way.  Until then
\* its content can be neither read nor uploaded again.
QuarantineEnds ==
  \A k \in Keys : objects[k].status = "quarantined" ~> objects[k].status # "quarantined"

=============================================================================
