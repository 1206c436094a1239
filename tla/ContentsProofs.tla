----------------------------- MODULE ContentsProofs -----------------------------
(***************************************************************************)
(* Theorems about Contents for every value of its constants.               *)
(***************************************************************************)
EXTENDS Contents, FiniteSetTheorems, TLAPS

-----------------------------------------------------------------------------
(* The inductive invariant *)

\* A live row that no collector has claimed keeps its blob.
LiveIsStored ==
  \A k \in Keys : objects[k].status \in {"temporary", "committed"} => k \in blobs \cup disowned

\* A referenced object was committed, and a claim is all that can have happened to
\* its row since.
ReferencedIsHeld ==
  \A k \in Keys : Referenced(k) =>
    /\ objects[k].status \in {"committed", "quarantined"} /\ objects[k].wasCommitted
    /\ k \in blobs \cup disowned

\* An upload that is to be registered has its blob and no row; one that discards
\* its blob has no row, or one that it was told had failed.
UploadsAreApart ==
  \A k \in DOMAIN uploads :
    /\ uploads[k].step = "stored" => objects[k].status = "absent" /\ k \in blobs
    /\ uploads[k].step = "discarding" => objects[k].status = "absent" \/ k \in disowned

\* What a collector deletes is claimed or deleted already, and nobody can refer to
\* it any more.
DisposedIsFree ==
  \A p \in Processes : \A k \in collectors[p].current :
    objects[k].status \in {"quarantined", "deleted"} /\ ~Referenced(k)

ContentInv ==
  /\ ContentsTypeOK
  /\ LiveIsStored /\ ReferencedIsHeld /\ UploadsAreApart /\ DisposedIsFree

-----------------------------------------------------------------------------
(* Rows *)

LEMMA RowFields ==
  ASSUME ContentInv, NEW k \in Keys
  PROVE  /\ objects[k] \in Objects /\ objects[k].status \in Statuses
         /\ objects[k].body \in Bodies
         /\ objects[k].expired \in BOOLEAN /\ objects[k].wasCommitted \in BOOLEAN
         /\ objects[k].status = "temporary" => ~objects[k].wasCommitted
         /\ objects[k].status = "committed" => objects[k].wasCommitted
  BY DEF ContentInv, ContentsTypeOK, Objects

LEMMA CollectorFields ==
  ASSUME ContentInv, NEW p \in Processes
  PROVE  /\ collectors[p] \in Collectors
         /\ collectors[p].phase \in {"idle", "claiming", "working", "deleting", "marking"}
         /\ collectors[p].listed \subseteq Keys /\ collectors[p].unreferenced \subseteq Keys
         /\ collectors[p].claimed \subseteq Keys /\ collectors[p].current \subseteq Keys
         /\ Cardinality(collectors[p].current) =
              IF collectors[p].phase \in {"deleting", "marking"} THEN 1 ELSE 0
  BY DEF ContentInv, ContentsTypeOK, Collectors

LEMMA UploadRemoved ==
  ASSUME ContentInv, NEW k
  PROVE  /\ DOMAIN Without(uploads, k) \subseteq DOMAIN uploads
         /\ k \notin DOMAIN Without(uploads, k)
         /\ \A j \in DOMAIN Without(uploads, k) : Without(uploads, k)[j] = uploads[j]
  BY DEF Without

-----------------------------------------------------------------------------
(* Uploads *)

LEMMA PutKeeps ==
  ASSUME ContentInv, NEW k \in Keys, NEW b \in Bodies, Put(k, b)
  PROVE  ContentInv'
  <1> DEFINE new == [body |-> b, step |-> "stored"]
  <1>1. /\ blobs' = blobs \cup {k} /\ uploads' = With(uploads, k, new)
        /\ objects[k].status = "absent" /\ k \notin blobs /\ k \notin DOMAIN uploads
        /\ UNCHANGED <<objects, references, commits, collectors, disowned>>
    BY DEF Put, Unused
  <1>2. new \in Upload /\ new.step = "stored"
    BY DEF Upload
  <1> HIDE DEF new
  <1>3. /\ DOMAIN uploads' = DOMAIN uploads \cup {k} /\ uploads'[k] = new
        /\ \A j \in DOMAIN uploads : uploads'[j] = uploads[j]
    BY <1>1 DEF With
  <1>4. ContentsTypeOK'
    BY <1>1, <1>2, <1>3 DEF ContentInv, ContentsTypeOK
  <1>5. LiveIsStored' /\ ReferencedIsHeld' /\ DisposedIsFree'
    BY <1>1 DEF ContentInv, LiveIsStored, ReferencedIsHeld, DisposedIsFree, Referenced
  <1>6. UploadsAreApart'
    BY <1>1, <1>2, <1>3 DEF ContentInv, UploadsAreApart
  <1> QED
    BY <1>4, <1>5, <1>6 DEF ContentInv

\* An upload ends, and its blob may go with it, if nothing needs it.
LEMMA UploadEndKeeps ==
  ASSUME ContentInv, NEW k \in DOMAIN uploads, uploads' = Without(uploads, k),
         \/ blobs' = blobs
         \/ blobs' = blobs \ {k} /\ uploads[k].step = "discarding",
         UNCHANGED <<objects, references, commits, collectors, disowned>>
  PROVE  ContentInv'
  <1>1. /\ DOMAIN uploads' \subseteq DOMAIN uploads /\ k \notin DOMAIN uploads'
        /\ \A j \in DOMAIN uploads' : uploads'[j] = uploads[j]
    BY UploadRemoved
  <1>2. blobs' \subseteq blobs /\ \A j \in blobs \ {k} : j \in blobs'
    OBVIOUS
  <1>3. k \in blobs => k \in blobs' \/ objects[k].status = "absent" \/ k \in disowned
    BY DEF ContentInv, UploadsAreApart
  <1>4. ContentsTypeOK'
    BY <1>1, <1>2 DEF ContentInv, ContentsTypeOK
  <1>5. LiveIsStored' /\ ReferencedIsHeld' /\ DisposedIsFree'
    BY <1>2, <1>3
    DEF ContentInv, LiveIsStored, ReferencedIsHeld, DisposedIsFree, Referenced
  <1>6. UploadsAreApart'
    BY <1>1, <1>2 DEF ContentInv, UploadsAreApart
  <1> QED
    BY <1>4, <1>5, <1>6 DEF ContentInv

\* The row of an upload is inserted.
LEMMA InsertedRow ==
  ASSUME ContentInv, NEW k \in DOMAIN uploads, Inserted(k)
  PROVE  /\ k \in Keys /\ objects' \in [Keys -> Objects]
         /\ objects'[k].status = "temporary" /\ ~objects'[k].wasCommitted
         /\ \A j \in Keys \ {k} : objects'[j] = objects[j]
  <1>1. k \in Keys /\ uploads[k] \in Upload /\ objects \in [Keys -> Objects]
    BY DEF ContentInv, ContentsTypeOK
  <1> DEFINE row == [status |-> "temporary", body |-> uploads[k].body, expired |-> FALSE,
                     wasCommitted |-> FALSE]
  <1>2. row \in Objects /\ row.status = "temporary" /\ ~row.wasCommitted
    BY <1>1 DEF Objects, Statuses, Upload
  <1>3. objects' = [objects EXCEPT ![k] = row]
    BY DEF Inserted
  <1> HIDE DEF row
  <1> QED
    BY <1>1, <1>2, <1>3

LEMMA RegisterKeeps ==
  ASSUME ContentInv, NEW k \in Keys, Register(k) \/ RegisterFails(k)
  PROVE  ContentInv'
  <1>1. /\ k \in DOMAIN uploads /\ uploads[k].step = "stored"
        /\ objects[k].status = "absent" /\ k \in blobs /\ ~Referenced(k)
        /\ \A p \in Processes : k \notin collectors[p].current
        /\ UNCHANGED <<blobs, references, commits, collectors>>
    BY DEF Register, RegisterFails, ContentInv, UploadsAreApart, ReferencedIsHeld,
           DisposedIsFree
  <1>2. \/ uploads' = Without(uploads, k) /\ Inserted(k) /\ UNCHANGED disowned
        \/ /\ uploads' = [uploads EXCEPT ![k].step = "discarding"]
           /\ \/ UNCHANGED <<objects, disowned>>
              \/ Inserted(k) /\ disowned' = disowned \cup {k}
    BY DEF Register, RegisterFails
  <1>3. /\ DOMAIN uploads' \subseteq DOMAIN uploads
        /\ \A j \in DOMAIN uploads' \ {k} : uploads'[j] = uploads[j]
        /\ k \in DOMAIN uploads' => uploads'[k] \in Upload /\ uploads'[k].step = "discarding"
    <2> DEFINE u == [uploads[k] EXCEPT !.step = "discarding"]
    <2>1. u \in Upload /\ u.step = "discarding"
      BY <1>1 DEF ContentInv, ContentsTypeOK, Upload
    <2> HIDE DEF u
    <2>2. uploads' = Without(uploads, k) \/ uploads' = [uploads EXCEPT ![k] = u]
      BY <1>2 DEF u
    <2> QED
      BY <1>1, <2>1, <2>2, UploadRemoved
  <1>4. /\ objects' \in [Keys -> Objects]
        /\ \A j \in Keys \ {k} : objects'[j] = objects[j]
        /\ \/ objects' = objects
           \/ objects'[k].status = "temporary" /\ ~objects'[k].wasCommitted
    BY <1>1, <1>2, InsertedRow DEF ContentInv, ContentsTypeOK
  <1>5. /\ disowned \subseteq disowned' /\ disowned' \subseteq disowned \cup {k}
        /\ k \in DOMAIN uploads' => objects' = objects \/ k \in disowned'
    <2>1. CASE uploads' = Without(uploads, k) /\ UNCHANGED disowned
      BY <2>1, UploadRemoved
    <2>2. CASE \/ UNCHANGED <<objects, disowned>>
               \/ disowned' = disowned \cup {k}
      BY <2>2
    <2> QED
      BY <1>2, <2>1, <2>2
  <1>6. ContentsTypeOK'
    BY <1>1, <1>3, <1>4, <1>5 DEF ContentInv, ContentsTypeOK
  <1>7. LiveIsStored' /\ ReferencedIsHeld' /\ DisposedIsFree'
    BY <1>1, <1>4, <1>5
    DEF ContentInv, ContentsTypeOK, LiveIsStored, ReferencedIsHeld, DisposedIsFree, Referenced,
        Collectors
  <1>8. UploadsAreApart'
    BY <1>1, <1>3, <1>4, <1>5 DEF ContentInv, UploadsAreApart, ContentsTypeOK
  <1> QED
    BY <1>6, <1>7, <1>8 DEF ContentInv

LEMMA UploadEnds ==
  ASSUME ContentInv, NEW k \in Keys, Discard(k) \/ UploadDies(k)
  PROVE  ContentInv'
  BY UploadEndKeeps DEF Discard, UploadDies

LEMMA StatKeeps ==
  ASSUME ContentInv, NEW k \in Keys, Stat(k)
  PROVE  ContentInv'
  BY DEF Stat, ContentInv, ContentsTypeOK, LiveIsStored, ReferencedIsHeld, UploadsAreApart,
         DisposedIsFree, Referenced

-----------------------------------------------------------------------------
(* Rows change *)

\* Any step that changes rows alone, and that keeps each of them within the bounds
\* the invariant sets it.
LEMMA RowsKeep ==
  ASSUME ContentInv, UNCHANGED <<blobs, references, uploads, disowned>>,
         commits' \subseteq Keys, objects' \in [Keys -> Objects],
         \A k \in Keys :
           \/ objects'[k] = objects[k]
           \/ /\ objects[k].status # "absent" /\ objects'[k].status # "absent"
              /\ objects'[k].status = "temporary" => ~objects'[k].wasCommitted
              /\ objects'[k].status = "committed" => objects'[k].wasCommitted
              /\ objects'[k].status \in {"temporary", "committed"} => k \in blobs \cup disowned
              /\ Referenced(k) => /\ objects'[k].status \in {"committed", "quarantined"}
                                  /\ objects'[k].wasCommitted
  PROVE  /\ objects' \in [Keys -> Objects]
         /\ \A k \in Keys : /\ objects'[k].status = "temporary" => ~objects'[k].wasCommitted
                            /\ objects'[k].status = "committed" => objects'[k].wasCommitted
         /\ LiveIsStored' /\ ReferencedIsHeld' /\ UploadsAreApart'
  <1>1. \A k \in Keys : /\ objects'[k].status = "temporary" => ~objects'[k].wasCommitted
                        /\ objects'[k].status = "committed" => objects'[k].wasCommitted
    BY DEF ContentInv, ContentsTypeOK
  <1>2. LiveIsStored' /\ ReferencedIsHeld'
    BY DEF ContentInv, LiveIsStored, ReferencedIsHeld, Referenced
  <1>3. UploadsAreApart'
    BY DEF ContentInv, ContentsTypeOK, UploadsAreApart
  <1> QED
    BY <1>1, <1>2, <1>3

LEMMA CommitKeeps ==
  ASSUME ContentInv, NEW k \in Keys, Commit(k)
  PROVE  ContentInv'
  <1> DEFINE row == [objects[k] EXCEPT !.status = "committed", !.expired = FALSE,
                                       !.wasCommitted = TRUE]
  <1>1. row \in Objects /\ row.status = "committed" /\ row.wasCommitted
    BY RowFields DEF Objects, Statuses
  <1>2. /\ commits' \subseteq Keys
        /\ \/ objects[k].status = "temporary" /\ objects' = [objects EXCEPT ![k] = row]
           \/ objects' = objects
        /\ UNCHANGED <<blobs, references, uploads, collectors, disowned>>
    BY DEF Commit, ContentInv, ContentsTypeOK
  <1> HIDE DEF row
  <1>3. /\ objects' \in [Keys -> Objects]
        /\ \A j \in Keys :
             \/ objects'[j] = objects[j]
             \/ /\ j = k /\ objects[j].status = "temporary" /\ objects'[j].status = "committed"
                /\ objects'[j].wasCommitted
    BY <1>1, <1>2 DEF ContentInv, ContentsTypeOK
  <1>4. \A j \in Keys : objects[j].status = "temporary" => ~Referenced(j) /\ j \in blobs \cup disowned
    BY DEF ContentInv, ReferencedIsHeld, LiveIsStored
  <1>5. LiveIsStored' /\ ReferencedIsHeld' /\ UploadsAreApart'
        /\ \A j \in Keys : /\ objects'[j].status = "temporary" => ~objects'[j].wasCommitted
                           /\ objects'[j].status = "committed" => objects'[j].wasCommitted
    <2>1. \A j \in Keys :
           \/ objects'[j] = objects[j]
           \/ /\ objects[j].status # "absent" /\ objects'[j].status # "absent"
              /\ objects'[j].status = "temporary" => ~objects'[j].wasCommitted
              /\ objects'[j].status = "committed" => objects'[j].wasCommitted
              /\ objects'[j].status \in {"temporary", "committed"} => j \in blobs \cup disowned
              /\ Referenced(j) => /\ objects'[j].status \in {"committed", "quarantined"}
                                  /\ objects'[j].wasCommitted
      BY <1>3, <1>4
    <2> QED
      BY <1>2, <1>3, <2>1, RowsKeep
  <1>6. ContentsTypeOK'
    BY <1>2, <1>3, <1>5 DEF ContentInv, ContentsTypeOK
  <1>7. DisposedIsFree'
    BY <1>2, <1>3, CollectorFields DEF ContentInv, DisposedIsFree, Referenced
  <1> QED
    BY <1>5, <1>6, <1>7 DEF ContentInv

LEMMA ExpireKeeps ==
  ASSUME ContentInv, NEW k \in Keys, Expire(k)
  PROVE  ContentInv'
  <1> DEFINE row == [objects[k] EXCEPT !.expired = TRUE]
  <1>1. /\ row \in Objects /\ row.status = objects[k].status
        /\ row.wasCommitted = objects[k].wasCommitted
    BY RowFields DEF Objects, Statuses
  <1>2. /\ objects' = [objects EXCEPT ![k] = row]
        /\ UNCHANGED <<blobs, references, uploads, commits, collectors, disowned>>
    BY DEF Expire
  <1> HIDE DEF row
  <1>3. /\ objects' \in [Keys -> Objects]
        /\ \A j \in Keys : /\ objects'[j].status = objects[j].status
                           /\ objects'[j].wasCommitted = objects[j].wasCommitted
    BY <1>1, <1>2 DEF ContentInv, ContentsTypeOK
  <1>4. ContentsTypeOK'
    BY <1>2, <1>3 DEF ContentInv, ContentsTypeOK
  <1>5. LiveIsStored' /\ ReferencedIsHeld'
    BY <1>2, <1>3 DEF ContentInv, LiveIsStored, ReferencedIsHeld, Referenced
  <1>6. UploadsAreApart'
    BY <1>2, <1>3 DEF ContentInv, ContentsTypeOK, UploadsAreApart
  <1>7. DisposedIsFree'
    BY <1>2, <1>3, CollectorFields DEF ContentInv, DisposedIsFree, Referenced
  <1> QED
    BY <1>4, <1>5, <1>6, <1>7 DEF ContentInv

-----------------------------------------------------------------------------
(* References *)

\* References are stored to committed objects alone.
LEMMA ReferencesKeep ==
  ASSUME ContentInv, NEW K \in SUBSET Keys, NEW h \in Holders \cup {Logo},
         \A k \in K : objects[k].status = "committed",
         references' \subseteq references \cup (K \X {h}),
         UNCHANGED <<objects, blobs, uploads, commits, collectors, disowned>>
  PROVE  ContentInv'
  <1>1. \A k \in Keys : Referenced(k)' => Referenced(k) \/ k \in K
    BY DEF Referenced
  <1>2. ContentsTypeOK'
    BY DEF ContentInv, ContentsTypeOK
  <1>3. LiveIsStored' /\ UploadsAreApart'
    BY DEF ContentInv, LiveIsStored, UploadsAreApart
  <1>4. ReferencedIsHeld'
    BY <1>1, RowFields DEF ContentInv, ReferencedIsHeld, LiveIsStored
  <1>5. DisposedIsFree'
    BY <1>1, CollectorFields DEF ContentInv, DisposedIsFree
  <1> QED
    BY <1>2, <1>3, <1>4, <1>5 DEF ContentInv

LEMMA ReferencesChange ==
  ASSUME ContentInv, NEW K \in SUBSET Keys,
         \/ ReplaceLogo(K)
         \/ \E h \in Holders : Attach(K, h) \/ ReviseAssets(h, K)
  PROVE  ContentInv'
  <1>1. CASE ReplaceLogo(K)
    BY <1>1, ReferencesKeep DEF ReplaceLogo, Replace
  <1>2. ASSUME NEW h \in Holders, Attach(K, h) \/ ReviseAssets(h, K)
        PROVE  ContentInv'
    BY <1>2, ReferencesKeep DEF Attach, ReviseAssets, Replace
  <1> QED
    BY <1>1, <1>2

-----------------------------------------------------------------------------
(* Collectors *)

\* One collector moves on: only itself changes, and what it has in hand is claimed
\* or deleted and unreferenced.
LEMMA CollectorMoves ==
  ASSUME ContentInv, NEW p \in Processes, NEW c \in Collectors,
         collectors' = [collectors EXCEPT ![p] = c],
         Cardinality(c.current) = IF c.phase \in {"deleting", "marking"} THEN 1 ELSE 0
  PROVE  /\ collectors' \in [Processes -> Collectors]
         /\ \A q \in Processes :
              Cardinality(collectors'[q].current) =
                IF collectors'[q].phase \in {"deleting", "marking"} THEN 1 ELSE 0
         /\ collectors'[p] = c
         /\ \A q \in Processes \ {p} : collectors'[q] = collectors[q]
  BY DEF ContentInv, ContentsTypeOK

\* ... and nothing else has changed.
LEMMA CollectorMovesAlone ==
  ASSUME ContentInv, NEW p \in Processes, NEW c \in Collectors,
         collectors' = [collectors EXCEPT ![p] = c],
         Cardinality(c.current) = IF c.phase \in {"deleting", "marking"} THEN 1 ELSE 0,
         \/ c.current \subseteq collectors[p].current
         \/ \A k \in c.current : objects[k].status = "quarantined" /\ ~Referenced(k),
         blobs' \subseteq blobs, \A k \in blobs \ collectors[p].current : k \in blobs',
         UNCHANGED <<objects, references, uploads, commits, disowned>>
  PROVE  ContentInv'
  <1>1. /\ collectors' \in [Processes -> Collectors]
        /\ \A q \in Processes :
             Cardinality(collectors'[q].current) =
               IF collectors'[q].phase \in {"deleting", "marking"} THEN 1 ELSE 0
        /\ collectors'[p] = c
        /\ \A q \in Processes \ {p} : collectors'[q] = collectors[q]
    BY CollectorMoves
  <1>2. ContentsTypeOK'
    BY <1>1 DEF ContentInv, ContentsTypeOK
  <1>3. LiveIsStored' /\ ReferencedIsHeld'
    BY DEF ContentInv, LiveIsStored, ReferencedIsHeld, DisposedIsFree, Referenced
  <1>4. UploadsAreApart'
    BY DEF ContentInv, UploadsAreApart, DisposedIsFree
  <1>5. DisposedIsFree'
    BY <1>1 DEF ContentInv, DisposedIsFree, Referenced
  <1> QED
    BY <1>2, <1>3, <1>4, <1>5 DEF ContentInv

LEMMA IdleIsACollector ==
  /\ Idle \in Collectors /\ Idle.phase = "idle" /\ Idle.current = {}
  /\ Cardinality({}) = 0
  BY FS_EmptySet DEF Idle, Collectors

LEMMA CollectionRests ==
  ASSUME ContentInv, NEW p \in Processes, CollectionEnds(p) \/ CollectorDies(p)
  PROVE  ContentInv'
  BY IdleIsACollector, CollectorMovesAlone DEF CollectionEnds, CollectorDies

LEMMA ListKeeps ==
  ASSUME ContentInv, NEW p \in Processes, List(p)
  PROVE  ContentInv'
  <1> DEFINE c == [collectors[p] EXCEPT !.phase = "claiming",
                                        !.listed = {k \in Keys : Collectable(k)},
                                        !.unreferenced = {k \in Keys : ~Referenced(k)}]
  <1>1. /\ collectors' = [collectors EXCEPT ![p] = c]
        /\ collectors[p].phase = "idle"
        /\ UNCHANGED <<objects, blobs, references, uploads, commits, disowned>>
    BY DEF List
  <1>2. c \in Collectors /\ c.current = collectors[p].current /\ c.phase = "claiming"
    BY CollectorFields DEF Collectors
  <1>3. Cardinality(collectors[p].current) = 0
    BY <1>1, CollectorFields
  <1> HIDE DEF c
  <1> QED
    BY <1>1, <1>2, <1>3, CollectorMovesAlone

LEMMA DeleteBlobKeeps ==
  ASSUME ContentInv, NEW p \in Processes, DeleteBlob(p)
  PROVE  ContentInv'
  <1> DEFINE c == [collectors[p] EXCEPT !.phase = "marking"]
  <1>1. /\ collectors' = [collectors EXCEPT ![p] = c]
        /\ collectors[p].phase = "deleting" /\ blobs' = blobs \ collectors[p].current
        /\ UNCHANGED <<objects, references, uploads, commits, disowned>>
    BY DEF DeleteBlob
  <1>2. c \in Collectors /\ c.current = collectors[p].current /\ c.phase = "marking"
    BY CollectorFields DEF Collectors
  <1>3. Cardinality(collectors[p].current) = 1
    BY <1>1, CollectorFields
  <1> HIDE DEF c
  <1> QED
    BY <1>1, <1>2, <1>3, CollectorMovesAlone

LEMMA CandidateFailsKeeps ==
  ASSUME ContentInv, NEW p \in Processes, CandidateFails(p)
  PROVE  ContentInv'
  <1>1. UNCHANGED <<objects, references, uploads, commits, disowned>>
    BY DEF CandidateFails
  <1>2. ASSUME NEW k \in collectors[p].claimed, collectors[p].phase = "working",
               collectors' = [collectors EXCEPT ![p].claimed = @ \ {k}], UNCHANGED blobs
        PROVE  ContentInv'
    <2> DEFINE c == [collectors[p] EXCEPT !.claimed = @ \ {k}]
    <2>1. collectors' = [collectors EXCEPT ![p] = c]
      BY <1>2
    <2>2. c \in Collectors /\ c.current = collectors[p].current /\ c.phase = "working"
      BY <1>2, CollectorFields DEF Collectors
    <2>3. Cardinality(collectors[p].current) = 0
      BY <1>2, CollectorFields
    <2> HIDE DEF c
    <2> QED
      BY <1>1, <1>2, <2>1, <2>2, <2>3, CollectorMovesAlone
  <1>3. ASSUME collectors' = [collectors EXCEPT ![p].phase = "working", ![p].current = {}],
               blobs' \in {blobs, blobs \ collectors[p].current}
        PROVE  ContentInv'
    <2> DEFINE c == [collectors[p] EXCEPT !.phase = "working", !.current = {}]
    <2>1. collectors' = [collectors EXCEPT ![p] = c]
      BY <1>3
    <2>2. c \in Collectors /\ c.current = {} /\ c.phase = "working"
      BY CollectorFields DEF Collectors
    <2> HIDE DEF c
    <2> QED
      BY <1>1, <1>3, <2>1, <2>2, IdleIsACollector, CollectorMovesAlone
  <1> QED
    BY <1>2, <1>3 DEF CandidateFails

\* A claim takes rows that its snapshot showed without references.  What it takes
\* may be referenced by now, and then stays committed under the claim.
LEMMA ClaimKeeps ==
  ASSUME ContentInv, NEW p \in Processes, NEW K \in SUBSET Keys, Claim(p, K)
  PROVE  ContentInv'
  <1> DEFINE c == [Idle EXCEPT !.phase = "working", !.claimed = K]
             row(k) == [objects[k] EXCEPT !.status = "quarantined"]
  <1>1. /\ collectors' = [collectors EXCEPT ![p] = c]
        /\ objects' = [k \in Keys |-> IF k \in K THEN row(k) ELSE objects[k]]
        /\ \A k \in K : objects[k].status \in {"temporary", "committed", "quarantined"}
        /\ UNCHANGED <<blobs, references, uploads, commits, disowned>>
    BY DEF Claim, Collectable
  <1>2. c \in Collectors /\ c.phase = "working" /\ c.current = {}
    BY DEF Collectors, Idle
  <1>3. \A k \in Keys : /\ row(k) \in Objects /\ row(k).status = "quarantined"
                        /\ row(k).wasCommitted = objects[k].wasCommitted
    BY RowFields DEF Objects, Statuses
  <1> HIDE DEF c, row
  <1>4. /\ objects' \in [Keys -> Objects]
        /\ \A k \in Keys :
             \/ objects'[k] = objects[k]
             \/ /\ objects[k].status \in {"temporary", "committed", "quarantined"}
                /\ objects'[k].status = "quarantined"
                /\ objects'[k].wasCommitted = objects[k].wasCommitted
    BY <1>1, <1>3, RowFields
  <1>5. \A k \in Keys : Referenced(k) => objects[k].wasCommitted
    BY DEF ContentInv, ReferencedIsHeld
  <1>6. /\ LiveIsStored' /\ ReferencedIsHeld' /\ UploadsAreApart'
        /\ \A k \in Keys : /\ objects'[k].status = "temporary" => ~objects'[k].wasCommitted
                           /\ objects'[k].status = "committed" => objects'[k].wasCommitted
    <2>1. \A j \in Keys :
           \/ objects'[j] = objects[j]
           \/ /\ objects[j].status # "absent" /\ objects'[j].status # "absent"
              /\ objects'[j].status = "temporary" => ~objects'[j].wasCommitted
              /\ objects'[j].status = "committed" => objects'[j].wasCommitted
              /\ objects'[j].status \in {"temporary", "committed"} => j \in blobs \cup disowned
              /\ Referenced(j) => /\ objects'[j].status \in {"committed", "quarantined"}
                                  /\ objects'[j].wasCommitted
      BY <1>4, <1>5
    <2>2. commits' \subseteq Keys
      BY <1>1 DEF ContentInv, ContentsTypeOK
    <2> QED
      BY <1>1, <1>4, <2>1, <2>2, RowsKeep
  <1>7. /\ collectors' \in [Processes -> Collectors]
        /\ \A q \in Processes :
             Cardinality(collectors'[q].current) =
               IF collectors'[q].phase \in {"deleting", "marking"} THEN 1 ELSE 0
        /\ collectors'[p] = c
        /\ \A q \in Processes \ {p} : collectors'[q] = collectors[q]
    BY <1>1, <1>2, IdleIsACollector, CollectorMoves
  <1>8. ContentsTypeOK'
    BY <1>1, <1>4, <1>6, <1>7 DEF ContentInv, ContentsTypeOK
  <1>9. DisposedIsFree'
    BY <1>1, <1>2, <1>4, <1>7, CollectorFields DEF ContentInv, DisposedIsFree, Referenced
  <1> QED
    BY <1>6, <1>8, <1>9 DEF ContentInv

\* A released row takes back the status its times tell of; nobody has it in hand,
\* since it is referenced.
LEMMA ReleasedRow ==
  ASSUME ContentInv, NEW k \in Keys
  PROVE  /\ Released(objects[k]) \in Objects
         /\ Released(objects[k]).wasCommitted = objects[k].wasCommitted
         /\ Released(objects[k]).status =
              IF objects[k].wasCommitted THEN "committed" ELSE "temporary"
  BY RowFields DEF Released, Objects, Statuses

LEMMA ConfirmKeeps ==
  ASSUME ContentInv, NEW p \in Processes, NEW k \in Keys, Confirm(p, k)
  PROVE  ContentInv'
  <1>1. /\ collectors[p].phase = "working" /\ k \in collectors[p].claimed
        /\ UNCHANGED <<blobs, references, uploads, commits, disowned>>
        /\ Cardinality(collectors[p].current) = 0
    BY CollectorFields DEF Confirm
  <1>2. CASE objects[k].status = "quarantined" /\ ~Referenced(k)
    <2> DEFINE c == [collectors[p] EXCEPT !.phase = "deleting", !.current = {k},
                                          !.claimed = @ \ {k}]
    <2>1. collectors' = [collectors EXCEPT ![p] = c] /\ UNCHANGED objects
      BY <1>2 DEF Confirm
    <2>2. c \in Collectors /\ c.phase = "deleting" /\ c.current = {k}
      BY CollectorFields DEF Collectors
    <2>3. Cardinality({k}) = 1
      BY FS_Singleton
    <2> HIDE DEF c
    <2> QED
      BY <1>1, <1>2, <2>1, <2>2, <2>3, CollectorMovesAlone
  <1>3. CASE ~(objects[k].status = "quarantined" /\ ~Referenced(k))
    <2> DEFINE c == [collectors[p] EXCEPT !.claimed = @ \ {k}]
               row == Released(objects[k])
    <2>1. /\ collectors' = [collectors EXCEPT ![p] = c]
          /\ objects' = IF objects[k].status = "quarantined"
                        THEN [objects EXCEPT ![k] = row] ELSE objects
      BY <1>3 DEF Confirm
    <2>2. c \in Collectors /\ c.phase = "working" /\ c.current = collectors[p].current
      BY <1>1, CollectorFields DEF Collectors
    <2>3. CASE objects[k].status # "quarantined"
      <3> HIDE DEF c, row
      <3> QED
        BY <1>1, <2>1, <2>2, <2>3, CollectorMovesAlone
    <2>4. CASE objects[k].status = "quarantined" /\ Referenced(k)
      <3>1. /\ objects[k].wasCommitted /\ k \in blobs \cup disowned
            /\ \A q \in Processes : k \notin collectors[q].current
        BY <2>4 DEF ContentInv, ReferencedIsHeld, DisposedIsFree
      <3>2. row \in Objects /\ row.status = "committed" /\ row.wasCommitted
        BY <3>1, ReleasedRow
      <3> HIDE DEF c, row
      <3>3. /\ objects' \in [Keys -> Objects]
            /\ objects'[k].status = "committed" /\ objects'[k].wasCommitted
            /\ \A j \in Keys \ {k} : objects'[j] = objects[j]
        BY <2>1, <2>4, <3>2 DEF ContentInv, ContentsTypeOK
      <3>4. /\ LiveIsStored' /\ ReferencedIsHeld' /\ UploadsAreApart'
            /\ \A j \in Keys : /\ objects'[j].status = "temporary" => ~objects'[j].wasCommitted
                               /\ objects'[j].status = "committed" => objects'[j].wasCommitted
        <4>1. \A j \in Keys :
               \/ objects'[j] = objects[j]
               \/ /\ objects[j].status # "absent" /\ objects'[j].status # "absent"
                  /\ objects'[j].status = "temporary" => ~objects'[j].wasCommitted
                  /\ objects'[j].status = "committed" => objects'[j].wasCommitted
                  /\ objects'[j].status \in {"temporary", "committed"} => j \in blobs \cup disowned
                  /\ Referenced(j) => /\ objects'[j].status \in {"committed", "quarantined"}
                                      /\ objects'[j].wasCommitted
          BY <2>4, <3>1, <3>3
        <4>2. commits' \subseteq Keys
          BY <1>1 DEF ContentInv, ContentsTypeOK
        <4> QED
          BY <1>1, <3>3, <4>1, <4>2, RowsKeep
      <3>5. /\ collectors' \in [Processes -> Collectors]
            /\ \A q \in Processes :
                 Cardinality(collectors'[q].current) =
                   IF collectors'[q].phase \in {"deleting", "marking"} THEN 1 ELSE 0
            /\ collectors'[p] = c
            /\ \A q \in Processes \ {p} : collectors'[q] = collectors[q]
        BY <1>1, <2>1, <2>2, CollectorMoves
      <3>6. ContentsTypeOK'
        BY <1>1, <3>3, <3>4, <3>5 DEF ContentInv, ContentsTypeOK
      <3>7. DisposedIsFree'
        BY <1>1, <2>2, <3>1, <3>3, <3>5, CollectorFields
        DEF ContentInv, DisposedIsFree, Referenced
      <3> QED
        BY <3>4, <3>6, <3>7 DEF ContentInv
    <2> QED
      BY <1>3, <2>3, <2>4
  <1> QED
    BY <1>2, <1>3

LEMMA MarkDeletedKeeps ==
  ASSUME ContentInv, NEW p \in Processes, MarkDeleted(p)
  PROVE  ContentInv'
  <1> DEFINE c == [collectors[p] EXCEPT !.phase = "working", !.current = {}]
             row(k) == [objects[k] EXCEPT !.status = "deleted"]
             marked(k) == k \in collectors[p].current /\ objects[k].status = "quarantined"
  <1>1. /\ collectors' = [collectors EXCEPT ![p] = c]
        /\ objects' = [k \in Keys |-> IF marked(k) THEN row(k) ELSE objects[k]]
        /\ UNCHANGED <<blobs, references, uploads, commits, disowned>>
    BY DEF MarkDeleted
  <1>2. c \in Collectors /\ c.phase = "working" /\ c.current = {}
    BY CollectorFields DEF Collectors
  <1>3. \A k \in Keys : row(k) \in Objects /\ row(k).status = "deleted"
    BY RowFields DEF Objects, Statuses
  <1>4. \A k \in Keys : marked(k) => ~Referenced(k) /\ objects[k].status = "quarantined"
    BY DEF ContentInv, DisposedIsFree
  <1> HIDE DEF c, row, marked
  <1>5. /\ objects' \in [Keys -> Objects]
        /\ \A k \in Keys :
             \/ objects'[k] = objects[k]
             \/ /\ objects[k].status = "quarantined" /\ ~Referenced(k)
                /\ objects'[k].status = "deleted"
    BY <1>1, <1>3, <1>4, RowFields
  <1>6. /\ LiveIsStored' /\ ReferencedIsHeld' /\ UploadsAreApart'
        /\ \A k \in Keys : /\ objects'[k].status = "temporary" => ~objects'[k].wasCommitted
                           /\ objects'[k].status = "committed" => objects'[k].wasCommitted
    <2>1. \A j \in Keys :
           \/ objects'[j] = objects[j]
           \/ /\ objects[j].status # "absent" /\ objects'[j].status # "absent"
              /\ objects'[j].status = "temporary" => ~objects'[j].wasCommitted
              /\ objects'[j].status = "committed" => objects'[j].wasCommitted
              /\ objects'[j].status \in {"temporary", "committed"} => j \in blobs \cup disowned
              /\ Referenced(j) => /\ objects'[j].status \in {"committed", "quarantined"}
                                  /\ objects'[j].wasCommitted
      BY <1>5
    <2>2. commits' \subseteq Keys
      BY <1>1 DEF ContentInv, ContentsTypeOK
    <2> QED
      BY <1>1, <1>5, <2>1, <2>2, RowsKeep
  <1>7. /\ collectors' \in [Processes -> Collectors]
        /\ \A q \in Processes :
             Cardinality(collectors'[q].current) =
               IF collectors'[q].phase \in {"deleting", "marking"} THEN 1 ELSE 0
        /\ collectors'[p] = c
        /\ \A q \in Processes \ {p} : collectors'[q] = collectors[q]
    BY <1>1, <1>2, IdleIsACollector, CollectorMoves
  <1>8. ContentsTypeOK'
    BY <1>1, <1>5, <1>6, <1>7 DEF ContentInv, ContentsTypeOK
  <1>9. DisposedIsFree'
    BY <1>1, <1>2, <1>5, <1>7, CollectorFields DEF ContentInv, DisposedIsFree, Referenced
  <1> QED
    BY <1>6, <1>8, <1>9 DEF ContentInv

-----------------------------------------------------------------------------
(* The specification *)

LEMMA StepKeeps ==
  ASSUME ContentInv, [ContentsNext]_contentVars
  PROVE  ContentInv'
  <1>1. CASE UNCHANGED contentVars
    BY <1>1 DEF contentVars, ContentInv, ContentsTypeOK, LiveIsStored, ReferencedIsHeld,
                UploadsAreApart, DisposedIsFree, Referenced
  <1>2. CASE StoreStep
    <2>1. ASSUME NEW k \in Keys, NEW b \in Bodies, Put(k, b)
          PROVE  ContentInv'
      BY <2>1, PutKeeps
    <2>2. ASSUME NEW k \in Keys,
                 \/ Register(k) \/ RegisterFails(k) \/ Discard(k) \/ UploadDies(k)
                 \/ Stat(k) \/ Commit(k) \/ Expire(k)
          PROVE  ContentInv'
      BY <2>2, RegisterKeeps, UploadEnds, StatKeeps, CommitKeeps, ExpireKeeps
    <2>3. ASSUME NEW p \in Processes, Collect(p) \/ CandidateFails(p) \/ CollectorDies(p)
          PROVE  ContentInv'
      BY <2>3, ListKeeps, DeleteBlobKeeps, MarkDeletedKeeps, CollectionRests, ClaimKeeps,
         ConfirmKeeps, CandidateFailsKeeps
      DEF Collect
    <2> QED
      BY <1>2, <2>1, <2>2, <2>3 DEF StoreStep
  <1>3. CASE \E K \in SUBSET Keys : \/ ReplaceLogo(K)
                                    \/ \E h \in Holders : Attach(K, h) \/ ReviseAssets(h, K)
    BY <1>3, ReferencesChange
  <1> QED
    BY <1>1, <1>2, <1>3 DEF ContentsNext

LEMMA InitKeeps == ContentsInit => ContentInv
  <1> SUFFICES ASSUME ContentsInit
               PROVE  ContentInv
    OBVIOUS
  <1>1. PICK b \in Bodies :
          objects = [k \in Keys |-> [status |-> "absent", body |-> b, expired |-> FALSE,
                                     wasCommitted |-> FALSE]]
    BY DEF ContentsInit
  <1>2. /\ blobs = {} /\ references = {} /\ uploads = <<>> /\ commits = {}
        /\ collectors = [p \in Processes |-> Idle] /\ disowned = {}
    BY DEF ContentsInit
  <1>3. DOMAIN uploads = {}
    BY <1>2
  <1>4. /\ objects \in [Keys -> Objects]
        /\ \A k \in Keys : objects[k].status = "absent"
    BY <1>1 DEF Objects, Statuses
  <1>5. ContentsTypeOK
    BY <1>2, <1>3, <1>4, IdleIsACollector DEF ContentsTypeOK
  <1>6. \A k \in Keys : ~Referenced(k)
    BY <1>2 DEF Referenced
  <1>7. LiveIsStored /\ ReferencedIsHeld /\ UploadsAreApart
    BY <1>3, <1>4, <1>6 DEF LiveIsStored, ReferencedIsHeld, UploadsAreApart
  <1>8. DisposedIsFree
    BY <1>2, IdleIsACollector DEF DisposedIsFree
  <1> QED
    BY <1>5, <1>7, <1>8 DEF ContentInv

LEMMA ContentInvariant == ContentsSpec => []ContentInv
  BY InitKeeps, StepKeeps, PTL DEF ContentsSpec

\* Rows, blobs, references, uploads and collectors keep their types, the times of a
\* row agree with its status, and a collector has one object in hand exactly while
\* it deletes or marks it, for any keys, processes and holders.
THEOREM ContentsTyped == ContentsSpec => []ContentsTypeOK
  BY ContentInvariant, PTL DEF ContentInv

\* What is referenced or committed keeps its blob (unless the uploader itself took
\* it back), however many collectors work from stale snapshots side by side,
\* fail between their calls or die.  The confirmation after the claim is what it
\* rests on: nothing that is referenced is ever in a collector's hand.
THEOREM ReferencesKeepTheirBlobs == ContentsSpec => []ReferencedIsStored
  <1>1. ContentInv => ReferencedIsStored
    BY DEF ContentInv, LiveIsStored, ReferencedIsHeld, ReferencedIsStored
  <1> QED
    BY <1>1, ContentInvariant, PTL

=============================================================================
