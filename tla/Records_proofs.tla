--------------------------- MODULE Records_proofs -----------------------------
(*****************************************************************************)
(* Theorems about what rows say of the bucket and of other rows, for any set *)
(* of files, projects, issues, comments, entries and of requests: Files,     *)
(* Naming, Creation and Journal.                                             *)
(*****************************************************************************)
EXTENDS Files, Naming, Creation, Journal, TLAPS

-----------------------------------------------------------------------------
(* Files *)

Uploading == {"put", "commit"}

Has(r, f) == f \in upload[r].todo \cup upload[r].done

(* The files of an upload are its own until its rows are inserted, and     *)
(* what it says it has stored is stored.                                   *)
UploadsApart ==
    \A r \in FileRequest :
        upload[r].pc \in Uploading =>
            /\ upload[r].done \subseteq stored
            /\ upload[r].todo \cap stored = {}
            /\ \A f \in File :
                  Has(r, f) => /\ attached[f] = "UNUSED"
                               /\ \A q \in FileRequest \ {r} : ~Has(q, f)

(* A file that is about to be removed has no row, unless its transaction   *)
(* was taken for failed; only an upload has files to store.                *)
RemovalsApart ==
    \A r \in FileRequest :
        /\ upload[r].pc = "cleanup" =>
              \A f \in upload[r].done : Attached(f) => f \in unanswered
        /\ upload[r].pc # "put" => upload[r].todo = {}
        /\ upload[r].pc = "idle" => upload[r].done = {}

FilesInv ==
    FilesTypeOK /\ UploadsApart /\ RemovalsApart /\ RowsHaveFiles /\ OrphansExplained

-----------------------------------------------------------------------------
LEMMA NoUploadTyped ==
    /\ NoUpload \in UploadRecord /\ NoUpload.pc = "idle"
    /\ NoUpload.todo = {} /\ NoUpload.done = {}
BY DEF NoUpload, UploadRecord

LEMMA HandsAre ==
    ASSUME NEW f
    PROVE  f \in InHand <=> \E r \in FileRequest : Has(r, f)
BY DEF InHand, Has

LEMMA UploadTyped ==
    ASSUME FilesTypeOK, NEW r \in FileRequest
    PROVE  /\ upload[r].pc \in {"idle", "put", "commit", "cleanup"}
           /\ upload[r].todo \in SUBSET File /\ upload[r].done \in SUBSET File
BY DEF FilesTypeOK, UploadRecord

LEMMA FilesInvInit == FilesInit => FilesInv
BY NoUploadTyped
   DEF FilesInit, FilesInv, FilesTypeOK, UploadsApart, RemovalsApart, RowsHaveFiles,
       OrphansExplained, Attached, Uploading

(* The record of one request changes: what has to be shown of the others.  *)
LEMMA RecordChange ==
    ASSUME FilesTypeOK, NEW r \in FileRequest, NEW rec \in UploadRecord,
           upload' = [upload EXCEPT ![r] = rec]
    PROVE  /\ upload' \in [FileRequest -> UploadRecord] /\ upload'[r] = rec
           /\ \A q \in FileRequest \ {r} : upload'[q] = upload[q]
           /\ \A f : Has(r, f)' <=> f \in rec.todo \cup rec.done
           /\ \A q \in FileRequest \ {r} : \A f : Has(q, f)' <=> Has(q, f)
BY DEF FilesTypeOK, Has

LEMMA UploadStartKeeps ==
    ASSUME FilesInv, NEW r \in FileRequest, UploadStart(r)
    PROVE  FilesInv'
<1>1. PICK batch \in SUBSET {f \in File : FreshFile(f)} :
         /\ upload[r].pc = "idle"
         /\ upload' = [upload EXCEPT ![r] = [pc |-> "put", todo |-> batch, done |-> {}]]
         /\ UNCHANGED <<stored, attached, issueThere, leaked, unanswered>>
  BY DEF UploadStart
<1> DEFINE rec == [pc |-> "put", todo |-> batch, done |-> {}]
<1>2. rec \in UploadRecord /\ rec.pc = "put" /\ rec.todo = batch /\ rec.done = {}
  BY DEF UploadRecord
<1>3. upload' = [upload EXCEPT ![r] = rec]
  BY <1>1
<1> HIDE DEF rec
<1>4. /\ upload' \in [FileRequest -> UploadRecord] /\ upload'[r] = rec
      /\ \A q \in FileRequest \ {r} : upload'[q] = upload[q]
      /\ \A f : Has(r, f)' <=> f \in batch
      /\ \A q \in FileRequest \ {r} : \A f : Has(q, f)' <=> Has(q, f)
  BY <1>2, <1>3, RecordChange DEF FilesInv
<1>5. \A f \in batch : /\ f \in File /\ attached[f] = "UNUSED" /\ f \notin stored
                       /\ \A q \in FileRequest : ~Has(q, f)
  BY HandsAre DEF FreshFile
<1>6. UploadsApart'
  BY <1>1, <1>2, <1>4, <1>5 DEF FilesInv, UploadsApart, Uploading
<1>7. RemovalsApart'
  BY <1>1, <1>2, <1>4 DEF FilesInv, RemovalsApart, Attached
<1>8. \A f : ~Has(r, f)
  BY <1>1 DEF FilesInv, RemovalsApart, Has
<1>9. OrphansExplained'
  BY <1>1, <1>4, <1>8, HandsAre DEF FilesInv, OrphansExplained, Attached, InHand, Has
<1>10. FilesTypeOK' /\ RowsHaveFiles'
  BY <1>1, <1>4 DEF FilesInv, FilesTypeOK, RowsHaveFiles, Attached
<1> QED
  BY <1>6, <1>7, <1>9, <1>10 DEF FilesInv

(* The files in hand after a change of one record.                         *)
LEMMA HandsChange ==
    ASSUME FilesTypeOK, NEW r \in FileRequest, NEW rec \in UploadRecord,
           upload' = [upload EXCEPT ![r] = rec], NEW f, f \in InHand,
           Has(r, f) => f \in rec.todo \cup rec.done
    PROVE  f \in InHand'
<1>1. PICK q \in FileRequest : Has(q, f)
  BY HandsAre
<1>2. Has(q, f)'
  BY <1>1, RecordChange
<1> QED
  BY <1>2 DEF InHand, Has

LEMMA PutKeeps ==
    ASSUME FilesInv, NEW r \in FileRequest, Put(r)
    PROVE  FilesInv'
<1>1. PICK f \in upload[r].todo :
         /\ upload[r].pc = "put"
         /\ stored' = stored \cup {f}
         /\ upload' = [upload EXCEPT
                          ![r].todo = @ \ {f},
                          ![r].done = @ \cup {f},
                          ![r].pc = IF upload[r].todo = {f} THEN "commit" ELSE "put"]
         /\ UNCHANGED <<attached, issueThere, leaked, unanswered>>
  BY DEF Put
<1> DEFINE pc1 == IF upload[r].todo = {f} THEN "commit" ELSE "put"
           rec == [upload[r] EXCEPT !.todo = upload[r].todo \ {f},
                                    !.done = upload[r].done \cup {f}, !.pc = pc1]
<1>2. f \in File /\ upload[r].todo \in SUBSET File /\ upload[r].done \in SUBSET File
  BY UploadTyped DEF FilesInv
<1>3. rec \in UploadRecord /\ rec.pc \in Uploading /\ rec.todo = upload[r].todo \ {f}
      /\ rec.done = upload[r].done \cup {f} /\ (rec.pc # "put" => rec.todo = {})
  BY <1>1, <1>2 DEF FilesInv, FilesTypeOK, UploadRecord, Uploading
<1>4. upload' = [upload EXCEPT ![r] = rec]
  BY <1>1
<1> HIDE DEF rec
<1>5. /\ upload' \in [FileRequest -> UploadRecord] /\ upload'[r] = rec
      /\ \A q \in FileRequest \ {r} : upload'[q] = upload[q]
      /\ \A g : Has(r, g)' <=> Has(r, g)
      /\ \A q \in FileRequest \ {r} : \A g : Has(q, g)' <=> Has(q, g)
  <2>1. /\ upload' \in [FileRequest -> UploadRecord] /\ upload'[r] = rec
        /\ \A q \in FileRequest \ {r} : upload'[q] = upload[q]
        /\ \A g : Has(r, g)' <=> g \in rec.todo \cup rec.done
        /\ \A q \in FileRequest \ {r} : \A g : Has(q, g)' <=> Has(q, g)
    <3>1. FilesTypeOK
      BY DEF FilesInv
    <3> QED
      BY <1>3, <1>4, <3>1, RecordChange
  <2>2. \A g : g \in rec.todo \cup rec.done <=> Has(r, g)
    BY <1>1, <1>3 DEF Has
  <2> QED
    BY <2>1, <2>2
<1>6. /\ attached[f] = "UNUSED" /\ \A q \in FileRequest \ {r} : ~Has(q, f)
      /\ upload[r].done \subseteq stored /\ upload[r].todo \cap stored = {}
  BY <1>1, <1>2 DEF FilesInv, UploadsApart, Uploading, Has
<1>7. UploadsApart'
  <2>1. ASSUME NEW q \in FileRequest \ {r}, upload'[q].pc \in Uploading
        PROVE  upload'[q].done \subseteq stored' /\ upload'[q].todo \cap stored' = {}
    <3>1. upload'[q] = upload[q] /\ f \notin upload[q].todo
      BY <1>5, <1>6 DEF Has
    <3>2. upload[q].done \subseteq stored /\ upload[q].todo \cap stored = {}
      BY <2>1, <3>1 DEF FilesInv, UploadsApart
    <3> QED
      BY <1>1, <3>1, <3>2
  <2>2. upload'[r].done \subseteq stored' /\ upload'[r].todo \cap stored' = {}
    BY <1>1, <1>3, <1>5, <1>6
  <2>3. ASSUME NEW q \in FileRequest, upload'[q].pc \in Uploading PROVE upload[q].pc \in Uploading
    BY <1>1, <1>5, <2>3 DEF Uploading
  <2> QED
    BY <1>1, <1>5, <2>1, <2>2, <2>3 DEF FilesInv, UploadsApart
<1>8. RemovalsApart'
  BY <1>1, <1>3, <1>5 DEF FilesInv, RemovalsApart, Attached, Uploading
<1>9. OrphansExplained'
  <2>1. f \in InHand' /\ \A g : g \in InHand => g \in InHand'
    BY <1>1, <1>5, HandsAre DEF InHand, Has
  <2> QED
    BY <1>1, <2>1 DEF FilesInv, OrphansExplained, Attached
<1>10. FilesTypeOK' /\ RowsHaveFiles'
  BY <1>1, <1>2, <1>5 DEF FilesInv, FilesTypeOK, RowsHaveFiles, Attached
<1> QED
  BY <1>7, <1>8, <1>9, <1>10 DEF FilesInv

LEMMA PutFailsKeeps ==
    ASSUME FilesInv, NEW r \in FileRequest, PutFails(r)
    PROVE  FilesInv'
<1>1. PICK f \in upload[r].todo, landed \in BOOLEAN :
         /\ upload[r].pc = "put"
         /\ stored' = IF landed THEN stored \cup {f} ELSE stored
         /\ leaked' = IF landed THEN leaked \cup {f} ELSE leaked
         /\ upload' = [upload EXCEPT ![r].todo = {},
                                     ![r].pc = IF upload[r].done = {} THEN "idle" ELSE "cleanup"]
         /\ UNCHANGED <<attached, issueThere, unanswered>>
  BY DEF PutFails
<1> DEFINE pc1 == IF upload[r].done = {} THEN "idle" ELSE "cleanup"
           rec == [pc |-> pc1, todo |-> {}, done |-> upload[r].done]
<1>2. f \in File /\ upload[r].todo \in SUBSET File /\ upload[r].done \in SUBSET File
  BY UploadTyped DEF FilesInv
<1>3. rec \in UploadRecord /\ rec.pc \notin Uploading /\ rec.todo = {}
      /\ rec.done = upload[r].done /\ (rec.pc = "idle" => rec.done = {})
  BY <1>2 DEF UploadRecord, Uploading
<1>4. upload' = [upload EXCEPT ![r] = rec]
  BY <1>1 DEF FilesInv, FilesTypeOK, UploadRecord
<1> HIDE DEF rec
<1>5. /\ upload' \in [FileRequest -> UploadRecord] /\ upload'[r] = rec
      /\ \A q \in FileRequest \ {r} : upload'[q] = upload[q]
      /\ \A g : Has(r, g)' => Has(r, g)
      /\ \A q \in FileRequest \ {r} : \A g : Has(q, g)' <=> Has(q, g)
  BY <1>1, <1>2, <1>3, <1>4, RecordChange DEF FilesInv, Has
<1>6. /\ \A g \in File : Has(r, g) =>
            attached[g] = "UNUSED" /\ \A q \in FileRequest \ {r} : ~Has(q, g)
      /\ upload[r].todo \cap stored = {} /\ Has(r, f)
  BY <1>1, <1>2 DEF FilesInv, UploadsApart, Uploading, Has
<1>7. UploadsApart'
  <2>1. ASSUME NEW q \in FileRequest, upload'[q].pc \in Uploading
        PROVE  q # r /\ upload'[q] = upload[q] /\ ~Has(q, f)
    BY <1>2, <1>3, <1>5, <1>6, <2>1
  <2>2. ASSUME NEW q \in FileRequest, upload'[q].pc \in Uploading
        PROVE  upload'[q].done \subseteq stored' /\ upload'[q].todo \cap stored' = {}
    <3>1. upload[q].done \subseteq stored /\ upload[q].todo \cap stored = {}
      BY <2>1, <2>2 DEF FilesInv, UploadsApart
    <3>2. f \notin upload[q].todo \cup upload[q].done
      BY <2>1, <2>2 DEF Has
    <3>3. stored' = stored \/ stored' = stored \cup {f}
      BY <1>1
    <3> QED
      BY <2>1, <2>2, <3>1, <3>2, <3>3
  <2>3. ASSUME NEW q \in FileRequest, upload'[q].pc \in Uploading, NEW g \in File, Has(q, g)'
        PROVE  attached[g] = "UNUSED" /\ \A b \in FileRequest \ {q} : ~Has(b, g)
    BY <1>5, <2>1, <2>3 DEF FilesInv, UploadsApart
  <2>4. ASSUME NEW q \in FileRequest, upload'[q].pc \in Uploading, NEW g \in File, Has(q, g)'
        PROVE  attached'[g] = "UNUSED" /\ \A b \in FileRequest \ {q} : ~Has(b, g)'
    BY <1>1, <1>5, <2>3, <2>4
  <2> QED
    BY <2>2, <2>4 DEF UploadsApart
<1>8. RemovalsApart'
  <2>1. \A g \in rec.done : attached[g] = "UNUSED"
    BY <1>2, <1>3, <1>6 DEF Has
  <2> QED
    BY <1>1, <1>3, <1>5, <2>1 DEF FilesInv, RemovalsApart, Attached, Uploading
<1>9. OrphansExplained'
  <2> SUFFICES ASSUME NEW g \in stored', ~Attached(g), g \notin leaked' PROVE g \in InHand'
    BY <1>1 DEF OrphansExplained, Attached
  <2>1. g \in stored /\ g \in InHand
    BY <1>1 DEF FilesInv, OrphansExplained
  <2>2. Has(r, g) => g \in rec.todo \cup rec.done
    BY <1>3, <1>6, <2>1 DEF Has
  <2> QED
    BY <1>3, <1>4, <2>1, <2>2, HandsChange DEF FilesInv
<1>10. FilesTypeOK' /\ RowsHaveFiles'
  BY <1>1, <1>2, <1>5 DEF FilesInv, FilesTypeOK, RowsHaveFiles, Attached
<1> QED
  BY <1>7, <1>8, <1>9, <1>10 DEF FilesInv

(* The rows of an upload are inserted, and it is done or goes on to remove *)
(* the files it takes for lost.                                            *)
LEMMA CommitKeeps ==
    ASSUME FilesInv, NEW r \in FileRequest, Commit(r) \/ CommitUnanswered(r)
    PROVE  FilesInv'
<1> DEFINE rec == upload'[r]
<1>1. /\ upload[r].pc = "commit" /\ UNCHANGED <<stored, issueThere, leaked>>
      /\ attached' = [f \in File |-> IF f \in upload[r].done THEN "LIVE" ELSE attached[f]]
      /\ unanswered \subseteq unanswered' /\ unanswered' \in SUBSET File
  BY UploadTyped DEF Commit, CommitUnanswered, FilesInv, FilesTypeOK
<1>2. /\ rec \in UploadRecord /\ rec.pc \notin Uploading /\ rec.todo = {}
      /\ rec.pc = "cleanup" => rec.done \subseteq unanswered' /\ rec.done = upload[r].done
      /\ rec.pc # "cleanup" => rec.done = {}
      /\ upload' = [upload EXCEPT ![r] = rec]
  <2>1. CASE Commit(r)
    BY <2>1, NoUploadTyped DEF Commit, FilesInv, FilesTypeOK, Uploading
  <2>2. CASE CommitUnanswered(r)
    <3>1. /\ unanswered' = unanswered \cup upload[r].done
          /\ upload' = [upload EXCEPT ![r].pc = "cleanup"] /\ upload[r].todo = {}
      BY <2>2 DEF CommitUnanswered, FilesInv, RemovalsApart
    <3>2. rec = [upload[r] EXCEPT !.pc = "cleanup"] /\ upload' = [upload EXCEPT ![r] = rec]
      BY <3>1 DEF FilesInv, FilesTypeOK
    <3> QED
      BY <3>1, <3>2 DEF FilesInv, FilesTypeOK, UploadRecord, Uploading
  <2> QED
    BY <2>1, <2>2
<1> HIDE DEF rec
<1>3. /\ upload' \in [FileRequest -> UploadRecord] /\ upload'[r] = rec
      /\ \A q \in FileRequest \ {r} : upload'[q] = upload[q]
      /\ \A q \in FileRequest \ {r} : \A g : Has(q, g)' <=> Has(q, g)
  BY <1>2, RecordChange DEF FilesInv
<1>4. /\ upload[r].done \subseteq stored /\ upload[r].todo = {} /\ upload[r].done \subseteq File
      /\ \A f \in upload[r].done : \A q \in FileRequest \ {r} : ~Has(q, f)
  BY <1>1, UploadTyped DEF FilesInv, UploadsApart, RemovalsApart, Uploading, Has
<1>5. \A f \in File : /\ f \in upload[r].done => attached'[f] = "LIVE"
                      /\ f \notin upload[r].done => attached'[f] = attached[f]
  BY <1>1
<1>6. UploadsApart'
  <2>1. ASSUME NEW q \in FileRequest, upload'[q].pc \in Uploading
        PROVE  /\ q # r /\ upload'[q] = upload[q] /\ upload[q].pc \in Uploading
               /\ \A f \in File : Has(q, f) => f \notin upload[r].done /\ ~Has(r, f)
    BY <1>2, <1>3, <1>4, <2>1 DEF FilesInv, UploadsApart
  <2>2. \A f : Has(r, f)' => f \in upload[r].done
    BY <1>2, <1>3 DEF Has
  <2> QED
    BY <1>1, <1>3, <1>5, <2>1, <2>2 DEF FilesInv, UploadsApart, Has
<1>7. RemovalsApart'
  <2>1. ASSUME NEW q \in FileRequest \ {r}, NEW f \in upload[q].done
        PROVE  f \in File /\ (attached'[f] = "LIVE" => Attached(f))
    BY <1>4, <1>5, UploadTyped DEF FilesInv, Has, Attached
  <2> QED
    BY <1>1, <1>2, <1>3, <2>1 DEF FilesInv, RemovalsApart, Attached, Uploading
<1>8. OrphansExplained'
  <2> SUFFICES ASSUME NEW g \in stored, attached'[g] # "LIVE", g \notin leaked PROVE g \in InHand'
    BY <1>1 DEF OrphansExplained, Attached
  <2>1. g \in File /\ g \notin upload[r].done /\ ~Attached(g)
    BY <1>5 DEF FilesInv, FilesTypeOK, Attached
  <2>2. g \in InHand /\ ~Has(r, g)
    BY <1>4, <2>1 DEF FilesInv, OrphansExplained, Has
  <2> QED
    BY <1>2, <2>2, HandsChange DEF FilesInv
<1>9. FilesTypeOK' /\ RowsHaveFiles'
  BY <1>1, <1>3, <1>4, <1>5 DEF FilesInv, FilesTypeOK, RowsHaveFiles, Attached
<1> QED
  BY <1>6, <1>7, <1>8, <1>9 DEF FilesInv

LEMMA CommitFailsKeeps ==
    ASSUME FilesInv, NEW r \in FileRequest, CommitFails(r)
    PROVE  FilesInv'
<1> DEFINE rec == [upload[r] EXCEPT !.pc = "cleanup"]
<1>1. /\ rec \in UploadRecord /\ rec.pc \notin Uploading /\ rec.pc # "idle" /\ rec.pc # "put"
      /\ rec.todo = upload[r].todo /\ rec.done = upload[r].done
      /\ rec.todo = {} /\ upload[r].pc = "commit"
  BY DEF CommitFails, FilesInv, FilesTypeOK, UploadRecord, Uploading, RemovalsApart
<1>2. /\ upload' = [upload EXCEPT ![r] = rec]
      /\ UNCHANGED <<stored, attached, issueThere, leaked, unanswered>>
  BY DEF CommitFails, FilesInv, FilesTypeOK
<1> HIDE DEF rec
<1>0. FilesTypeOK
  BY DEF FilesInv
<1>3. /\ upload' \in [FileRequest -> UploadRecord] /\ upload'[r] = rec
      /\ \A q \in FileRequest \ {r} : upload'[q] = upload[q]
      /\ \A q \in FileRequest : \A g : Has(q, g)' <=> Has(q, g)
  <2>1. /\ upload' \in [FileRequest -> UploadRecord] /\ upload'[r] = rec
        /\ \A q \in FileRequest \ {r} : upload'[q] = upload[q]
        /\ \A g : Has(r, g)' <=> g \in rec.todo \cup rec.done
        /\ \A q \in FileRequest \ {r} : \A g : Has(q, g)' <=> Has(q, g)
    BY <1>0, <1>1, <1>2, RecordChange
  <2>2. \A g : Has(r, g) <=> g \in rec.todo \cup rec.done
    BY <1>1 DEF Has
  <2> QED
    BY <2>1, <2>2
<1>4. UploadsApart'
  BY <1>1, <1>2, <1>3 DEF FilesInv, UploadsApart
<1>5. \A f \in upload[r].done : ~Attached(f)
  BY <1>1, UploadTyped DEF FilesInv, UploadsApart, Uploading, Has, Attached
<1>6. RemovalsApart'
  BY <1>1, <1>2, <1>3, <1>5 DEF FilesInv, RemovalsApart, Attached
<1>7. \A f : f \in InHand => f \in InHand'
  BY <1>1, <1>2, HandsChange DEF FilesInv, Has
<1>8. OrphansExplained'
  BY <1>2, <1>7 DEF FilesInv, OrphansExplained, Attached
<1>9. FilesTypeOK' /\ RowsHaveFiles'
  BY <1>2, <1>3 DEF FilesInv, FilesTypeOK, RowsHaveFiles, Attached
<1> QED
  BY <1>4, <1>6, <1>8, <1>9 DEF FilesInv

(* A file whose row goes is in the hand of the delete.                     *)
LEMMA DeleteAttachmentKeeps ==
    ASSUME FilesInv, NEW r \in FileRequest, NEW f \in File, DeleteAttachment(r, f)
    PROVE  FilesInv'
<1> DEFINE rec == [NoUpload EXCEPT !.pc = "cleanup", !.done = {f}]
<1>1. rec \in UploadRecord /\ rec.pc = "cleanup" /\ rec.todo = {} /\ rec.done = {f}
  BY DEF NoUpload, UploadRecord
<1>2. /\ upload' = [upload EXCEPT ![r] = rec] /\ upload[r].pc = "idle" /\ Attached(f)
      /\ attached' = [attached EXCEPT ![f] = "GONE"]
      /\ UNCHANGED <<stored, issueThere, leaked, unanswered>>
  BY DEF DeleteAttachment
<1> HIDE DEF rec
<1>3. /\ upload' \in [FileRequest -> UploadRecord] /\ upload'[r] = rec
      /\ \A q \in FileRequest \ {r} : upload'[q] = upload[q]
      /\ \A q \in FileRequest \ {r} : \A g : Has(q, g)' <=> Has(q, g)
  BY <1>1, <1>2, RecordChange DEF FilesInv
<1>4. /\ attached'[f] = "GONE" /\ \A g \in File \ {f} : attached'[g] = attached[g]
      /\ attached' \in [File -> {"UNUSED", "LIVE", "GONE"}]
  BY <1>2 DEF FilesInv, FilesTypeOK
<1>5. UploadsApart'
  <2>1. ASSUME NEW q \in FileRequest, upload'[q].pc \in Uploading
        PROVE  q # r /\ upload'[q] = upload[q] /\ ~Has(q, f)
    BY <1>1, <1>2, <1>3, <2>1 DEF FilesInv, UploadsApart, Attached, Uploading
  <2>2. \A g : Has(r, g)' => g = f
    BY <1>1, <1>3 DEF Has
  <2>3. ASSUME NEW q \in FileRequest, upload'[q].pc \in Uploading, NEW g \in File, Has(q, g)'
        PROVE  /\ g # f /\ attached[g] = "UNUSED"
               /\ \A b \in FileRequest \ {q} : ~Has(b, g)
    BY <1>3, <2>1, <2>3 DEF FilesInv, UploadsApart
  <2>4. ASSUME NEW q \in FileRequest, upload'[q].pc \in Uploading, NEW g \in File, Has(q, g)'
        PROVE  attached'[g] = "UNUSED" /\ \A b \in FileRequest \ {q} : ~Has(b, g)'
    BY <1>3, <1>4, <2>2, <2>3, <2>4
  <2>5. ASSUME NEW q \in FileRequest, upload'[q].pc \in Uploading
        PROVE  upload'[q].done \subseteq stored' /\ upload'[q].todo \cap stored' = {}
    BY <1>2, <2>1, <2>5 DEF FilesInv, UploadsApart
  <2> QED
    BY <2>4, <2>5 DEF UploadsApart
<1>6. RemovalsApart'
  <2>1. \A g \in File : attached'[g] = "LIVE" => Attached(g)
    BY <1>4 DEF Attached
  <2>2. \A q \in FileRequest : upload[q].done \subseteq File
    BY UploadTyped DEF FilesInv
  <2> QED
    BY <1>1, <1>2, <1>3, <1>4, <2>1, <2>2 DEF FilesInv, RemovalsApart, Attached
<1>7. OrphansExplained'
  <2>1. f \in InHand'
    BY <1>1, <1>3 DEF InHand
  <2>2. \A g : ~Has(r, g)
    BY <1>2 DEF FilesInv, RemovalsApart, Has
  <2>3. \A g : g \in InHand => g \in InHand'
    BY <1>1, <1>2, <2>2, HandsChange DEF FilesInv
  <2> QED
    BY <1>2, <1>4, <2>1, <2>3 DEF FilesInv, FilesTypeOK, OrphansExplained, Attached
<1>8. FilesTypeOK' /\ RowsHaveFiles'
  BY <1>2, <1>3, <1>4 DEF FilesInv, FilesTypeOK, RowsHaveFiles, Attached
<1> QED
  BY <1>5, <1>6, <1>7, <1>8 DEF FilesInv

LEMMA RemoveFileKeeps ==
    ASSUME FilesInv, NEW r \in FileRequest, RemoveFile(r)
    PROVE  FilesInv'
<1>1. PICK f \in upload[r].done, failed \in BOOLEAN :
        /\ upload[r].pc = "cleanup"
        /\ stored' = IF failed THEN stored ELSE stored \ {f}
        /\ leaked' = IF failed THEN leaked \cup {f} ELSE leaked
        /\ upload' = [upload EXCEPT ![r] = IF upload[r].done = {f} THEN NoUpload
                         ELSE [NoUpload EXCEPT !.pc = "cleanup", !.done = upload[r].done \ {f}]]
        /\ UNCHANGED <<attached, issueThere, unanswered>>
  BY DEF RemoveFile
<1> DEFINE rec == IF upload[r].done = {f} THEN NoUpload
                  ELSE [NoUpload EXCEPT !.pc = "cleanup", !.done = upload[r].done \ {f}]
<1>2. upload[r] \in UploadRecord /\ f \in File /\ upload[r].todo = {} /\ upload[r].done \subseteq File
  BY <1>1, UploadTyped DEF FilesInv, FilesTypeOK, RemovalsApart
<1>3. /\ rec \in UploadRecord /\ rec.pc \in {"idle", "cleanup"} /\ rec.todo = {}
      /\ rec.done = upload[r].done \ {f} /\ (rec.pc = "idle" => rec.done = {})
  <2>1. CASE upload[r].done = {f}
    BY <2>1, NoUploadTyped
  <2>2. CASE upload[r].done # {f}
    BY <1>1, <1>2, <2>2 DEF UploadRecord, NoUpload
  <2> QED
    BY <2>1, <2>2
<1>4. upload' = [upload EXCEPT ![r] = rec]
  BY <1>1
<1> HIDE DEF rec
<1>5. /\ upload' \in [FileRequest -> UploadRecord] /\ upload'[r] = rec
      /\ \A q \in FileRequest \ {r} : upload'[q] = upload[q]
      /\ \A g : Has(r, g)' <=> g \in upload[r].done \ {f}
      /\ \A q \in FileRequest \ {r} : \A g : Has(q, g)' <=> Has(q, g)
  BY <1>3, <1>4, RecordChange DEF FilesInv
<1>6. Has(r, f) /\ (Attached(f) => f \in unanswered)
  BY <1>1 DEF FilesInv, RemovalsApart, Has
<1>7. UploadsApart'
  <2>1. ASSUME NEW q \in FileRequest, upload'[q].pc \in Uploading
        PROVE  q # r /\ upload'[q] = upload[q] /\ ~Has(q, f)
    BY <1>2, <1>3, <1>5, <1>6, <2>1 DEF FilesInv, UploadsApart, Uploading
  <2>2. ASSUME NEW q \in FileRequest, upload'[q].pc \in Uploading
        PROVE  upload'[q].done \subseteq stored' /\ upload'[q].todo \cap stored' = {}
    BY <1>1, <2>1, <2>2 DEF FilesInv, UploadsApart, Has
  <2>3. \A g : Has(r, g)' => Has(r, g)
    BY <1>5 DEF Has
  <2> QED
    BY <1>1, <1>5, <2>1, <2>2, <2>3 DEF FilesInv, UploadsApart
<1>8. RemovalsApart'
  BY <1>1, <1>3, <1>5 DEF FilesInv, RemovalsApart, Attached
<1>9. OrphansExplained'
  <2> SUFFICES ASSUME NEW g \in stored', ~Attached(g), g \notin leaked' PROVE g \in InHand'
    BY <1>1 DEF OrphansExplained, Attached
  <2>1. g \in stored /\ g \in InHand /\ g # f
    BY <1>1 DEF FilesInv, OrphansExplained
  <2>2. Has(r, g) => g \in rec.todo \cup rec.done
    BY <1>2, <1>3, <2>1 DEF Has
  <2> QED
    BY <1>3, <1>4, <2>1, <2>2, HandsChange DEF FilesInv
<1>10. FilesTypeOK'
  BY <1>1, <1>2, <1>5 DEF FilesInv, FilesTypeOK
<1>11. RowsHaveFiles'
  BY <1>1, <1>6 DEF FilesInv, RowsHaveFiles, Attached
<1> QED
  BY <1>7, <1>8, <1>9, <1>10, <1>11 DEF FilesInv

LEMMA FileRequestDiesKeeps ==
    ASSUME FilesInv, NEW r \in FileRequest, FileRequestDies(r)
    PROVE  FilesInv'
<1>1. /\ upload' = [upload EXCEPT ![r] = NoUpload]
      /\ leaked' = leaked \cup upload[r].done \cup upload[r].todo
      /\ UNCHANGED <<stored, attached, issueThere, unanswered>>
  BY DEF FileRequestDies
<1>2. /\ upload' \in [FileRequest -> UploadRecord] /\ upload'[r] = NoUpload
      /\ \A q \in FileRequest \ {r} : upload'[q] = upload[q]
      /\ \A g : ~Has(r, g)'
      /\ \A q \in FileRequest \ {r} : \A g : Has(q, g)' <=> Has(q, g)
  BY <1>1, RecordChange, NoUploadTyped DEF FilesInv
<1>3. UploadsApart'
  BY <1>1, <1>2, NoUploadTyped DEF FilesInv, UploadsApart, Uploading
<1>4. RemovalsApart'
  BY <1>1, <1>2, NoUploadTyped DEF FilesInv, RemovalsApart, Attached
<1>5. OrphansExplained'
  <2> SUFFICES ASSUME NEW g \in stored, ~Attached(g), g \notin leaked' PROVE g \in InHand'
    BY <1>1 DEF OrphansExplained, Attached
  <2>1. g \in InHand /\ ~Has(r, g)
    BY <1>1 DEF FilesInv, OrphansExplained, Has
  <2> QED
    BY <1>1, <2>1, HandsChange, NoUploadTyped DEF FilesInv
<1>6. FilesTypeOK' /\ RowsHaveFiles'
  BY <1>1, <1>2, UploadTyped DEF FilesInv, FilesTypeOK, RowsHaveFiles, Attached
<1> QED
  BY <1>3, <1>4, <1>5, <1>6 DEF FilesInv

LEMMA DeleteIssueKeeps ==
    ASSUME FilesInv, DeleteIssue
    PROVE  FilesInv'
<1>1. /\ \A f \in File : IF Attached(f) THEN attached'[f] = "GONE" ELSE attached'[f] = attached[f]
      /\ attached' \in [File -> {"UNUSED", "LIVE", "GONE"}]
      /\ leaked' = leaked \cup {f \in File : Attached(f)}
      /\ issueThere' \in BOOLEAN /\ UNCHANGED <<stored, upload, unanswered>>
  BY DEF DeleteIssue, FilesInv, FilesTypeOK
<1>2. UploadsApart'
  BY <1>1 DEF FilesInv, UploadsApart, Has, Attached
<1>3. \A q \in FileRequest : upload[q].done \subseteq File
  BY UploadTyped DEF FilesInv
<1>4. RemovalsApart'
  BY <1>1, <1>3 DEF FilesInv, RemovalsApart, Attached
<1>5. OrphansExplained'
  BY <1>1 DEF FilesInv, FilesTypeOK, OrphansExplained, Attached, InHand
<1>6. FilesTypeOK' /\ RowsHaveFiles'
  BY <1>1 DEF FilesInv, FilesTypeOK, RowsHaveFiles, Attached
<1> QED
  BY <1>2, <1>4, <1>5, <1>6 DEF FilesInv

LEMMA FilesInductive == FilesInv /\ [FilesNext]_filesVars => FilesInv'
<1> SUFFICES ASSUME FilesInv, [FilesNext]_filesVars PROVE FilesInv'
  OBVIOUS
<1>1. CASE UNCHANGED filesVars
  BY <1>1 DEF filesVars, FilesInv, FilesTypeOK, UploadsApart, RemovalsApart, RowsHaveFiles,
              OrphansExplained, Attached, Has, InHand
<1>2. CASE FilesNext
  BY <1>2, UploadStartKeeps, PutKeeps, PutFailsKeeps, CommitKeeps, CommitFailsKeeps,
     DeleteAttachmentKeeps, RemoveFileKeeps, FileRequestDiesKeeps, DeleteIssueKeeps
     DEF FilesNext
<1> QED
  BY <1>1, <1>2

LEMMA FilesInvHolds == FilesSpec => []FilesInv
BY FilesInvInit, FilesInductive, PTL DEF FilesSpec

(* An attachment that is listed can be opened, unless the transaction that *)
(* inserted it was reported as failed after it had committed: for any      *)
(* number of overlapping uploads and deletes that may stop anywhere.       *)
THEOREM RowsSafety == FilesSpec => []RowsHaveFiles
<1>1. FilesInv => RowsHaveFiles
  BY DEF FilesInv
<1> QED
  BY <1>1, FilesInvHolds, PTL

(* No file stays in the bucket without a row, unless a request has it in   *)
(* hand, its removal failed or was cut short, or it went with its issue.   *)
THEOREM OrphansSafety == FilesSpec => []OrphansExplained
<1>1. FilesInv => OrphansExplained
  BY DEF FilesInv
<1> QED
  BY <1>1, FilesInvHolds, PTL

-----------------------------------------------------------------------------
(* Names and numbers.  No issue has a number its project's counter has not *)
(* reached, the row of a project outlives its issues, and two creates do   *)
(* not work for one row.                                                   *)

NumbersCounted ==
    \A i \in Issue :
        issue[i].row # "UNUSED" =>
            /\ entry[issue[i].project].row # "UNUSED"
            /\ issue[i].number <= entry[issue[i].project].issueCounter

CreatesApart ==
    \A r \in Creator :
        creator[r].pc = "create" =>
            /\ entry[creator[r].entry].row = "UNUSED"
            /\ \A q \in Creator \ {r} :
                  creator[q].pc = "create" => creator[q].entry # creator[r].entry

NamingInv ==
    NamingTypeOK /\ NumbersCounted /\ CreatesApart /\ NumbersRetired /\ BoardlessExplained

LEMMA NamingRecords ==
    /\ NoEntry \in EntryRecord /\ NoEntry.row = "UNUSED"
    /\ NoIssue \in IssueRecord /\ NoIssue.row = "UNUSED"
    /\ NoCreator \in CreatorRecord /\ NoCreator.pc = "idle"
<1>1. AnyScope \in Scope /\ AnyEntry \in Entry /\ (CHOOSE b \in Bases : TRUE) \in Bases
  BY NamingAssumption DEF AnyScope, AnyEntry, Scope
<1>2. 0 \in 0..MaxRetry
  BY NamingAssumption
<1>3. NoEntry \in EntryRecord /\ NoEntry.row = "UNUSED" /\ NoEntry.name \in Bases
  BY <1>1 DEF NoEntry, EntryRecord, Names
<1>4. NoIssue \in IssueRecord /\ NoIssue.row = "UNUSED"
  BY <1>1, <1>3 DEF NoIssue, IssueRecord, Names
<1>5. NoCreator \in CreatorRecord /\ NoCreator.pc = "idle"
  BY <1>1, <1>2, <1>3 DEF NoCreator, CreatorRecord
<1> QED
  BY <1>3, <1>4, <1>5

LEMMA CandidatesAreNames ==
    ASSUME NEW base \in Bases, NEW attempt \in 0..MaxRetry
    PROVE  Candidates(base, attempt) \subseteq Names
BY NamingAssumption DEF Candidates, Names, Suffixes

LEMMA NamingInvInit == NamingInit => NamingInv
<1> SUFFICES ASSUME NamingInit PROVE NamingInv
  OBVIOUS
<1>1. NamingTypeOK
  BY NamingRecords DEF NamingInit, NamingTypeOK
<1>2. /\ \A i \in Issue : issue[i].row = "UNUSED"
      /\ \A e \in Entry : entry[e].row = "UNUSED"
      /\ \A r \in Creator : creator[r].pc = "idle"
  BY NamingRecords DEF NamingInit
<1> QED
  BY <1>1, <1>2 DEF NamingInv, NumbersCounted, CreatesApart, NumbersRetired,
                    BoardlessExplained, IsProject, LiveEntry

(* A step of one creator that leaves the rows alone, into a state that     *)
(* claims no row.                                                          *)
LEMMA CreatorMoves ==
    ASSUME NamingInv, NEW r \in Creator, NEW rec \in CreatorRecord,
           creator' = [creator EXCEPT ![r] = rec], UNCHANGED <<entry, issue>>,
           boarded \subseteq boarded', halfMade \subseteq halfMade',
           boarded' \in SUBSET Entry, halfMade' \in SUBSET Entry,
           rec.pc = "create" =>
              /\ entry[rec.entry].row = "UNUSED"
              /\ \A q \in Creator \ {r} : creator[q].pc = "create" => creator[q].entry # rec.entry,
           creator[r].pc = "board" => creator[r].entry \in boarded' \cup halfMade'
    PROVE  NamingInv'
<1>1. creator \in [Creator -> CreatorRecord]
  BY DEF NamingInv, NamingTypeOK
<1>2. creator'[r] = rec /\ \A q \in Creator \ {r} : creator'[q] = creator[q]
  BY <1>1
<1>3. NamingTypeOK'
  BY <1>1 DEF NamingInv, NamingTypeOK
<1>4. NumbersCounted' /\ NumbersRetired'
  BY DEF NamingInv, NumbersCounted, NumbersRetired
<1>5. CreatesApart'
  BY <1>2 DEF NamingInv, CreatesApart
<1>6. BoardlessExplained'
  BY <1>2 DEF NamingInv, BoardlessExplained, IsProject, LiveEntry
<1> QED
  BY <1>3, <1>4, <1>5, <1>6 DEF NamingInv

LEMMA BeginKeeps ==
    ASSUME NamingInv, NEW r \in Creator, NEW e \in Entry, NEW base \in Bases,
           \/ \E scope \in Scope : BeginCreate(r, e, scope, base)
           \/ BeginRename(r, e, base)
    PROVE  NamingInv'
<1>1. 0 \in 0..MaxRetry /\ entry[e] \in EntryRecord
      /\ boarded \in SUBSET Entry /\ halfMade \in SUBSET Entry
  BY NamingAssumption DEF NamingInv, NamingTypeOK
<1>2. ASSUME NEW scope \in Scope, BeginCreate(r, e, scope, base)
      PROVE  NamingInv'
  <2> DEFINE rec == [pc |-> "create", entry |-> e, scope |-> scope, base |-> base,
                     attempt |-> 0]
  <2>1. rec \in CreatorRecord /\ rec.pc = "create" /\ rec.entry = e
    BY <1>1 DEF CreatorRecord
  <2>2. creator' = [creator EXCEPT ![r] = rec]
    BY <1>2 DEF BeginCreate
  <2> HIDE DEF rec
  <2>3. /\ UNCHANGED <<entry, boarded, issue, halfMade>> /\ creator[r].pc = "idle"
        /\ entry[e].row = "UNUSED"
        /\ \A q \in Creator \ {r} : creator[q].pc = "create" => creator[q].entry # e
    BY <1>2 DEF BeginCreate
  <2> QED
    BY <1>1, <2>1, <2>2, <2>3, CreatorMoves
<1>3. CASE BeginRename(r, e, base)
  <2> DEFINE rec == [pc |-> "rename", entry |-> e, scope |-> entry[e].scope, base |-> base,
                     attempt |-> 0]
  <2>1. rec \in CreatorRecord /\ rec.pc = "rename"
    BY <1>1 DEF CreatorRecord, EntryRecord
  <2>2. creator' = [creator EXCEPT ![r] = rec]
    BY <1>3 DEF BeginRename
  <2> HIDE DEF rec
  <2>3. UNCHANGED <<entry, boarded, issue, halfMade>> /\ creator[r].pc = "idle"
    BY <1>3 DEF BeginRename
  <2> QED
    BY <1>1, <2>1, <2>2, <2>3, CreatorMoves
<1> QED
  BY <1>2, <1>3

LEMMA TryNextKeeps ==
    ASSUME NamingInv, NEW r \in Creator, TryNext(r)
    PROVE  NamingInv'
<1> DEFINE rec == IF creator[r].attempt < MaxRetry
                  THEN [creator[r] EXCEPT !.attempt = creator[r].attempt + 1]
                  ELSE NoCreator
<1>1. creator[r] \in CreatorRecord /\ boarded \in SUBSET Entry /\ halfMade \in SUBSET Entry
  BY DEF NamingInv, NamingTypeOK
<1>2. creator' = [creator EXCEPT ![r] = rec]
  BY DEF TryNext
<1>3. UNCHANGED <<entry, boarded, issue, halfMade>> /\ creator[r].pc \in {"create", "rename"}
  BY DEF TryNext
<1>4. CASE creator[r].attempt < MaxRetry
  <2>1. rec \in CreatorRecord /\ rec.pc = creator[r].pc /\ rec.entry = creator[r].entry
    BY <1>1, <1>4, NamingAssumption DEF CreatorRecord
  <2> HIDE DEF rec
  <2> QED
    BY <1>1, <1>2, <1>3, <2>1, CreatorMoves DEF NamingInv, CreatesApart
<1>5. CASE ~(creator[r].attempt < MaxRetry)
  <2>1. rec \in CreatorRecord /\ rec.pc = "idle"
    BY <1>5, NamingRecords
  <2> HIDE DEF rec
  <2> QED
    BY <1>1, <1>2, <1>3, <2>1, CreatorMoves
<1> QED
  BY <1>4, <1>5

LEMMA CreatorEndsKeeps ==
    ASSUME NamingInv, NEW r \in Creator, CreateDefaultBoard(r) \/ CreatorFails(r)
    PROVE  NamingInv'
<1>1. /\ creator[r] \in CreatorRecord /\ creator[r].entry \in Entry
      /\ boarded \in SUBSET Entry /\ halfMade \in SUBSET Entry
  BY DEF NamingInv, NamingTypeOK, CreatorRecord
<1>2. creator' = [creator EXCEPT ![r] = NoCreator] /\ UNCHANGED <<entry, issue>>
  BY DEF CreateDefaultBoard, CreatorFails
<1>3. /\ boarded \subseteq boarded' /\ halfMade \subseteq halfMade'
      /\ boarded' \in SUBSET Entry /\ halfMade' \in SUBSET Entry
      /\ creator[r].pc = "board" => creator[r].entry \in boarded' \cup halfMade'
  BY <1>1 DEF CreateDefaultBoard, CreatorFails
<1> QED
  BY <1>1, <1>2, <1>3, NamingRecords, CreatorMoves

(* The row of a create is its own until it is inserted, and has no issue.  *)
LEMMA InsertNamedKeeps ==
    ASSUME NamingInv, NEW r \in Creator, InsertNamed(r)
    PROVE  NamingInv'
<1> DEFINE e == creator[r].entry
           scope == creator[r].scope
<1>1. /\ creator \in [Creator -> CreatorRecord] /\ creator[r] \in CreatorRecord
      /\ entry \in [Entry -> EntryRecord] /\ issue \in [Issue -> IssueRecord]
      /\ e \in Entry /\ scope \in Scope
      /\ Candidates(creator[r].base, creator[r].attempt) \subseteq Names
  BY CandidatesAreNames DEF NamingInv, NamingTypeOK, CreatorRecord
<1>2. PICK name \in Names :
         entry' = [entry EXCEPT ![e] = [row |-> "LIVE", scope |-> scope, name |-> name,
                                        issueCounter |-> 0]]
  BY <1>1 DEF InsertNamed
<1> DEFINE rec == [row |-> "LIVE", scope |-> scope, name |-> name, issueCounter |-> 0]
           then == IF scope \in Workspace THEN [creator[r] EXCEPT !.pc = "board"] ELSE NoCreator
<1>3. /\ creator' = [creator EXCEPT ![r] = then] /\ UNCHANGED <<boarded, issue, halfMade>>
      /\ creator[r].pc = "create" /\ entry[e].row = "UNUSED"
  BY DEF InsertNamed, NamingInv, CreatesApart
<1>4. rec \in EntryRecord /\ rec.row = "LIVE" /\ rec.scope = scope
  BY <1>1 DEF EntryRecord
<1>5. /\ then \in CreatorRecord /\ then.pc \in {"board", "idle"}
      /\ scope \in Workspace => then.pc = "board" /\ then.entry = e
  BY <1>1, NamingRecords DEF CreatorRecord
<1>6. entry'[e] = rec /\ \A x \in Entry \ {e} : entry'[x] = entry[x]
  BY <1>1, <1>2
<1>7. creator'[r] = then /\ \A q \in Creator \ {r} : creator'[q] = creator[q]
  BY <1>1, <1>3
<1> HIDE DEF rec, then
<1>8. NamingTypeOK'
  <2>1. entry' \in [Entry -> EntryRecord] /\ creator' \in [Creator -> CreatorRecord]
    BY <1>1, <1>2, <1>3, <1>4, <1>5 DEF rec
  <2> QED
    BY <1>3, <2>1 DEF NamingInv, NamingTypeOK
<1>9. NumbersCounted' /\ NumbersRetired'
  BY <1>1, <1>3, <1>6 DEF NamingInv, NumbersCounted, NumbersRetired, IssueRecord
<1>10. CreatesApart'
  BY <1>1, <1>3, <1>5, <1>6, <1>7 DEF NamingInv, CreatesApart, CreatorRecord
<1>11. BoardlessExplained'
  BY <1>1, <1>3, <1>4, <1>5, <1>6, <1>7
     DEF NamingInv, BoardlessExplained, IsProject, LiveEntry
<1> QED
  BY <1>8, <1>9, <1>10, <1>11 DEF NamingInv

(* A row that is renamed or gets another owner is a workspace's.           *)
LEMMA WorkspaceKeeps ==
    ASSUME NamingInv, NEW e \in Entry, NEW rec \in EntryRecord,
           entry' = [entry EXCEPT ![e] = rec], LiveEntry(e),
           rec.row # "UNUSED", rec.issueCounter = entry[e].issueCounter,
           rec.scope = entry[e].scope \/ rec.scope \notin Workspace,
           UNCHANGED <<boarded, issue, creator, halfMade>>
    PROVE  NamingInv'
<1>1. entry \in [Entry -> EntryRecord] /\ issue \in [Issue -> IssueRecord]
      /\ creator \in [Creator -> CreatorRecord]
  BY DEF NamingInv, NamingTypeOK
<1>2. entry'[e] = rec /\ \A x \in Entry \ {e} : entry'[x] = entry[x]
  BY <1>1
<1>3. NamingTypeOK'
  BY <1>1 DEF NamingInv, NamingTypeOK
<1>4. NumbersCounted' /\ NumbersRetired'
  BY <1>1, <1>2 DEF NamingInv, NumbersCounted, NumbersRetired, IssueRecord
<1>5. CreatesApart'
  BY <1>1, <1>2 DEF NamingInv, CreatesApart, CreatorRecord, LiveEntry
<1>6. BoardlessExplained'
  BY <1>2 DEF NamingInv, BoardlessExplained, IsProject, LiveEntry
<1> QED
  BY <1>3, <1>4, <1>5, <1>6 DEF NamingInv

LEMMA WriteNameKeeps ==
    ASSUME NamingInv, NEW r \in Creator, WriteName(r)
    PROVE  NamingInv'
<1> DEFINE e == creator[r].entry
<1>1. /\ creator[r] \in CreatorRecord /\ e \in Entry /\ entry \in [Entry -> EntryRecord]
      /\ boarded \in SUBSET Entry /\ halfMade \in SUBSET Entry
      /\ Candidates(creator[r].base, creator[r].attempt) \subseteq Names
  BY CandidatesAreNames DEF NamingInv, NamingTypeOK, CreatorRecord
<1>2. PICK name \in Names : entry' = [entry EXCEPT ![e].name = name]
  BY <1>1 DEF WriteName
<1>3. /\ creator' = [creator EXCEPT ![r] = NoCreator] /\ UNCHANGED <<boarded, issue, halfMade>>
      /\ LiveEntry(e) /\ creator[r].pc = "rename"
  BY DEF WriteName
<1>4. creator'[r] = NoCreator /\ \A q \in Creator \ {r} : creator'[q] = creator[q]
  BY <1>3 DEF NamingInv, NamingTypeOK
<1>5. \A x \in Entry : /\ entry'[x].row = entry[x].row /\ entry'[x].scope = entry[x].scope
                       /\ entry'[x].issueCounter = entry[x].issueCounter
  BY <1>1, <1>2 DEF EntryRecord
<1>6. NamingTypeOK'
  <2>1. entry' \in [Entry -> EntryRecord]
    BY <1>1, <1>2 DEF EntryRecord
  <2> QED
    BY <1>3, <2>1, NamingRecords DEF NamingInv, NamingTypeOK
<1>7. NumbersCounted' /\ NumbersRetired'
  BY <1>3, <1>5 DEF NamingInv, NumbersCounted, NumbersRetired, NamingTypeOK, IssueRecord
<1>8. CreatesApart'
  BY <1>4, <1>5, NamingRecords DEF NamingInv, CreatesApart, NamingTypeOK, CreatorRecord
<1>9. BoardlessExplained'
  BY <1>3, <1>4, <1>5 DEF NamingInv, BoardlessExplained, IsProject, LiveEntry
<1> QED
  BY <1>6, <1>7, <1>8, <1>9 DEF NamingInv

LEMMA TransferWorkspaceKeeps ==
    ASSUME NamingInv, NEW e \in Entry, NEW owner \in Owner, TransferWorkspace(e, owner)
    PROVE  NamingInv'
<1> DEFINE rec == [entry[e] EXCEPT !.scope = owner]
<1>1. entry[e] \in EntryRecord
  BY DEF NamingInv, NamingTypeOK
<1>2. /\ rec \in EntryRecord /\ rec.row = entry[e].row /\ rec.scope = owner
      /\ rec.issueCounter = entry[e].issueCounter
  BY <1>1 DEF EntryRecord, Scope
<1>3. entry' = [entry EXCEPT ![e] = rec]
  BY DEF TransferWorkspace
<1> HIDE DEF rec
<1>4. owner \notin Workspace
  BY NamingAssumption
<1> QED
  BY <1>2, <1>3, <1>4, WorkspaceKeeps DEF TransferWorkspace, LiveEntry

LEMMA DeleteEntryKeeps ==
    ASSUME NamingInv, NEW e \in Entry, DeleteEntry(e)
    PROVE  NamingInv'
<1>1. /\ entry \in [Entry -> EntryRecord] /\ issue \in [Issue -> IssueRecord]
      /\ creator \in [Creator -> CreatorRecord]
      /\ boarded' = boarded \ {e} /\ UNCHANGED <<creator, halfMade>> /\ entry[e].row = "LIVE"
  BY DEF NamingInv, NamingTypeOK, DeleteEntry, LiveEntry
<1>2. /\ entry' \in [Entry -> EntryRecord] /\ entry'[e].row = "GONE"
      /\ \A x \in Entry : entry'[x].issueCounter = entry[x].issueCounter
      /\ \A x \in Entry \ {e} : entry'[x] = entry[x]
  BY <1>1 DEF DeleteEntry, EntryRecord
<1>3. /\ issue' \in [Issue -> IssueRecord]
      /\ \A i \in Issue : /\ issue'[i].number = issue[i].number
                          /\ issue'[i].project = issue[i].project
                          /\ issue'[i].row = "UNUSED" <=> issue[i].row = "UNUSED"
  <2>1. \A i \in Issue : [issue[i] EXCEPT !.row = "GONE"] \in IssueRecord
    BY <1>1 DEF IssueRecord
  <2>2. issue' \in [Issue -> IssueRecord]
    BY <1>1, <2>1 DEF DeleteEntry
  <2> QED
    BY <1>1, <2>2 DEF DeleteEntry, IssueRecord
<1>4. NamingTypeOK'
  BY <1>1, <1>2, <1>3 DEF NamingInv, NamingTypeOK
<1>5. NumbersCounted' /\ NumbersRetired'
  BY <1>1, <1>2, <1>3 DEF NamingInv, NumbersCounted, NumbersRetired, IssueRecord
<1>6. CreatesApart'
  BY <1>1, <1>2 DEF NamingInv, CreatesApart, CreatorRecord
<1>7. BoardlessExplained'
  BY <1>1, <1>2 DEF NamingInv, BoardlessExplained, IsProject, LiveEntry
<1> QED
  BY <1>4, <1>5, <1>6, <1>7 DEF NamingInv

(* The number is one the counter has not reached before.                   *)
LEMMA CreateIssueKeeps ==
    ASSUME NamingInv, NEW e \in Entry, NEW i \in Issue, CreateIssue(e, i)
    PROVE  NamingInv'
<1> DEFINE rec == [row |-> "LIVE", project |-> e, key |-> entry[e].name, number |-> NextNumber(e)]
<1>1. /\ entry \in [Entry -> EntryRecord] /\ issue \in [Issue -> IssueRecord]
      /\ creator \in [Creator -> CreatorRecord] /\ entry[e] \in EntryRecord
      /\ entry[e].row = "LIVE" /\ issue[i].row = "UNUSED"
      /\ UNCHANGED <<boarded, creator, halfMade>>
      /\ NextNumber(e) = entry[e].issueCounter + 1 /\ entry[e].issueCounter \in Nat
  BY DEF NamingInv, NamingTypeOK, CreateIssue, IsProject, LiveEntry, NextNumber, EntryRecord
<1>2. rec \in IssueRecord /\ rec.row = "LIVE" /\ rec.project = e
      /\ rec.number = entry[e].issueCounter + 1
  BY <1>1 DEF IssueRecord, EntryRecord
<1>3. issue' = [issue EXCEPT ![i] = rec]
  BY DEF CreateIssue
<1> HIDE DEF rec
<1>4. issue'[i] = rec /\ \A j \in Issue \ {i} : issue'[j] = issue[j]
  BY <1>1, <1>3
<1>5. /\ entry' \in [Entry -> EntryRecord]
      /\ entry'[e].issueCounter = entry[e].issueCounter + 1
      /\ \A x \in Entry : entry'[x].row = entry[x].row /\ entry'[x].scope = entry[x].scope
      /\ \A x \in Entry \ {e} : entry'[x] = entry[x]
  BY <1>1 DEF CreateIssue, EntryRecord
<1>6. NamingTypeOK'
  BY <1>1, <1>2, <1>3, <1>5 DEF NamingInv, NamingTypeOK
<1>7. \A j \in Issue \ {i} :
         issue[j].row # "UNUSED" =>
            /\ issue[j].project \in Entry /\ issue[j].number \in Nat
            /\ entry[issue[j].project].row # "UNUSED"
            /\ issue[j].number <= entry[issue[j].project].issueCounter
  BY <1>1 DEF NamingInv, NumbersCounted, IssueRecord
<1>8. NumbersCounted'
  <2> SUFFICES ASSUME NEW j \in Issue, issue'[j].row # "UNUSED"
               PROVE  /\ entry'[issue'[j].project].row # "UNUSED"
                      /\ issue'[j].number <= entry'[issue'[j].project].issueCounter
    BY DEF NumbersCounted
  <2>1. CASE j = i
    BY <1>1, <1>2, <1>4, <1>5, <2>1
  <2>2. CASE j # i
    BY <1>1, <1>4, <1>5, <1>7, <2>2
  <2> QED
    BY <2>1, <2>2
<1>9. NumbersRetired'
  <2>1. \A j \in Issue \ {i} :
           issue[j].row # "UNUSED" /\ issue[j].project = e => issue[j].number # rec.number
    BY <1>1, <1>2, <1>7
  <2> QED
    BY <1>2, <1>4, <2>1 DEF NamingInv, NumbersRetired
<1>10. CreatesApart'
  BY <1>1, <1>5 DEF NamingInv, CreatesApart, CreatorRecord
<1>11. BoardlessExplained'
  BY <1>1, <1>5 DEF NamingInv, BoardlessExplained, IsProject, LiveEntry
<1> QED
  BY <1>6, <1>8, <1>9, <1>10, <1>11 DEF NamingInv

LEMMA DeleteIssueRowKeeps ==
    ASSUME NamingInv, NEW i \in Issue, DeleteIssueRow(i)
    PROVE  NamingInv'
<1>1. /\ issue' \in [Issue -> IssueRecord] /\ UNCHANGED <<entry, boarded, creator, halfMade>>
      /\ \A j \in Issue : /\ issue'[j].number = issue[j].number
                          /\ issue'[j].project = issue[j].project
                          /\ issue'[j].row = "UNUSED" <=> issue[j].row = "UNUSED"
  BY DEF NamingInv, NamingTypeOK, DeleteIssueRow, IssueRecord
<1> QED
  BY <1>1 DEF NamingInv, NamingTypeOK, NumbersCounted, CreatesApart, NumbersRetired,
              BoardlessExplained, IsProject, LiveEntry

LEMMA NamingInductive == NamingInv /\ [NamingNext]_namingVars => NamingInv'
<1> SUFFICES ASSUME NamingInv, [NamingNext]_namingVars PROVE NamingInv'
  OBVIOUS
<1>1. CASE UNCHANGED namingVars
  BY <1>1 DEF namingVars, NamingInv, NamingTypeOK, NumbersCounted, CreatesApart,
              NumbersRetired, BoardlessExplained, IsProject, LiveEntry
<1>2. ASSUME NEW r \in Creator, CreatorStep(r) PROVE NamingInv'
  BY <1>2, TryNextKeeps, InsertNamedKeeps, WriteNameKeeps, CreatorEndsKeeps DEF CreatorStep
<1> QED
  BY <1>1, <1>2, BeginKeeps, DeleteEntryKeeps, TransferWorkspaceKeeps, CreateIssueKeeps,
     DeleteIssueRowKeeps DEF NamingNext

-----------------------------------------------------------------------------
(* Comments.  A request names its issue and its user, and the parent it    *)
(* found is a comment of that issue for as long as it is there.            *)

RequestsNameRows ==
    \A r \in FieldRequest :
        request[r].pc # "idle" => request[r].issue \in IssueRow /\ request[r].user \in User

ParentsOfIssue ==
    \A r \in FieldRequest :
        request[r].pc = "comment" /\ request[r].parent # None =>
            /\ remark[request[r].parent].row # "UNUSED"
            /\ Posted(request[r].parent) => remark[request[r].parent].issue = request[r].issue

CreationInv == CreationTypeOK /\ RequestsNameRows /\ ParentsOfIssue /\ RepliesInIssue

LEMMA NoRequestTyped == NoRequest \in RequestRecord /\ NoRequest.pc = "idle"
BY DEF NoRequest, RequestRecord

LEMMA CreationInvInit == CreationInit => CreationInv
<1> SUFFICES ASSUME CreationInit PROVE CreationInv
  OBVIOUS
<1>1. CreationTypeOK
  BY NoRequestTyped
     DEF CreationInit, CreationTypeOK, CreatedRecord, FieldRecord, RemarkRecord, Row
<1>2. RequestsNameRows /\ ParentsOfIssue /\ RepliesInIssue
  BY NoRequestTyped DEF CreationInit, RequestsNameRows, ParentsOfIssue, RepliesInIssue, Posted
<1> QED
  BY <1>1, <1>2 DEF CreationInv

(* A request moves while no comment does.                                  *)
LEMMA RequestMoves ==
    ASSUME CreationInv, NEW r \in FieldRequest, NEW rec \in RequestRecord,
           request' = [request EXCEPT ![r] = rec], UNCHANGED remark,
           created' \in [IssueRow -> CreatedRecord], field' \in [Field -> FieldRecord],
           fieldValue' \in [IssueRow -> [Field -> Value \cup {None}]],
           watching' \in SUBSET (IssueRow \X User), autoWatch' \in SUBSET (IssueRow \X User),
           rec.pc # "idle" => rec.issue \in IssueRow /\ rec.user \in User,
           rec.pc = "comment" /\ rec.parent # None =>
              Posted(rec.parent) /\ remark[rec.parent].issue = rec.issue
    PROVE  CreationInv'
<1>1. request \in [FieldRequest -> RequestRecord]
  BY DEF CreationInv, CreationTypeOK
<1>2. request'[r] = rec /\ \A q \in FieldRequest \ {r} : request'[q] = request[q]
  BY <1>1
<1>3. CreationTypeOK'
  BY <1>1 DEF CreationInv, CreationTypeOK
<1>4. RequestsNameRows'
  BY <1>2 DEF CreationInv, RequestsNameRows
<1>5. ParentsOfIssue'
  BY <1>2 DEF CreationInv, ParentsOfIssue, Posted
<1>6. RepliesInIssue'
  BY DEF CreationInv, RepliesInIssue, Posted
<1> QED
  BY <1>3, <1>4, <1>5, <1>6 DEF CreationInv

(* Comments change while requests stand still, or one ends: none appears   *)
(* out of nowhere, and one that is there stays in its issue.               *)
LEMMA RemarksChange ==
    ASSUME CreationInv, remark' \in [CommentRow -> RemarkRecord], UNCHANGED request,
           created' \in [IssueRow -> CreatedRecord], field' \in [Field -> FieldRecord],
           fieldValue' \in [IssueRow -> [Field -> Value \cup {None}]],
           watching' \in SUBSET (IssueRow \X User), autoWatch' \in SUBSET (IssueRow \X User),
           \A k \in CommentRow :
              /\ remark[k].row # "UNUSED" => remark'[k].row # "UNUSED"
              /\ Posted(k)' => Posted(k) /\ remark'[k].issue = remark[k].issue,
           RepliesInIssue'
    PROVE  CreationInv'
<1>1. CreationTypeOK' /\ RequestsNameRows'
  BY DEF CreationInv, CreationTypeOK, RequestsNameRows
<1>2. \A r \in FieldRequest : request[r].parent \in CommentRow \cup {None}
  BY DEF CreationInv, CreationTypeOK, RequestRecord
<1>3. ParentsOfIssue'
  BY <1>2 DEF CreationInv, ParentsOfIssue
<1> QED
  BY <1>1, <1>3 DEF CreationInv

(* A request stays a request when one of its fields is set.                *)
LEMMA RequestFieldSet ==
    ASSUME NEW s \in RequestRecord
    PROVE  /\ \A pc \in {"idle", "change", "defs", "value", "commit", "comment"} :
                 [s EXCEPT !.pc = pc] \in RequestRecord
           /\ \A b \in BOOLEAN : /\ [s EXCEPT !.makes = b] \in RequestRecord
                                 /\ [s EXCEPT !.fits = b] \in RequestRecord
           /\ \A u \in User \cup {None} : /\ [s EXCEPT !.user = u] \in RequestRecord
                                          /\ [s EXCEPT !.before = u] \in RequestRecord
                                          /\ [s EXCEPT !.assignee = u] \in RequestRecord
           /\ \A i \in IssueRow : [s EXCEPT !.issue = i] \in RequestRecord
           /\ \A f \in Field \cup {None} : [s EXCEPT !.field = f] \in RequestRecord
           /\ \A v \in Value \cup {None} : [s EXCEPT !.value = v] \in RequestRecord
           /\ \A k \in CommentRow \cup {None} : [s EXCEPT !.parent = k] \in RequestRecord
BY DEF RequestRecord

LEMMA OpenIssueKeeps ==
    ASSUME CreationInv, NEW r \in FieldRequest, NEW u \in User,
           NEW assignee \in User \cup {None}, NEW f \in Field \cup {None},
           NEW v \in Value \cup {None}, OpenIssue(r, u, assignee, f, v)
    PROVE  CreationInv'
<1>1. PICK i \in IssueRow :
         /\ created' = [created EXCEPT ![i] = [row |-> "OPEN", assignee |-> assignee]]
         /\ autoWatch' = autoWatch \cup ({i} \X ({u, assignee} \ {None}))
         /\ request' = [request EXCEPT ![r] =
               [NoRequest EXCEPT !.pc = IF f = None THEN "commit" ELSE "defs", !.makes = TRUE,
                    !.user = u, !.issue = i, !.field = f, !.value = v]]
         /\ UNCHANGED <<field, fieldValue, watching, remark>>
  BY DEF OpenIssue
<1> DEFINE pc == IF f = None THEN "commit" ELSE "defs"
           rec == [NoRequest EXCEPT !.pc = pc, !.makes = TRUE, !.user = u, !.issue = i,
                                    !.field = f, !.value = v]
<1>2. rec \in RequestRecord
  BY NoRequestTyped, RequestFieldSet
<1>3. request' = [request EXCEPT ![r] = rec]
  BY <1>1
<1>4. rec.pc # "comment" /\ rec.issue = i /\ rec.user = u
  BY DEF NoRequest
<1>5. [row |-> "OPEN", assignee |-> assignee] \in CreatedRecord
  BY DEF CreatedRecord, Row
<1>6. /\ created' \in [IssueRow -> CreatedRecord] /\ field' \in [Field -> FieldRecord]
      /\ fieldValue' \in [IssueRow -> [Field -> Value \cup {None}]]
      /\ watching' \in SUBSET (IssueRow \X User)
  BY <1>1, <1>5 DEF CreationInv, CreationTypeOK
<1>7. autoWatch' \in SUBSET (IssueRow \X User)
  <2>1. autoWatch \in SUBSET (IssueRow \X User) /\ {u, assignee} \ {None} \subseteq User
    BY DEF CreationInv, CreationTypeOK
  <2> QED
    BY <1>1, <2>1
<1> HIDE DEF rec, pc
<1> QED
  BY <1>1, <1>2, <1>3, <1>4, <1>6, <1>7, RequestMoves

LEMMA UpdateIssueKeeps ==
    ASSUME CreationInv, NEW r \in FieldRequest, NEW u \in User, NEW i \in IssueRow,
           NEW assignee \in User \cup {None}, NEW f \in Field \cup {None},
           NEW v \in Value \cup {None}, UpdateIssue(r, u, i, assignee, f, v)
    PROVE  CreationInv'
<1> DEFINE rec == [NoRequest EXCEPT !.pc = "change", !.user = u, !.issue = i,
                          !.assignee = assignee, !.before = created[i].assignee,
                          !.field = f, !.value = v]
<1>1. CreationTypeOK /\ created[i].assignee \in User \cup {None}
  BY DEF CreationInv, CreationTypeOK, CreatedRecord
<1>2. rec \in RequestRecord
  BY <1>1, NoRequestTyped, RequestFieldSet
<1>3. rec.pc = "change" /\ rec.issue = i /\ rec.user = u
  BY DEF NoRequest
<1>4. request' = [request EXCEPT ![r] = rec]
      /\ UNCHANGED <<created, field, fieldValue, watching, autoWatch, remark>>
  BY DEF UpdateIssue
<1> HIDE DEF rec
<1> QED
  BY <1>1, <1>2, <1>3, <1>4, RequestMoves DEF CreationTypeOK

LEMMA BeginCommentKeeps ==
    ASSUME CreationInv, NEW r \in FieldRequest, NEW u \in User, NEW i \in IssueRow,
           NEW parent \in CommentRow \cup {None}, BeginComment(r, u, i, parent)
    PROVE  CreationInv'
<1> DEFINE rec == [NoRequest EXCEPT !.pc = "comment", !.user = u, !.issue = i,
                                    !.parent = parent]
<1>1. CreationTypeOK
  BY DEF CreationInv
<1>2. rec \in RequestRecord
  BY NoRequestTyped, RequestFieldSet
<1>3. rec.pc = "comment" /\ rec.issue = i /\ rec.user = u /\ rec.parent = parent
  BY DEF NoRequest
<1>4. request' = [request EXCEPT ![r] = rec]
      /\ UNCHANGED <<created, field, fieldValue, watching, autoWatch, remark>>
      /\ (parent # None => Posted(parent) /\ remark[parent].issue = i)
  BY DEF BeginComment
<1> HIDE DEF rec
<1> QED
  BY <1>1, <1>2, <1>3, <1>4, RequestMoves DEF CreationTypeOK

(* The steps of a request after its first that write no comment.           *)
LEMMA RequestStepKeeps ==
    ASSUME CreationInv, NEW r \in FieldRequest,
           CommitUpdate(r) \/ ReadDefs(r) \/ WriteValue(r) \/ CommitCreate(r) \/ RequestFails(r)
    PROVE  CreationInv'
<1> DEFINE q == request[r]
<1>1. /\ q \in RequestRecord /\ q.pc # "idle" /\ q.issue \in IssueRow /\ q.user \in User
      /\ q.assignee \in User \cup {None} /\ q.field \in Field \cup {None}
      /\ q.value \in Value \cup {None}
  BY DEF CommitUpdate, ReadDefs, WriteValue, CommitCreate, RequestFails, CreationInv,
         CreationTypeOK, RequestsNameRows, RequestRecord
<1>2. UNCHANGED <<field, watching, remark>>
  BY DEF CommitUpdate, ReadDefs, WriteValue, CommitCreate, RequestFails
<1>3. \E rec \in RequestRecord :
         /\ request' = [request EXCEPT ![r] = rec] /\ rec.pc # "comment"
         /\ rec.pc # "idle" => rec.issue = q.issue /\ rec.user = q.user
  <2>1. CASE request' = [request EXCEPT ![r] = NoRequest]
    BY <2>1, NoRequestTyped
  <2>2. CASE \E pc \in {"defs", "value", "commit"} :
                request' = [request EXCEPT ![r] = [q EXCEPT !.pc = pc]]
    <3>1. PICK pc \in {"defs", "value", "commit"} :
                 request' = [request EXCEPT ![r] = [q EXCEPT !.pc = pc]]
      BY <2>2
    <3> DEFINE rec == [q EXCEPT !.pc = pc]
    <3>2. rec \in RequestRecord /\ rec.pc = pc /\ rec.issue = q.issue /\ rec.user = q.user
      <4>1. rec \in RequestRecord
        BY <1>1, RequestFieldSet
      <4> QED
        BY <1>1, <4>1 DEF RequestRecord
    <3>3. request' = [request EXCEPT ![r] = rec]
      BY <3>1
    <3> HIDE DEF rec
    <3> QED
      BY <3>2, <3>3
  <2>3. CASE \E pc \in {"defs", "value", "commit"}, fits \in BOOLEAN :
                request' = [request EXCEPT ![r] = [q EXCEPT !.pc = pc, !.fits = fits]]
    <3>1. PICK pc \in {"defs", "value", "commit"}, fits \in BOOLEAN :
                 request' = [request EXCEPT ![r] = [q EXCEPT !.pc = pc, !.fits = fits]]
      BY <2>3
    <3> DEFINE rec == [q EXCEPT !.pc = pc, !.fits = fits]
    <3>2. rec \in RequestRecord /\ rec.pc = pc /\ rec.issue = q.issue /\ rec.user = q.user
      <4>1. [q EXCEPT !.pc = pc] \in RequestRecord
        BY <1>1, RequestFieldSet
      <4>2. rec \in RequestRecord
        BY <4>1, RequestFieldSet
      <4> QED
        BY <1>1, <4>2 DEF RequestRecord
    <3>3. request' = [request EXCEPT ![r] = rec]
      BY <3>1
    <3> HIDE DEF rec
    <3> QED
      BY <3>2, <3>3
  <2>4. CASE CommitUpdate(r)
    BY <2>1, <2>2, <2>4 DEF CommitUpdate
  <2>5. CASE ReadDefs(r)
    <3> DEFINE fits == q.value \in field[q.field].suits
    <3>1. fits \in BOOLEAN
      OBVIOUS
    <3>2. CASE Defined(q.field)
      <4>1. request' = [request EXCEPT ![r] = [q EXCEPT !.pc = "value", !.fits = fits]]
        BY <2>5, <3>2 DEF ReadDefs
      <4> HIDE DEF fits
      <4> QED
        BY <2>3, <3>1, <4>1
    <3>3. CASE ~Defined(q.field)
      BY <2>1, <2>2, <2>5, <3>3 DEF ReadDefs
    <3> QED
      BY <3>2, <3>3
  <2>6. CASE WriteValue(r)
    BY <2>1, <2>2, <2>6 DEF WriteValue
  <2> QED
    BY <2>1, <2>4, <2>5, <2>6 DEF CommitCreate, RequestFails
<1>4. created' \in [IssueRow -> CreatedRecord]
  <2>1. created \in [IssueRow -> CreatedRecord] /\ created[q.issue] \in CreatedRecord
    BY <1>1 DEF CreationInv, CreationTypeOK
  <2>2. /\ [created[q.issue] EXCEPT !.assignee = q.assignee] \in CreatedRecord
        /\ [created[q.issue] EXCEPT !.row = "LIVE"] \in CreatedRecord
        /\ [row |-> "GONE", assignee |-> None] \in CreatedRecord
    BY <1>1, <2>1 DEF CreatedRecord, Row
  <2>3. CASE CommitUpdate(r)
    BY <2>1, <2>2, <2>3 DEF CommitUpdate
  <2>4. CASE CommitCreate(r)
    BY <2>1, <2>2, <2>4 DEF CommitCreate
  <2>5. CASE RequestFails(r)
    BY <2>1, <2>2, <2>5 DEF RequestFails
  <2> QED
    BY <2>1, <2>3, <2>4, <2>5 DEF ReadDefs, WriteValue
<1>5. fieldValue' \in [IssueRow -> [Field -> Value \cup {None}]]
  <2>1. fieldValue \in [IssueRow -> [Field -> Value \cup {None}]]
    BY DEF CreationInv, CreationTypeOK
  <2>2. CASE WriteValue(r)
    <3>1. \A v \in Value \cup {None} :
             [fieldValue EXCEPT ![q.issue][q.field] = v] \in [IssueRow -> [Field -> Value \cup {None}]]
      BY <2>1
    <3> QED
      BY <1>1, <2>1, <2>2, <3>1 DEF WriteValue, Upserted
  <2> QED
    BY <2>1, <2>2 DEF CommitUpdate, ReadDefs, CommitCreate, RequestFails
<1>6. autoWatch' \in SUBSET (IssueRow \X User)
  <2>1. autoWatch \in SUBSET (IssueRow \X User)
    BY DEF CreationInv, CreationTypeOK
  <2>2. CASE CommitUpdate(r)
    <3>1. \/ autoWatch' = autoWatch
          \/ q.assignee # None /\ autoWatch' = autoWatch \cup {<<q.issue, q.assignee>>}
      BY <2>2 DEF CommitUpdate
    <3> QED
      BY <1>1, <2>1, <3>1
  <2> QED
    BY <2>1, <2>2 DEF ReadDefs, WriteValue, CommitCreate, RequestFails
<1>7. field' \in [Field -> FieldRecord] /\ watching' \in SUBSET (IssueRow \X User)
  BY <1>2 DEF CreationInv, CreationTypeOK
<1> QED
  BY <1>1, <1>2, <1>3, <1>4, <1>5, <1>6, <1>7, RequestMoves

(* The parent was checked, and is not of another issue when it is read     *)
(* again by its foreign key.                                               *)
LEMMA InsertCommentKeeps ==
    ASSUME CreationInv, NEW r \in FieldRequest, InsertComment(r)
    PROVE  CreationInv'
<1> DEFINE q == request[r]
<1>1. /\ q \in RequestRecord /\ q.pc = "comment" /\ q.issue \in IssueRow /\ q.user \in User
      /\ q.parent \in CommentRow \cup {None}
      /\ q.parent # None => Posted(q.parent) /\ remark[q.parent].issue = q.issue
  BY DEF InsertComment, CreationInv, CreationTypeOK, RequestsNameRows, ParentsOfIssue,
         RequestRecord
<1>2. PICK k \in CommentRow :
         /\ remark[k].row = "UNUSED"
         /\ remark' = [remark EXCEPT ![k] = [row |-> "LIVE", issue |-> q.issue,
                                             author |-> q.user, parent |-> q.parent]]
  BY DEF InsertComment
<1> DEFINE rec == [row |-> "LIVE", issue |-> q.issue, author |-> q.user, parent |-> q.parent]
<1>3. rec \in RemarkRecord /\ rec.row = "LIVE" /\ rec.issue = q.issue /\ rec.parent = q.parent
  BY <1>1 DEF RemarkRecord, Row
<1>4. /\ remark \in [CommentRow -> RemarkRecord] /\ remark' = [remark EXCEPT ![k] = rec]
      /\ request \in [FieldRequest -> RequestRecord]
  BY <1>2 DEF CreationInv, CreationTypeOK
<1> HIDE DEF rec
<1>5. /\ request' = [request EXCEPT ![r] = NoRequest]
      /\ autoWatch' = autoWatch \cup {<<q.issue, q.user>>}
      /\ UNCHANGED <<created, field, fieldValue, watching>>
  BY DEF InsertComment
<1>6. /\ remark'[k] = rec /\ \A x \in CommentRow \ {k} : remark'[x] = remark[x]
      /\ request'[r] = NoRequest /\ \A x \in FieldRequest \ {r} : request'[x] = request[x]
  BY <1>4, <1>5
<1>7. CreationTypeOK'
  <2>1. autoWatch' \in SUBSET (IssueRow \X User)
    BY <1>1, <1>5 DEF CreationInv, CreationTypeOK
  <2>2. remark' \in [CommentRow -> RemarkRecord] /\ request' \in [FieldRequest -> RequestRecord]
    BY <1>3, <1>4, <1>5, NoRequestTyped
  <2> QED
    BY <1>5, <2>1, <2>2 DEF CreationInv, CreationTypeOK
<1>8. RequestsNameRows'
  BY <1>6, NoRequestTyped DEF CreationInv, RequestsNameRows
<1>9. ParentsOfIssue'
  <2>1. \A x \in FieldRequest : request[x].parent \in CommentRow \cup {None}
    BY <1>4 DEF RequestRecord
  <2> QED
    BY <1>2, <1>3, <1>6, <2>1, NoRequestTyped DEF CreationInv, ParentsOfIssue, Posted
<1>10. RepliesInIssue'
  <2>1. \A x \in CommentRow : remark[x].parent \in CommentRow \cup {None}
    BY <1>4 DEF RemarkRecord
  <2> QED
    BY <1>1, <1>2, <1>3, <1>6, <2>1 DEF CreationInv, RepliesInIssue, Posted
<1> QED
  BY <1>7, <1>8, <1>9, <1>10 DEF CreationInv

NoRemark == [row |-> "GONE", issue |-> None, author |-> None, parent |-> None]

LEMMA DropIssueKeeps ==
    ASSUME CreationInv, NEW i \in IssueRow, DropIssue(i)
    PROVE  CreationInv'
<1>1. /\ remark \in [CommentRow -> RemarkRecord] /\ created \in [IssueRow -> CreatedRecord]
      /\ fieldValue \in [IssueRow -> [Field -> Value \cup {None}]]
      /\ watching \in SUBSET (IssueRow \X User)
  BY DEF CreationInv, CreationTypeOK
<1>2. NoRemark \in RemarkRecord /\ NoRemark.row = "GONE"
  BY DEF NoRemark, RemarkRecord, Row
<1>3. remark' = [k \in CommentRow |-> IF remark[k].issue = i THEN NoRemark ELSE remark[k]]
  BY DEF DropIssue, NoRemark
<1>4. remark' \in [CommentRow -> RemarkRecord]
  BY <1>1, <1>2, <1>3
<1>5. \A k \in CommentRow :
         \/ remark[k].issue = i /\ remark'[k].row = "GONE"
         \/ remark[k].issue # i /\ remark'[k] = remark[k]
  BY <1>2, <1>3
<1>6. /\ created' \in [IssueRow -> CreatedRecord] /\ watching' \in SUBSET (IssueRow \X User)
      /\ fieldValue' \in [IssueRow -> [Field -> Value \cup {None}]]
  <2>1. [row |-> "GONE", assignee |-> None] \in CreatedRecord
    BY DEF CreatedRecord, Row
  <2>2. [f \in Field |-> None] \in [Field -> Value \cup {None}]
    OBVIOUS
  <2> QED
    BY <1>1, <2>1, <2>2 DEF DropIssue
<1>7. RepliesInIssue'
  <2>1. \A k \in CommentRow : remark[k].parent \in CommentRow \cup {None}
    BY <1>1 DEF RemarkRecord
  <2> QED
    BY <1>5, <2>1 DEF CreationInv, RepliesInIssue, Posted
<1>8. UNCHANGED <<field, autoWatch, request>> /\ CreationTypeOK
  BY DEF DropIssue, CreationInv
<1> QED
  BY <1>4, <1>5, <1>6, <1>7, <1>8, RemarksChange DEF Posted, CreationTypeOK

LEMMA DeleteCommentKeeps ==
    ASSUME CreationInv, NEW k \in CommentRow, DeleteComment(k)
    PROVE  CreationInv'
<1>1. CreationTypeOK /\ remark \in [CommentRow -> RemarkRecord]
      /\ UNCHANGED <<created, field, fieldValue, watching, autoWatch, request>>
  BY DEF CreationInv, CreationTypeOK, DeleteComment
<1>2. NoRemark \in RemarkRecord /\ NoRemark.row = "GONE"
  BY DEF NoRemark, RemarkRecord, Row
<1>3. \A x \in CommentRow :
         LET cut == [remark[x] EXCEPT !.parent = None] IN
            /\ cut \in RemarkRecord /\ cut.row = remark[x].row /\ cut.issue = remark[x].issue
            /\ cut.parent = None
  BY <1>1 DEF RemarkRecord
<1>4. remark' = [x \in CommentRow |->
                    IF x = k THEN NoRemark
                    ELSE IF remark[x].parent = k THEN [remark[x] EXCEPT !.parent = None]
                    ELSE remark[x]]
  BY DEF DeleteComment, NoRemark
<1>5. remark' \in [CommentRow -> RemarkRecord]
  BY <1>1, <1>2, <1>3, <1>4
<1>6. /\ remark'[k].row = "GONE"
      /\ \A x \in CommentRow \ {k} :
            /\ remark'[x].row = remark[x].row /\ remark'[x].issue = remark[x].issue
            /\ remark'[x].parent = (IF remark[x].parent = k THEN None ELSE remark[x].parent)
  BY <1>2, <1>3, <1>4
<1>7. RepliesInIssue'
  <2>1. \A x \in CommentRow : remark[x].parent \in CommentRow \cup {None}
    BY <1>1 DEF RemarkRecord
  <2> QED
    BY <1>6, <2>1 DEF CreationInv, RepliesInIssue, Posted
<1>8. \A x \in CommentRow :
         /\ remark[x].row # "UNUSED" => remark'[x].row # "UNUSED"
         /\ Posted(x)' => Posted(x) /\ remark'[x].issue = remark[x].issue
  BY <1>6 DEF Posted
<1> QED
  BY <1>1, <1>5, <1>7, <1>8, RemarksChange DEF CreationTypeOK

(* Fields and watches are no concern of the comments.                      *)
LEMMA FieldsAndWatchesKeep ==
    ASSUME CreationInv,
           \/ \E f \in Field :
                 \/ \E suits \in Suits : CreateField(f, suits) \/ UpdateField(f, suits)
                 \/ DeleteField(f)
           \/ \E i \in IssueRow, u \in User : AutoWatch(i, u) \/ Watch(i, u) \/ Unwatch(i, u)
    PROVE  CreationInv'
<1>1. UNCHANGED <<created, remark, request>> /\ CreationTypeOK /\ RepliesInIssue'
  BY DEF CreateField, UpdateField, DeleteField, AutoWatch, Watch, Unwatch, CreationInv,
         RepliesInIssue, Posted
<1>2. ASSUME NEW f \in Field,
             \/ \E suits \in Suits : CreateField(f, suits) \/ UpdateField(f, suits)
             \/ DeleteField(f)
      PROVE  /\ field' \in [Field -> FieldRecord] /\ UNCHANGED <<watching, autoWatch>>
             /\ fieldValue' \in [IssueRow -> [Field -> Value \cup {None}]]
  <2>1. /\ field \in [Field -> FieldRecord]
        /\ fieldValue \in [IssueRow -> [Field -> Value \cup {None}]]
    BY DEF CreationInv, CreationTypeOK
  <2>2. field' \in [Field -> FieldRecord]
    <3>1. \A suits \in SUBSET Value :
             /\ [row |-> "LIVE", suits |-> suits] \in FieldRecord
             /\ [field[f] EXCEPT !.suits = suits] \in FieldRecord
      BY <2>1 DEF FieldRecord, Row
    <3>2. [row |-> "GONE", suits |-> {}] \in FieldRecord
      BY DEF FieldRecord, Row
    <3>3. \E rec \in FieldRecord : field' = [field EXCEPT ![f] = rec]
      <4>1. CASE DeleteField(f)
        BY <3>2, <4>1 DEF DeleteField
      <4>2. ASSUME NEW suits \in Suits, CreateField(f, suits)
            PROVE  \E rec \in FieldRecord : field' = [field EXCEPT ![f] = rec]
        BY <3>1, <4>2 DEF CreateField, Suits
      <4>3. ASSUME NEW suits \in Suits, UpdateField(f, suits)
            PROVE  \E rec \in FieldRecord : field' = [field EXCEPT ![f] = rec]
        BY <3>1, <4>3 DEF UpdateField, Suits
      <4> QED
        BY <1>2, <4>1, <4>2, <4>3
    <3> QED
      BY <2>1, <3>3
  <2>3. fieldValue' \in [IssueRow -> [Field -> Value \cup {None}]]
    BY <1>2, <2>1 DEF CreateField, UpdateField, DeleteField
  <2> QED
    BY <1>2, <2>2, <2>3 DEF CreateField, UpdateField, DeleteField
<1>3. ASSUME NEW i \in IssueRow, NEW u \in User, AutoWatch(i, u) \/ Watch(i, u) \/ Unwatch(i, u)
      PROVE  /\ watching' \in SUBSET (IssueRow \X User)
             /\ autoWatch' \in SUBSET (IssueRow \X User) /\ UNCHANGED <<field, fieldValue>>
  BY <1>3 DEF AutoWatch, Watch, Unwatch, CreationInv, CreationTypeOK
<1> QED
  BY <1>1, <1>2, <1>3, RemarksChange DEF CreationTypeOK, Posted

LEMMA CreationInductive == CreationInv /\ [CreationNext]_creationVars => CreationInv'
<1> SUFFICES ASSUME CreationInv, [CreationNext]_creationVars PROVE CreationInv'
  OBVIOUS
<1>1. CASE UNCHANGED creationVars
  BY <1>1 DEF creationVars, CreationInv, CreationTypeOK, RequestsNameRows, ParentsOfIssue,
              RepliesInIssue, Posted
<1>2. ASSUME NEW r \in FieldRequest, NEW u \in User, NEW assignee \in User \cup {None},
             NEW g \in Given,
             \/ OpenIssue(r, u, assignee, g[1], g[2])
             \/ \E i \in IssueRow : UpdateIssue(r, u, i, assignee, g[1], g[2])
      PROVE  CreationInv'
  <2>1. g[1] \in Field \cup {None} /\ g[2] \in Value \cup {None}
    BY DEF Given
  <2> QED
    BY <1>2, <2>1, OpenIssueKeeps, UpdateIssueKeeps
<1> QED
  BY <1>1, <1>2, RequestStepKeeps, BeginCommentKeeps, InsertCommentKeeps, DropIssueKeeps,
     DeleteCommentKeeps, FieldsAndWatchesKeep DEF CreationNext

-----------------------------------------------------------------------------
(* Values of an issue that is being created.  The one request that makes   *)
(* it holds its row OPEN, and the database refuses a value for a row that  *)
(* no other connection sees.                                               *)

Makes(r) == request[r].pc # "idle" /\ request[r].makes

MakersHold ==
    /\ \A r \in FieldRequest : Makes(r) => created[request[r].issue].row = "OPEN"
    /\ \A q, r \in FieldRequest :
          Makes(q) /\ Makes(r) /\ request[q].issue = request[r].issue => q = r
    /\ \A r \in FieldRequest : request[r].pc = "commit" => request[r].makes

ValuesNeedIssue == \A i \in IssueRow : ~There(i) => \A f \in Field : fieldValue[i][f] = None

ValuesInv == MakersHold /\ ValuesNeedIssue

(* What a commit of create() stores of the fields its caller gave. *)
NothingStored ==
    \A r \in FieldRequest :
        CommitCreate(r) => \A f \in Field : fieldValue'[request[r].issue][f] = None

(* Steps that neither make nor drop an issue. *)
LEMMA SameRows ==
    ASSUME CreationInv, ValuesInv,
           \A i \in IssueRow : created'[i].row = created[i].row,
           \A r \in FieldRequest :
              /\ Makes(r)' => Makes(r) /\ request'[r].issue = request[r].issue
              /\ request'[r].pc = "commit" => request'[r].makes,
           \A i \in IssueRow : \A f \in Field :
              fieldValue'[i][f] \in {fieldValue[i][f], None} \/ There(i)
    PROVE  ValuesInv'
<1>1. \A r \in FieldRequest : Makes(r) => request[r].issue \in IssueRow
  BY DEF Makes, CreationInv, RequestsNameRows
<1>2. MakersHold'
  BY <1>1 DEF ValuesInv, MakersHold
<1>3. ValuesNeedIssue'
  BY DEF ValuesInv, ValuesNeedIssue, There
<1> QED
  BY <1>2, <1>3 DEF ValuesInv

(* One request moves, and no issue is made or dropped. *)
LEMMA RequestSameRows ==
    ASSUME CreationInv, ValuesInv, NEW r \in FieldRequest, NEW rec,
           request' = [request EXCEPT ![r] = rec],
           rec.pc # "idle" /\ rec.makes => Makes(r) /\ rec.issue = request[r].issue,
           rec.pc = "commit" => rec.makes,
           \A i \in IssueRow : created'[i].row = created[i].row,
           \A i \in IssueRow : \A f \in Field :
              fieldValue'[i][f] \in {fieldValue[i][f], None} \/ There(i)
    PROVE  ValuesInv'
<1>1. /\ request'[r] = rec
      /\ \A q \in FieldRequest \ {r} : request'[q] = request[q]
  BY DEF CreationInv, CreationTypeOK
<1>2. \A q \in FieldRequest :
         /\ Makes(q)' => Makes(q) /\ request'[q].issue = request[q].issue
         /\ request'[q].pc = "commit" => request'[q].makes
  BY <1>1 DEF Makes, ValuesInv, MakersHold
<1> QED
  BY <1>2, SameRows

(* One issue changes its row; its values are gone, or were never there. *)
LEMMA OneRowChanges ==
    ASSUME CreationInv, ValuesInv, NEW i \in IssueRow,
           \A j \in IssueRow \ {i} : created'[j] = created[j],
           \A j \in IssueRow : j # i => fieldValue'[j] = fieldValue[j],
           There(i)' \/ \A f \in Field : fieldValue'[i][f] = None
    PROVE  ValuesNeedIssue'
BY DEF ValuesInv, ValuesNeedIssue, There

LEMMA OpenStoresNothing ==
    ASSUME CreationInv, ValuesInv, NEW r \in FieldRequest, NEW u, NEW assignee,
           NEW f, NEW v, OpenIssue(r, u, assignee, f, v)
    PROVE  ValuesInv'
<1> DEFINE pc == IF f = None THEN "commit" ELSE "defs"
           rec(i) == [NoRequest EXCEPT !.pc = pc, !.makes = TRUE, !.user = u, !.issue = i,
                                       !.field = f, !.value = v]
<1>1. PICK i \in IssueRow :
         /\ created[i].row = "UNUSED"
         /\ created' = [created EXCEPT ![i] = [row |-> "OPEN", assignee |-> assignee]]
         /\ request' = [request EXCEPT ![r] = rec(i)]
         /\ UNCHANGED fieldValue
  BY DEF OpenIssue
<1>2. rec(i).makes = TRUE /\ rec(i).issue = i
  BY DEF NoRequest
<1> HIDE DEF rec, pc
<1>3. /\ request'[r] = rec(i) /\ \A q \in FieldRequest \ {r} : request'[q] = request[q]
      /\ created'[i].row = "OPEN" /\ \A j \in IssueRow \ {i} : created'[j] = created[j]
  BY <1>1 DEF CreationInv, CreationTypeOK
<1>4. \A q \in FieldRequest : Makes(q) => request[q].issue \in IssueRow \ {i}
  BY <1>1 DEF Makes, CreationInv, RequestsNameRows, ValuesInv, MakersHold
<1>5. MakersHold'
  <2>1. \A q \in FieldRequest : Makes(q)' => created'[request'[q].issue].row = "OPEN"
    BY <1>2, <1>3, <1>4 DEF Makes, ValuesInv, MakersHold
  <2>2. \A q \in FieldRequest \ {r} : Makes(q)' => Makes(q) /\ request'[q].issue # i
    BY <1>3, <1>4 DEF Makes
  <2>3. \A p, q \in FieldRequest :
           Makes(p)' /\ Makes(q)' /\ request'[p].issue = request'[q].issue => p = q
    BY <1>2, <1>3, <2>2 DEF ValuesInv, MakersHold
  <2>4. \A q \in FieldRequest : request'[q].pc = "commit" => request'[q].makes
    BY <1>2, <1>3 DEF ValuesInv, MakersHold
  <2> QED
    BY <2>1, <2>3, <2>4 DEF MakersHold
<1>6. ValuesNeedIssue'
  <2>1. \A g \in Field : fieldValue'[i][g] = None
    BY <1>1 DEF ValuesInv, ValuesNeedIssue, There
  <2> QED
    BY <1>1, <1>3, <2>1, OneRowChanges
<1> QED
  BY <1>5, <1>6 DEF ValuesInv

(* The maker of an issue ends, and its row is no longer OPEN. *)
LEMMA MakerEnds ==
    ASSUME CreationInv, ValuesInv, NEW r \in FieldRequest, Makes(r), NEW rec \in CreatedRecord,
           created' = [created EXCEPT ![request[r].issue] = rec],
           request' = [request EXCEPT ![r] = NoRequest], UNCHANGED fieldValue
    PROVE  ValuesInv' /\ \A f \in Field : fieldValue'[request[r].issue][f] = None
<1>1. PICK i \in IssueRow : i = request[r].issue
  BY DEF Makes, CreationInv, RequestsNameRows
<1>2. /\ request'[r] = NoRequest /\ \A q \in FieldRequest \ {r} : request'[q] = request[q]
      /\ \A j \in IssueRow \ {i} : created'[j] = created[j]
  BY <1>1 DEF CreationInv, CreationTypeOK
<1>3. \A q \in FieldRequest : Makes(q)' => q # r /\ Makes(q) /\ request'[q] = request[q]
  BY <1>2, NoRequestTyped DEF Makes
<1>4. \A q \in FieldRequest : Makes(q)' => request[q].issue \in IssueRow \ {i}
  BY <1>1, <1>3 DEF ValuesInv, MakersHold, Makes, CreationInv, RequestsNameRows
<1>5. MakersHold'
  <2>1. \A q \in FieldRequest : Makes(q)' => created'[request'[q].issue].row = "OPEN"
    BY <1>2, <1>3, <1>4 DEF ValuesInv, MakersHold
  <2>2. \A p, q \in FieldRequest :
           Makes(p)' /\ Makes(q)' /\ request'[p].issue = request'[q].issue => p = q
    BY <1>3 DEF ValuesInv, MakersHold
  <2>3. \A q \in FieldRequest : request'[q].pc = "commit" => request'[q].makes
    BY <1>2, NoRequestTyped DEF ValuesInv, MakersHold
  <2> QED
    BY <2>1, <2>2, <2>3 DEF MakersHold
<1>6. \A f \in Field : fieldValue[i][f] = None
  BY <1>1 DEF ValuesInv, MakersHold, ValuesNeedIssue, There
<1>7. ValuesNeedIssue'
  BY <1>2, <1>6, OneRowChanges
<1> QED
  BY <1>1, <1>5, <1>6, <1>7 DEF ValuesInv

LEMMA CommitCreateEnds ==
    ASSUME CreationInv, ValuesInv, NEW r \in FieldRequest, CommitCreate(r)
    PROVE  ValuesInv' /\ \A f \in Field : fieldValue'[request[r].issue][f] = None
<1>1. Makes(r)
  BY DEF CommitCreate, Makes, ValuesInv, MakersHold
<1>2. PICK i \in IssueRow : i = request[r].issue
  BY <1>1 DEF Makes, CreationInv, RequestsNameRows
<1> DEFINE rec == [created[i] EXCEPT !.row = "LIVE"]
<1>3. rec \in CreatedRecord
  BY DEF CreationInv, CreationTypeOK, CreatedRecord, Row
<1>4. created' = [created EXCEPT ![i] = rec] /\ request' = [request EXCEPT ![r] = NoRequest]
      /\ UNCHANGED fieldValue
  BY <1>2 DEF CommitCreate
<1> HIDE DEF rec
<1> QED
  BY <1>1, <1>2, <1>3, <1>4, MakerEnds

LEMMA RequestFailsEnds ==
    ASSUME CreationInv, ValuesInv, NEW r \in FieldRequest, RequestFails(r)
    PROVE  ValuesInv'
<1>1. request[r].pc # "idle" /\ request' = [request EXCEPT ![r] = NoRequest]
      /\ UNCHANGED fieldValue
  BY DEF RequestFails
<1>2. CASE request[r].makes
  <2>1. [row |-> "GONE", assignee |-> None] \in CreatedRecord
    BY DEF CreatedRecord, Row
  <2>2. created' = [created EXCEPT ![request[r].issue] = [row |-> "GONE", assignee |-> None]]
    BY <1>2 DEF RequestFails
  <2> QED
    BY <1>1, <1>2, <2>1, <2>2, MakerEnds DEF Makes
<1>3. CASE ~request[r].makes
  <2>1. UNCHANGED created
    BY <1>3 DEF RequestFails
  <2> QED
    BY <1>1, <2>1, NoRequestTyped, RequestSameRows
<1> QED
  BY <1>2, <1>3

LEMMA CommitUpdateStores ==
    ASSUME CreationInv, ValuesInv, NEW r \in FieldRequest, CommitUpdate(r)
    PROVE  ValuesInv'
<1> DEFINE q == request[r]
<1>1. q \in RequestRecord /\ q.pc = "change" /\ q.issue \in IssueRow
  BY DEF CommitUpdate, CreationInv, CreationTypeOK, RequestsNameRows
<1>2. UNCHANGED fieldValue /\ \A i \in IssueRow : created'[i].row = created[i].row
  <2>1. created \in [IssueRow -> CreatedRecord] /\ created[q.issue] \in CreatedRecord
    BY <1>1 DEF CreationInv, CreationTypeOK
  <2>2. [created[q.issue] EXCEPT !.assignee = q.assignee].row = created[q.issue].row
    BY <2>1 DEF CreatedRecord
  <2> QED
    BY <1>1, <2>1, <2>2 DEF CommitUpdate
<1>3. [q EXCEPT !.pc = "defs"].pc = "defs" /\ [q EXCEPT !.pc = "defs"].makes = q.makes
      /\ [q EXCEPT !.pc = "defs"].issue = q.issue
  BY <1>1 DEF RequestRecord
<1>4. \/ request' = [request EXCEPT ![r] = NoRequest]
      \/ request' = [request EXCEPT ![r] = [q EXCEPT !.pc = "defs"]]
  BY DEF CommitUpdate
<1>5. CASE request' = [request EXCEPT ![r] = NoRequest]
  BY <1>2, <1>5, NoRequestTyped, RequestSameRows
<1>6. CASE request' = [request EXCEPT ![r] = [q EXCEPT !.pc = "defs"]]
  BY <1>1, <1>2, <1>3, <1>6, RequestSameRows DEF Makes
<1> QED
  BY <1>4, <1>5, <1>6

LEMMA ReadDefsStores ==
    ASSUME CreationInv, ValuesInv, NEW r \in FieldRequest, ReadDefs(r)
    PROVE  ValuesInv'
<1> DEFINE q == request[r]
           fits == q.value \in field[q.field].suits
           found == [q EXCEPT !.pc = "value", !.fits = fits]
           missing == [q EXCEPT !.pc = "commit"]
<1>1. q \in RequestRecord /\ q.pc = "defs"
  BY DEF ReadDefs, CreationInv, CreationTypeOK
<1>2. /\ UNCHANGED <<created, fieldValue>>
      /\ \/ request' = [request EXCEPT ![r] = found]
         \/ q.makes /\ request' = [request EXCEPT ![r] = missing]
         \/ request' = [request EXCEPT ![r] = NoRequest]
  BY DEF ReadDefs
<1>3. /\ found.pc = "value" /\ found.makes = q.makes /\ found.issue = q.issue
      /\ missing.pc = "commit" /\ missing.makes = q.makes /\ missing.issue = q.issue
  BY <1>1 DEF RequestRecord
<1> HIDE DEF fits, found, missing
<1>4. CASE request' = [request EXCEPT ![r] = found]
  BY <1>1, <1>2, <1>3, <1>4, RequestSameRows DEF Makes
<1>5. CASE q.makes /\ request' = [request EXCEPT ![r] = missing]
  BY <1>1, <1>2, <1>3, <1>5, RequestSameRows DEF Makes
<1>6. CASE request' = [request EXCEPT ![r] = NoRequest]
  BY <1>2, <1>6, NoRequestTyped, RequestSameRows
<1> QED
  BY <1>2, <1>4, <1>5, <1>6

(* The upsert for an issue that is not LIVE fails. *)
LEMMA WriteValueStores ==
    ASSUME CreationInv, ValuesInv, NEW r \in FieldRequest, WriteValue(r)
    PROVE  ValuesInv'
<1> DEFINE q == request[r]
           done == [q EXCEPT !.pc = "commit"]
<1>1. q \in RequestRecord /\ q.pc = "value" /\ q.issue \in IssueRow
  BY DEF WriteValue, CreationInv, CreationTypeOK, RequestsNameRows
<1>2. /\ UNCHANGED created
      /\ \/ q.makes /\ request' = [request EXCEPT ![r] = done]
         \/ request' = [request EXCEPT ![r] = NoRequest]
  BY DEF WriteValue
<1>3. \A i \in IssueRow : \A f \in Field :
         fieldValue'[i][f] \in {fieldValue[i][f], None} \/ There(i)
  <2>1. \/ fieldValue' = fieldValue
        \/ There(q.issue) /\ fieldValue' = [fieldValue EXCEPT ![q.issue][q.field] = q.value]
        \/ fieldValue' = [fieldValue EXCEPT ![q.issue][q.field] = None]
    BY DEF WriteValue, Upserted
  <2>2. /\ fieldValue \in [IssueRow -> [Field -> Value \cup {None}]]
        /\ fieldValue[q.issue] \in [Field -> Value \cup {None}]
    BY <1>1 DEF CreationInv, CreationTypeOK
  <2> QED
    BY <1>1, <2>1, <2>2
<1>4. done.pc = "commit" /\ done.makes = q.makes /\ done.issue = q.issue
  BY <1>1 DEF RequestRecord
<1> HIDE DEF done
<1>5. CASE q.makes /\ request' = [request EXCEPT ![r] = done]
  BY <1>1, <1>2, <1>3, <1>4, <1>5, RequestSameRows DEF Makes
<1>6. CASE request' = [request EXCEPT ![r] = NoRequest]
  BY <1>2, <1>3, <1>6, NoRequestTyped, RequestSameRows
<1> QED
  BY <1>2, <1>5, <1>6

(* A request that makes no issue begins, or writes its comment. *)
LEMMA OthersStore ==
    ASSUME CreationInv, ValuesInv, NEW r \in FieldRequest,
           \/ \E u, i, assignee, f, v : UpdateIssue(r, u, i, assignee, f, v)
           \/ \E u, i, parent : BeginComment(r, u, i, parent)
           \/ InsertComment(r)
    PROVE  ValuesInv'
<1>1. UNCHANGED <<created, fieldValue>>
  BY DEF UpdateIssue, BeginComment, InsertComment
<1>2. \E rec : /\ request' = [request EXCEPT ![r] = rec]
               /\ rec.makes = FALSE /\ rec.pc # "commit"
  <2>1. ASSUME NEW u, NEW i, NEW assignee, NEW f, NEW v, UpdateIssue(r, u, i, assignee, f, v)
        PROVE  \E rec : /\ request' = [request EXCEPT ![r] = rec]
                        /\ rec.makes = FALSE /\ rec.pc # "commit"
    <3> DEFINE new == [NoRequest EXCEPT !.pc = "change", !.user = u, !.issue = i,
                            !.assignee = assignee, !.before = created[i].assignee,
                            !.field = f, !.value = v]
    <3>1. new.makes = FALSE /\ new.pc = "change"
      BY DEF NoRequest
    <3>2. request' = [request EXCEPT ![r] = new]
      BY <2>1 DEF UpdateIssue
    <3> HIDE DEF new
    <3> QED
      BY <3>1, <3>2
  <2>2. ASSUME NEW u, NEW i, NEW parent, BeginComment(r, u, i, parent)
        PROVE  \E rec : /\ request' = [request EXCEPT ![r] = rec]
                        /\ rec.makes = FALSE /\ rec.pc # "commit"
    <3> DEFINE new == [NoRequest EXCEPT !.pc = "comment", !.user = u, !.issue = i,
                                        !.parent = parent]
    <3>1. new.makes = FALSE /\ new.pc = "comment"
      BY DEF NoRequest
    <3>2. request' = [request EXCEPT ![r] = new]
      BY <2>2 DEF BeginComment
    <3> HIDE DEF new
    <3> QED
      BY <3>1, <3>2
  <2>3. CASE InsertComment(r)
    BY <2>3, NoRequestTyped DEF InsertComment, NoRequest
  <2> QED
    BY <2>1, <2>2, <2>3
<1>3. PICK rec : /\ request' = [request EXCEPT ![r] = rec]
                 /\ rec.makes = FALSE /\ rec.pc # "commit"
  BY <1>2
<1> QED
  BY <1>1, <1>3, RequestSameRows

LEMMA QuietStores ==
    ASSUME CreationInv, ValuesInv,
           \/ \E f \in Field :
                 \/ \E suits \in Suits : CreateField(f, suits) \/ UpdateField(f, suits)
                 \/ DeleteField(f)
           \/ \E i \in IssueRow, u \in User : AutoWatch(i, u) \/ Watch(i, u) \/ Unwatch(i, u)
           \/ \E k \in CommentRow : DeleteComment(k)
           \/ UNCHANGED creationVars
    PROVE  ValuesInv'
<1>1. UNCHANGED <<created, request>>
  BY DEF CreateField, UpdateField, DeleteField, AutoWatch, Watch, Unwatch, DeleteComment,
         creationVars
<1>2. \A i \in IssueRow : \A f \in Field :
         fieldValue'[i][f] \in {fieldValue[i][f], None}
  <2>1. \/ fieldValue' = fieldValue
        \/ \E f \in Field : fieldValue' = [i \in IssueRow |-> [fieldValue[i] EXCEPT ![f] = None]]
    BY DEF CreateField, UpdateField, DeleteField, AutoWatch, Watch, Unwatch, DeleteComment,
           creationVars
  <2>2. fieldValue \in [IssueRow -> [Field -> Value \cup {None}]]
    BY DEF CreationInv, CreationTypeOK
  <2> QED
    BY <2>1, <2>2
<1>3. \A r \in FieldRequest :
         /\ Makes(r)' => Makes(r) /\ request'[r].issue = request[r].issue
         /\ request'[r].pc = "commit" => request'[r].makes
  BY <1>1 DEF Makes, ValuesInv, MakersHold
<1> QED
  BY <1>1, <1>2, <1>3, SameRows

LEMMA DropStores ==
    ASSUME CreationInv, ValuesInv, NEW i \in IssueRow, DropIssue(i)
    PROVE  ValuesInv'
<1>1. /\ There(i) /\ UNCHANGED request
      /\ created' = [created EXCEPT ![i] = [row |-> "GONE", assignee |-> None]]
      /\ fieldValue' = [fieldValue EXCEPT ![i] = [f \in Field |-> None]]
  BY DEF DropIssue
<1>2. /\ \A j \in IssueRow \ {i} : created'[j] = created[j]
      /\ \A j \in IssueRow : j # i => fieldValue'[j] = fieldValue[j]
      /\ \A f \in Field : fieldValue'[i][f] = None
  BY <1>1 DEF CreationInv, CreationTypeOK
<1>3. ValuesNeedIssue'
  BY <1>2, OneRowChanges
<1>4. \A r \in FieldRequest : Makes(r) => request[r].issue \in IssueRow \ {i}
  BY <1>1 DEF Makes, There, CreationInv, RequestsNameRows, ValuesInv, MakersHold
<1>5. MakersHold'
  BY <1>1, <1>2, <1>4 DEF Makes, ValuesInv, MakersHold
<1> QED
  BY <1>3, <1>5 DEF ValuesInv

LEMMA ValuesInductive == CreationInv /\ ValuesInv /\ [CreationNext]_creationVars => ValuesInv'
<1> SUFFICES ASSUME CreationInv, ValuesInv, [CreationNext]_creationVars PROVE ValuesInv'
  OBVIOUS
<1>1. ASSUME NEW r \in FieldRequest, NEW u \in User, NEW assignee \in User \cup {None},
             NEW g \in Given,
             \/ OpenIssue(r, u, assignee, g[1], g[2])
             \/ \E i \in IssueRow : UpdateIssue(r, u, i, assignee, g[1], g[2])
      PROVE  ValuesInv'
  BY <1>1, OpenStoresNothing, OthersStore
<1>2. ASSUME NEW r \in FieldRequest,
             \/ CommitUpdate(r) \/ ReadDefs(r) \/ WriteValue(r)
             \/ CommitCreate(r) \/ RequestFails(r)
      PROVE  ValuesInv'
  BY <1>2, CommitUpdateStores, ReadDefsStores, WriteValueStores, CommitCreateEnds,
     RequestFailsEnds
<1>3. ASSUME NEW r \in FieldRequest,
             \/ InsertComment(r)
             \/ \E u \in User, i \in IssueRow, parent \in CommentRow \cup {None} :
                   BeginComment(r, u, i, parent)
      PROVE  ValuesInv'
  BY <1>3, OthersStore
<1> QED
  BY <1>1, <1>2, <1>3, DropStores, QuietStores DEF CreationNext

LEMMA ValuesInit == CreationInit => ValuesInv
<1> SUFFICES ASSUME CreationInit PROVE ValuesInv
  OBVIOUS
<1>1. \A r \in FieldRequest : request[r].pc = "idle"
  BY NoRequestTyped DEF CreationInit
<1> QED
  BY <1>1 DEF CreationInit, ValuesInv, MakersHold, ValuesNeedIssue, Makes

(* A field given when an issue is created is never stored with it: not for *)
(* some schedule, but for none, however requests, edits of the definition  *)
(* and failures interleave.                                                *)
THEOREM CreationStoresNothing == CreationSpec => [][NothingStored]_creationVars
<1>1. CreationInv /\ ValuesInv => NothingStored
  BY CommitCreateEnds DEF NothingStored
<1> QED
  BY <1>1, CreationInvInit, CreationInductive, ValuesInit, ValuesInductive, PTL
     DEF CreationSpec

-----------------------------------------------------------------------------
(* The journal.  The batches on their way to the database share no entry,  *)
(* with one another or with the buffer, and only entries that have a row   *)
(* grow old.                                                               *)

BatchesApart ==
    /\ \A b \in flying : b \cap Range(buffer) = {}
    /\ \A b, c \in flying : b # c => b \cap c = {}

JournalInv == JournalTypeOK /\ EntriesAccounted /\ BatchesApart /\ aged \subseteq Kept

LEMMA RangeTyped == ASSUME NEW S, NEW s \in Seq(S) PROVE Range(s) \in SUBSET S
BY DEF Range

LEMMA RangeOfNone == Range(<<>>) = {}
BY DEF Range

LEMMA RangeAfterAppend ==
    ASSUME NEW S, NEW s \in Seq(S), NEW e \in S
    PROVE  Range(Append(s, e)) = Range(s) \cup {e}
<1>1. DOMAIN Append(s, e) = DOMAIN s \cup {Len(s) + 1}
  OBVIOUS
<1>2. /\ Append(s, e)[Len(s) + 1] = e
      /\ \A k \in DOMAIN s : Append(s, e)[k] = s[k]
  OBVIOUS
<1> QED
  BY <1>1, <1>2 DEF Range

LEMMA JournalInvInit == JournalInit => JournalInv
BY RangeOfNone, JournalAssumption
   DEF JournalInit, JournalInv, JournalTypeOK, EntriesAccounted, BatchesApart, Held, Kept

(* The buffer is flushed before it is full, so that nothing is pushed out. *)
LEMMA NothingPushedOut ==
    ASSUME JournalInv
    PROVE  RoomIn(buffer) = buffer /\ PushedOut(buffer) = {}
BY JournalAssumption
   DEF JournalInv, JournalTypeOK, EntriesAccounted, RoomIn, PushedOut

LEMMA EnqueueKeeps ==
    ASSUME JournalInv, NEW e \in LogEntry, Enqueue(e)
    PROVE  JournalInv'
<1> DEFINE entries == Append(buffer, e)
<1>1. /\ buffer \in Seq(LogEntry) /\ entries \in Seq(LogEntry)
      /\ Range(entries) = Range(buffer) \cup {e} /\ entries # <<>>
      /\ Range(buffer) \in SUBSET LogEntry
  BY RangeAfterAppend, RangeTyped DEF JournalInv, JournalTypeOK
<1>2. /\ e \notin taken /\ taken' = taken \cup {e} /\ lost' = lost
      /\ UNCHANGED <<rows, aged, deleted, logging, process>>
      /\ \/ buffer' = <<>> /\ flying' = flying \cup {Range(entries)}
         \/ Len(entries) < FlushThreshold /\ buffer' = entries /\ flying' = flying
  <2>1. /\ e \notin taken /\ taken' = taken \cup {e} /\ lost' = lost
        /\ UNCHANGED <<rows, aged, deleted, logging, process>>
    BY NothingPushedOut DEF Enqueue, Fresh
  <2>2. IF Len(entries) >= FlushThreshold
        THEN Flush(entries) ELSE buffer' = entries /\ UNCHANGED flying
    BY NothingPushedOut DEF Enqueue
  <2>3. Len(entries) \in Nat
    BY <1>1
  <2> HIDE DEF entries
  <2>4. CASE Len(entries) >= FlushThreshold
    BY <1>1, <2>1, <2>2, <2>4 DEF Flush
  <2>5. CASE ~(Len(entries) >= FlushThreshold)
    BY <2>1, <2>2, <2>3, <2>5, JournalAssumption
  <2> QED
    BY <2>1, <2>4, <2>5
<1> HIDE DEF entries
<1>3. Held' = Held \cup {e} /\ Kept' = Kept
  BY <1>1, <1>2, RangeOfNone DEF Held, Kept
<1>4. JournalTypeOK'
  <2>1. buffer' \in Seq(LogEntry) /\ taken' \in SUBSET LogEntry
    <3>1. <<>> \in Seq(LogEntry) /\ taken \in SUBSET LogEntry
      BY DEF JournalInv, JournalTypeOK
    <3>2. taken' \in SUBSET LogEntry
      BY <1>2, <3>1
    <3> QED
      BY <1>1, <1>2, <3>1, <3>2
  <2>2. flying' \in SUBSET SUBSET LogEntry
    <3>1. flying \in SUBSET SUBSET LogEntry /\ Range(entries) \in SUBSET LogEntry
      BY <1>1 DEF JournalInv, JournalTypeOK
    <3> QED
      BY <1>2, <3>1
  <2> QED
    BY <1>2, <2>1, <2>2 DEF JournalInv, JournalTypeOK
<1>5. e \notin Held \cup Kept \cup lost \cup deleted
  BY <1>2 DEF JournalInv, EntriesAccounted
<1>6. EntriesAccounted'
  <2>1. Len(buffer') < FlushThreshold
    BY <1>2, JournalAssumption
  <2>2. (taken = Held \cup Kept \cup lost \cup deleted)'
    BY <1>2, <1>3 DEF JournalInv, EntriesAccounted
  <2>3. (Held \cap (Kept \cup lost) = {} /\ Kept \cap lost = {})'
    BY <1>2, <1>3, <1>5 DEF JournalInv, EntriesAccounted
  <2> QED
    BY <1>2, <2>1, <2>2, <2>3 DEF JournalInv, EntriesAccounted
<1>7. BatchesApart'
  <2>1. \A b \in flying : b \cap Range(entries) = {}
    BY <1>1, <1>5 DEF JournalInv, BatchesApart, Held
  <2> QED
    BY <1>2, <2>1, RangeOfNone DEF JournalInv, BatchesApart
<1> QED
  BY <1>2, <1>3, <1>4, <1>6, <1>7 DEF JournalInv

LEMMA WriteAloneKeeps ==
    ASSUME JournalInv, NEW e \in LogEntry, NEW switch \in Switches, WriteAlone(e, switch)
    PROVE  JournalInv'
<1>1. /\ e \notin taken /\ taken' = taken \cup {e} /\ flying' = flying \cup {{e}}
      /\ UNCHANGED <<buffer, rows, lost, aged, deleted, logging, process>>
  BY DEF WriteAlone, Fresh
<1>2. Held' = Held \cup {e} /\ Kept' = Kept
  BY <1>1 DEF Held, Kept
<1>3. e \notin Held \cup Kept \cup lost \cup deleted
  BY <1>1 DEF JournalInv, EntriesAccounted
<1>4. JournalTypeOK'
  BY <1>1 DEF JournalInv, JournalTypeOK
<1>5. EntriesAccounted'
  <2>1. (taken = Held \cup Kept \cup lost \cup deleted)'
    BY <1>1, <1>2 DEF JournalInv, EntriesAccounted
  <2>2. (Held \cap (Kept \cup lost) = {} /\ Kept \cap lost = {})'
    BY <1>1, <1>2, <1>3 DEF JournalInv, EntriesAccounted
  <2> QED
    BY <1>1, <2>1, <2>2 DEF JournalInv, EntriesAccounted
<1>6. BatchesApart'
  <2>1. \A b \in flying \cup {Range(buffer)} : b \cap {e} = {}
    BY <1>3 DEF Held
  <2> QED
    BY <1>1, <2>1 DEF JournalInv, BatchesApart
<1> QED
  BY <1>1, <1>2, <1>4, <1>5, <1>6 DEF JournalInv

LEMMA FlushKeeps ==
    ASSUME JournalInv, Flush(buffer), process' \in {"up", "closing"},
           UNCHANGED <<rows, taken, lost, aged, deleted, logging>>
    PROVE  JournalInv'
<1>1. /\ buffer' = <<>>
      /\ flying' = flying \cup {Range(buffer)} \/ (flying' = flying /\ Range(buffer) = {})
  BY RangeOfNone DEF Flush
<1>2. Held' = Held /\ Kept' = Kept
  BY <1>1, RangeOfNone DEF Held, Kept
<1>3. JournalTypeOK'
  BY <1>1, RangeTyped DEF JournalInv, JournalTypeOK
<1>4. EntriesAccounted'
  BY <1>1, <1>2, JournalAssumption DEF JournalInv, EntriesAccounted
<1>5. BatchesApart'
  BY <1>1, RangeOfNone DEF JournalInv, BatchesApart
<1> QED
  BY <1>2, <1>3, <1>4, <1>5 DEF JournalInv

LEMMA BatchEndKeeps ==
    ASSUME JournalInv, NEW batch \in flying, BatchWritten(batch) \/ BatchFails(batch)
    PROVE  JournalInv'
<1>1. /\ flying' = flying \ {batch} /\ UNCHANGED <<buffer, taken, aged, deleted, logging, process>>
      /\ batch \subseteq LogEntry /\ batch \subseteq Held
  BY DEF BatchWritten, BatchFails, InsertRows, JournalInv, JournalTypeOK, Held
<1>2. Held' = Held \ batch
  BY <1>1 DEF Held, JournalInv, BatchesApart
<1>3. BatchesApart'
  BY <1>1 DEF JournalInv, BatchesApart
<1>4. CASE BatchWritten(batch)
  <2>1. /\ rows \in [LogEntry -> Nat] /\ lost' = lost
        /\ rows' = [e \in LogEntry |-> IF e \in batch THEN rows[e] + 1 ELSE rows[e]]
    BY <1>4 DEF BatchWritten, InsertRows, JournalInv, JournalTypeOK
  <2>2. \A e \in batch : rows[e] = 0
    BY <1>1, <2>1 DEF JournalInv, EntriesAccounted, Kept
  <2>3. rows' \in [LogEntry -> Nat] /\ Kept' = Kept \cup batch
    BY <1>1, <2>1 DEF Kept
  <2>4. \A e \in LogEntry : rows'[e] <= 1
    BY <2>1, <2>2 DEF JournalInv, EntriesAccounted
  <2>5. JournalTypeOK' /\ EntriesAccounted'
    BY <1>1, <1>2, <2>1, <2>3, <2>4 DEF JournalInv, JournalTypeOK, EntriesAccounted
  <2> QED
    BY <1>1, <1>3, <2>3, <2>5 DEF JournalInv
<1>5. CASE BatchFails(batch)
  <2>1. lost' = lost \cup batch /\ rows' = rows /\ Kept' = Kept
    BY <1>5 DEF BatchFails, Kept
  <2>2. JournalTypeOK' /\ EntriesAccounted'
    BY <1>1, <1>2, <2>1 DEF JournalInv, JournalTypeOK, EntriesAccounted
  <2> QED
    BY <1>1, <1>3, <2>1, <2>2 DEF JournalInv
<1> QED
  BY <1>4, <1>5

LEMMA CleanUpLogsKeeps ==
    ASSUME JournalInv, CleanUpLogs
    PROVE  JournalInv'
<1>1. /\ rows \in [LogEntry -> Nat] /\ aged \subseteq Kept
      /\ rows' = [e \in LogEntry |-> IF e \in aged THEN 0 ELSE rows[e]]
      /\ deleted' = deleted \cup aged /\ aged' = {}
      /\ UNCHANGED <<buffer, flying, taken, lost, logging, process>>
  BY DEF CleanUpLogs, JournalInv, JournalTypeOK
<1>2. rows' \in [LogEntry -> Nat] /\ Held' = Held /\ Kept' = Kept \ aged
  BY <1>1 DEF Held, Kept
<1>3. \A e \in LogEntry : rows'[e] <= 1
  BY <1>1 DEF JournalInv, EntriesAccounted
<1>4. JournalTypeOK' /\ EntriesAccounted' /\ BatchesApart'
  BY <1>1, <1>2, <1>3 DEF JournalInv, JournalTypeOK, EntriesAccounted, BatchesApart
<1> QED
  BY <1>1, <1>4 DEF JournalInv

LEMMA JournalProcessEndsKeeps ==
    ASSUME JournalInv, ProcessEnds
    PROVE  JournalInv'
<1>1. /\ lost' = lost \cup Held /\ buffer' = <<>> /\ flying' = {} /\ process' = "up"
      /\ UNCHANGED <<rows, taken, aged, deleted, logging>>
      /\ Held \in SUBSET LogEntry
  BY RangeTyped DEF ProcessEnds, JournalInv, JournalTypeOK, Held
<1>2. Held' = {} /\ Kept' = Kept
  BY <1>1, RangeOfNone DEF Held, Kept
<1>3. JournalTypeOK' /\ EntriesAccounted' /\ BatchesApart'
  BY <1>1, <1>2, JournalAssumption
     DEF JournalInv, JournalTypeOK, EntriesAccounted, BatchesApart
<1> QED
  BY <1>1, <1>2, <1>3 DEF JournalInv

LEMMA JournalInductive == JournalInv /\ [JournalNext]_journalVars => JournalInv'
<1> SUFFICES ASSUME JournalInv, [JournalNext]_journalVars PROVE JournalInv'
  OBVIOUS
<1>1. CASE UNCHANGED journalVars
  BY <1>1 DEF journalVars, JournalInv, JournalTypeOK, EntriesAccounted, BatchesApart, Held, Kept
<1>2. ASSUME NEW e \in LogEntry,
             \/ Enqueue(e)
             \/ \E status \in Statuses : Caught(e, status)
             \/ \E slow \in BOOLEAN : SlowRequest(e, slow)
      PROVE  JournalInv'
  BY <1>2, EnqueueKeeps DEF Caught, SlowRequest
<1>3. ASSUME NEW e \in LogEntry, Ages(e) PROVE JournalInv'
  BY <1>3 DEF Ages, JournalInv, JournalTypeOK, EntriesAccounted, BatchesApart, Held, Kept
<1>4. CASE TimedFlush \/ CloseProcess
  <2>1. process' \in {"up", "closing"} /\ Flush(buffer)
        /\ UNCHANGED <<rows, taken, lost, aged, deleted, logging>>
    BY <1>4 DEF TimedFlush, CloseProcess
  <2> QED
    BY <2>1, FlushKeeps
<1>5. ASSUME NEW on \in SUBSET Switches, SwitchLogging(on) PROVE JournalInv'
  BY <1>5 DEF SwitchLogging, JournalInv, JournalTypeOK, EntriesAccounted, BatchesApart,
              Held, Kept
<1> QED
  BY <1>1, <1>2, <1>3, <1>4, <1>5, WriteAloneKeeps, BatchEndKeeps, CleanUpLogsKeeps,
     JournalProcessEndsKeeps
     DEF JournalNext

(* Every entry that was accepted is waiting, written once, lost or         *)
(* deleted, and never two of these, whatever comes in while batches are    *)
(* inserted, fail, or end with the process.                                *)
THEOREM JournalSafety == JournalSpec => []EntriesAccounted
<1>1. JournalInv => EntriesAccounted
  BY DEF JournalInv
<1> QED
  BY <1>1, JournalInvInit, JournalInductive, PTL DEF JournalSpec
=============================================================================
