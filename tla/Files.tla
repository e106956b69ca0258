------------------------------- MODULE Files -------------------------------
(***************************************************************************)
(* Timetable-import uploads: app/files/service.py, the sweep of            *)
(* app/files/jobs.py, app/files/repository.py and app/shared/storage.py.   *)
(*                                                                         *)
(* An upload is an object in storage and a document in MongoDB, and no     *)
(* transaction spans the two.  Uploading writes the object first, a user's *)
(* delete removes the document first, the sweep removes the object first.  *)
(* The API processes and the workers run side by side, so each of these    *)
(* operations is a step of its own.                                        *)
(*                                                                         *)
(* An upload is named by a number; its r2_key and its document's _id are   *)
(* that number.  Requests of other users for a file end in NotFoundError   *)
(* before any effect and are left out; so is the only status, which is     *)
(* pending_parse.  The clock counts hours.                                 *)
(***************************************************************************)
EXTENDS Integers, FiniteSets

CONSTANTS Requests,         \* API handlers that may run at the same time
          Sweeps,           \* runs of the cleanup job that may overlap
          Images,           \* what users send: records [bytes, format, width, height]
          MaxBytes,         \* MAX_UPLOAD_BYTES
          MaxDimension,     \* _MAX_PIXEL_DIMENSION
          AbandonedTTL,     \* ABANDONED_TTL_HOURS
          SweepCap,         \* _STALE_SWEEP_HARD_CAP
          MaxUploads,       \* bound on the uploads
          LastUpload,       \* bound on the time an object is stored, so that each grows old
          MaxTime,          \* bound on the clock
          MaxFaults         \* bound on handlers and sweeps that fail

ASSUME FilesAssumption ==
    /\ {AbandonedTTL, MaxUploads, LastUpload, MaxTime, MaxFaults} \subseteq Nat
    /\ SweepCap \in Nat \ {0}
    /\ MaxTime > LastUpload + AbandonedTTL

VARIABLES clock,
          uploads,    \* uploads begun, which names them
          objects,    \* keys in storage
          docs,       \* file_uploads: the keys with a document
          created,    \* created_at of each upload
          req,        \* what each API handler is doing
          sweep,      \* what each sweep is doing
          orphaned,   \* history: objects a failed handler left without a document
          bared,      \* history: documents a failed sweep left without an object
          faults

vars == <<clock, uploads, objects, docs, created, req, sweep, orphaned, bared, faults>>

Key == 1..MaxUploads

NoRequest == [pc |-> "idle"]

NoSweep == [pc |-> "idle"]

TypeOK ==
    /\ clock \in 0..MaxTime
    /\ uploads \in 0..MaxUploads
    /\ {objects, docs, orphaned, bared} \subseteq SUBSET (1..uploads)
    /\ created \in [Key -> 0..MaxTime]
    /\ req \in [Requests -> {NoRequest} \cup [pc: {"storing", "inserting", "erasing"}, key: Key]]
    /\ sweep \in [Sweeps -> {NoSweep}
                    \cup [pc: {"object"}, todo: (SUBSET Key) \ {{}}]
                    \cup [pc: {"document"}, todo: SUBSET Key, key: Key]]
    /\ faults \in 0..MaxFaults

-----------------------------------------------------------------------------
Init ==
    /\ clock = 0
    /\ uploads = 0
    /\ objects = {}
    /\ docs = {}
    /\ created = [k \in Key |-> 0]
    /\ req = [p \in Requests |-> NoRequest]
    /\ sweep = [w \in Sweeps |-> NoSweep]
    /\ orphaned = {}
    /\ bared = {}
    /\ faults = 0

Goto(p, r) == req' = [req EXCEPT ![p] = r]

Finish(p) == Goto(p, NoRequest)

(***************************************************************************)
(* The checks of upload_timetable_import and _reencode_image.              *)
(***************************************************************************)
AllowedFormats == {"JPEG", "PNG", "WEBP"}

Acceptable(img) ==
    /\ img.bytes \in 1..MaxBytes
    /\ img.format \in AllowedFormats
    /\ img.width <= MaxDimension
    /\ img.height <= MaxDimension
    /\ img.width * img.height <= MaxDimension * MaxDimension

(***************************************************************************)
(* upload_timetable_import: a fresh key, put, then the document, stamped   *)
(* with the time read after put returned.  (Upload is also where a         *)
(* rejected image ends, without effect.)                                   *)
(***************************************************************************)
Upload(p) ==
    /\ req[p] = NoRequest
    /\ uploads < MaxUploads
    /\ clock <= LastUpload
    /\ \E img \in Images : Acceptable(img)
    /\ uploads' = uploads + 1
    /\ Goto(p, [pc |-> "storing", key |-> uploads + 1])
    /\ UNCHANGED <<clock, objects, docs, created, sweep, orphaned, bared, faults>>

\* put and delete of the storage clients.
Put(k) == objects' = objects \cup {k}

Erase(k) == objects' = objects \ {k}

PutObjectLast(p) ==     \* slip: the document first, the object after
    LET k == req[p].key IN
    /\ req[p].pc = "storing"
    /\ docs' = docs \cup {k}
    /\ created' = [created EXCEPT ![k] = clock]
    /\ Goto(p, [pc |-> "inserting", key |-> k])
    /\ UNCHANGED <<clock, uploads, objects, sweep, orphaned, bared, faults>>

PutObject(p) ==
    LET k == req[p].key IN
    /\ req[p].pc = "storing"
    /\ Put(k)
    /\ created' = [created EXCEPT ![k] = clock]
    /\ Goto(p, [pc |-> "inserting", key |-> k])
    /\ UNCHANGED <<clock, uploads, docs, sweep, orphaned, bared, faults>>

InsertDoc(p) ==
    LET k == req[p].key IN
    /\ req[p].pc = "inserting"
    /\ docs' = docs \cup {k}
    /\ Finish(p)
    /\ UNCHANGED <<clock, uploads, objects, created, sweep, orphaned, bared, faults>>

(***************************************************************************)
(* delete: find_one_and_delete, then the object.  Deleting an object that  *)
(* is gone is no error in either storage client.                           *)
(***************************************************************************)
DeleteDocForgets(p) ==     \* slip: the object is left to the sweep
    /\ req[p] = NoRequest
    /\ \E k \in docs : docs' = docs \ {k} /\ bared' = bared \ {k}
    /\ UNCHANGED <<clock, uploads, objects, created, req, sweep, orphaned, faults>>

DeleteDoc(p) ==
    /\ req[p] = NoRequest
    /\ \E k \in docs :
         /\ docs' = docs \ {k}
         /\ bared' = bared \ {k}
         /\ Goto(p, [pc |-> "erasing", key |-> k])
    /\ UNCHANGED <<clock, uploads, objects, created, sweep, orphaned, faults>>

DeleteObject(p) ==
    /\ req[p].pc = "erasing"
    /\ Erase(req[p].key)
    /\ Finish(p)
    /\ UNCHANGED <<clock, uploads, docs, created, sweep, orphaned, bared, faults>>

-----------------------------------------------------------------------------
(***************************************************************************)
(* cleanup_abandoned_file_uploads: the list of stale documents, then for   *)
(* each the object and the document.  The cursor has no sort, so the order *)
(* is open; a list without entries ends the run at once.                   *)
(***************************************************************************)
StaleSwapped(k) == created[k] > clock - AbandonedTTL     \* slip: the comparison turned round

Stale(k) == created[k] < clock - AbandonedTTL

SweepStart(w) ==
    /\ sweep[w] = NoSweep
    /\ \E list \in SUBSET {k \in docs : Stale(k)} :
         /\ list # {}
         /\ Cardinality(list) <= SweepCap
         /\ Cardinality(list) = SweepCap \/ list = {k \in docs : Stale(k)}
         /\ sweep' = [sweep EXCEPT ![w] = [pc |-> "object", todo |-> list]]
    /\ UNCHANGED <<clock, uploads, objects, docs, created, req, orphaned, bared, faults>>

SweepObject(w) ==
    /\ sweep[w].pc = "object"
    /\ \E k \in sweep[w].todo :
         /\ Erase(k)
         /\ sweep' = [sweep EXCEPT ![w] =
                        [pc |-> "document", todo |-> sweep[w].todo \ {k}, key |-> k]]
    /\ UNCHANGED <<clock, uploads, docs, created, req, orphaned, bared, faults>>

SweepNextLate(w) ==     \* slip: the end of the list is noticed one entry late
    sweep' = [sweep EXCEPT ![w] = [pc |-> "object", todo |-> sweep[w].todo]]

SweepNext(w) ==
    sweep' = [sweep EXCEPT ![w] =
                IF sweep[w].todo = {} THEN NoSweep ELSE [pc |-> "object", todo |-> sweep[w].todo]]

SweepDoc(w) ==
    /\ sweep[w].pc = "document"
    /\ docs' = docs \ {sweep[w].key}
    /\ bared' = bared \ {sweep[w].key}
    /\ SweepNext(w)
    /\ UNCHANGED <<clock, uploads, objects, created, req, orphaned, faults>>

-----------------------------------------------------------------------------
(***************************************************************************)
(* A handler or a sweep ends between two operations: an error of storage   *)
(* or MongoDB, whose exception nothing catches, or a process that died.    *)
(***************************************************************************)
Fault == faults < MaxFaults /\ faults' = faults + 1

HandlerFails(p) ==
    /\ req[p] # NoRequest
    /\ Fault
    /\ orphaned' = orphaned \cup ({req[p].key} \cap objects)
    /\ Finish(p)
    /\ UNCHANGED <<clock, uploads, objects, docs, created, sweep, bared>>

SweepFails(w) ==
    /\ sweep[w] # NoSweep
    /\ Fault
    /\ bared' = bared \cup {k \in docs : sweep[w].pc = "document" /\ sweep[w].key = k}
    /\ sweep' = [sweep EXCEPT ![w] = NoSweep]
    /\ UNCHANGED <<clock, uploads, objects, docs, created, req, orphaned>>

Tick ==
    /\ clock < MaxTime
    /\ clock = LastUpload => \A p \in Requests : req[p].pc # "storing"
    /\ clock' = clock + 1
    /\ UNCHANGED <<uploads, objects, docs, created, req, sweep, orphaned, bared, faults>>

(***************************************************************************)
(* The next operation of a handler that runs, and of a sweep.              *)
(***************************************************************************)
HandlerStep(p) == PutObject(p) \/ InsertDoc(p) \/ DeleteObject(p)

SweepStep(w) == SweepStart(w) \/ SweepObject(w) \/ SweepDoc(w)

Next ==
    \/ \E p \in Requests : Upload(p) \/ DeleteDoc(p) \/ HandlerStep(p) \/ HandlerFails(p)
    \/ \E w \in Sweeps : SweepStep(w) \/ SweepFails(w)
    \/ Tick

Spec == Init /\ [][Next]_vars

(***************************************************************************)
(* A handler goes on until it ends or fails, time passes, and the worker   *)
(* runs the sweep every hour (app/worker.py) as long as it lives.          *)
(***************************************************************************)
Fairness ==
    /\ \A p \in Requests : WF_vars(HandlerStep(p))
    /\ \A w \in Sweeps : WF_vars(SweepStep(w))
    /\ WF_vars(Tick)

FairSpec == Spec /\ Fairness

-----------------------------------------------------------------------------
(***************************************************************************)
(* A document without its object, whose download link would lead nowhere,  *)
(* is one that a sweep is about to remove or failed to: no order of        *)
(* uploads, deletes and sweeps leaves another.                             *)
(***************************************************************************)
DocsBacked ==
    \A k \in docs \ objects :
      \/ k \in bared
      \/ \E w \in Sweeps : sweep[w].pc = "document" /\ sweep[w].key = k

(***************************************************************************)
(* An object that no document names, which no sweep will ever find, is one *)
(* whose handler is between its two operations or failed there.            *)
(***************************************************************************)
OrphansExplained ==
    \A k \in objects \ docs :
      \/ k \in orphaned
      \/ \E p \in Requests : req[p].pc \in {"inserting", "erasing"} /\ req[p].key = k

(***************************************************************************)
(* Nothing is kept for good (docs/PRIVACY.md, section 3): every object and *)
(* every document goes in the end, by the user's hand or by the sweep,     *)
(* whatever sweeps fail on the way.  The orphans of failed handlers stay.  *)
(***************************************************************************)
EventuallyErased ==
    \A k \in Key : k \in objects \cup docs ~> k \notin (objects \ orphaned) \cup docs
=============================================================================
