----------------------------- MODULE FilesProofs -----------------------------
(***************************************************************************)
(* Proofs about Files, for any number of handlers, sweeps and uploads, any *)
(* cap on a sweep's list and any age of abandonment.                       *)
(***************************************************************************)
EXTENDS Files, TLAPS

(***************************************************************************)
(* The inductive invariant.  The two properties speak of storage and the   *)
(* collection; what keeps them is who may touch a key when: a key belongs  *)
(* to at most one handler, is in the collection only while none has it,    *)
(* and no sweep has it in hand before its document was inserted.           *)
(***************************************************************************)
Busy(p) == req[p].pc \in {"storing", "inserting", "erasing"}

OwnKeys ==
    /\ \A p \in Requests : Busy(p) => req[p].key \in 1..uploads /\ req[p].key \notin docs
    /\ \A p, q \in Requests : Busy(p) /\ Busy(q) /\ req[p].key = req[q].key => p = q

StoredBeforeInsert ==
    \A p \in Requests : req[p].pc = "inserting" => req[p].key \in objects

InSweep(w, k) ==
    \/ sweep[w].pc \in {"object", "document"} /\ k \in sweep[w].todo
    \/ sweep[w].pc = "document" /\ k = sweep[w].key

SweptWereInserted ==
    /\ \A w \in Sweeps, k \in Key : InSweep(w, k) => k \in 1..uploads
    /\ \A w \in Sweeps, p \in Requests :
         req[p].pc \in {"storing", "inserting"} => ~InSweep(w, req[p].key)

ErasedBeforeDocument ==
    \A w \in Sweeps : sweep[w].pc = "document" => sweep[w].key \notin objects

IInv == /\ TypeOK
        /\ OwnKeys
        /\ StoredBeforeInsert
        /\ SweptWereInserted
        /\ ErasedBeforeDocument
        /\ DocsBacked
        /\ OrphansExplained

-----------------------------------------------------------------------------
HandlerState == {NoRequest} \cup [pc: {"storing", "inserting", "erasing"}, key: Key]

SweepState == {NoSweep} \cup [pc: {"object"}, todo: (SUBSET Key) \ {{}}]
                \cup [pc: {"document"}, todo: SUBSET Key, key: Key]

\* TypeOK, one variable at a time.
LEMMA Typed ==
  ASSUME TypeOK
  PROVE  /\ uploads \in Nat /\ uploads <= MaxUploads /\ MaxUploads \in Nat
         /\ clock \in Nat /\ faults \in Nat
         /\ 1..uploads \subseteq Key
         /\ objects \subseteq 1..uploads /\ docs \subseteq 1..uploads
         /\ orphaned \subseteq 1..uploads /\ bared \subseteq 1..uploads
         /\ req \in [Requests -> HandlerState]
         /\ sweep \in [Sweeps -> SweepState]
<1>1. uploads \in Nat /\ uploads <= MaxUploads /\ MaxUploads \in Nat /\ clock \in Nat /\ faults \in Nat
  BY FilesAssumption DEF TypeOK
<1>2. QED
  BY <1>1 DEF TypeOK, Key, HandlerState, SweepState

LEMMA HandlerShape ==
  ASSUME TypeOK, NEW p \in Requests
  PROVE  /\ req[p] = NoRequest \/ (Busy(p) /\ req[p].key \in Key)
         /\ Busy(p) => req[p] # NoRequest
<1>1. req[p] \in HandlerState
  BY Typed
<1>2. QED
  BY <1>1 DEF HandlerState, NoRequest, Busy

LEMMA SweepShape ==
  ASSUME TypeOK, NEW w \in Sweeps
  PROVE  /\ \/ sweep[w] = NoSweep
            \/ sweep[w].pc = "object" /\ sweep[w].todo \in (SUBSET Key) \ {{}}
            \/ sweep[w].pc = "document" /\ sweep[w].todo \in SUBSET Key /\ sweep[w].key \in Key
         /\ sweep[w] = NoSweep => sweep[w].pc = "idle"
<1>1. sweep[w] \in SweepState
  BY Typed
<1>2. QED
  BY <1>1 DEF SweepState, NoSweep

LEMMA InitIInv == Init => IInv
<1> SUFFICES ASSUME Init PROVE IInv
  OBVIOUS
<1>1. \A p \in Requests : req[p].pc = "idle" /\ ~ Busy(p)
  BY DEF Init, NoRequest, Busy
<1>2. \A w \in Sweeps : sweep[w].pc = "idle"
  BY DEF Init, NoSweep
<1>3. TypeOK
  BY FilesAssumption DEF Init, TypeOK
<1>4. QED
  BY <1>1, <1>2, <1>3 DEF Init, IInv, OwnKeys, StoredBeforeInsert, InSweep, SweptWereInserted,
     ErasedBeforeDocument, DocsBacked, OrphansExplained

-----------------------------------------------------------------------------
\* A handler that moves to another record: the others keep theirs.
LEMMA GotoType ==
  ASSUME TypeOK, NEW p \in Requests, NEW r \in HandlerState, Goto(p, r)
  PROVE  /\ req' \in [Requests -> HandlerState]
         /\ req'[p] = r
         /\ \A q \in Requests : q # p => req'[q] = req[q]
BY Typed DEF Goto

LEMMA UploadStep ==
  ASSUME IInv, NEW p \in Requests, Upload(p)
  PROVE  IInv'
<1> DEFINE k == uploads + 1
<1> DEFINE r == [pc |-> "storing", key |-> k]
<1>0. /\ TypeOK /\ uploads \in Nat /\ k \in Key /\ uploads' = k /\ k <= MaxUploads
      /\ UNCHANGED <<clock, objects, docs, created, sweep, orphaned, bared, faults>>
      /\ k \notin 1..uploads /\ 1..uploads \subseteq 1..k /\ k \in 1..k
  <2>1. uploads \in Nat /\ MaxUploads \in Nat /\ uploads < MaxUploads
    BY Typed DEF IInv, Upload
  <2>2. QED
    BY <2>1 DEF IInv, Upload, Key
<1>1. Goto(p, r) /\ r \in HandlerState /\ r.pc = "storing" /\ r.key = k
  BY <1>0 DEF Upload, HandlerState
<1> HIDE DEF k, r
<1>2. /\ req' \in [Requests -> HandlerState]
      /\ req'[p] = r
      /\ \A q \in Requests : q # p => req'[q] = req[q]
  BY <1>0, <1>1, GotoType
<1>3. TypeOK'
  <2>1. uploads' \in 0..MaxUploads
    BY <1>0, Typed DEF Key
  <2>2. {objects, docs, orphaned, bared}' \subseteq SUBSET (1..uploads')
    BY <1>0, Typed
  <2>3. QED
    BY <1>0, <1>2, <2>1, <2>2 DEF TypeOK, HandlerState
<1>4. OwnKeys'
  <2>1. k \notin docs /\ \A q \in Requests : Busy(q) => req[q].key # k
    BY <1>0, Typed DEF IInv, OwnKeys
  <2>2. \A q \in Requests : q # p => (Busy(q)' <=> Busy(q))
    BY <1>2 DEF Busy
  <2>3. QED
    BY <1>0, <1>1, <1>2, <2>1, <2>2 DEF IInv, OwnKeys
<1>5. StoredBeforeInsert'
  BY <1>0, <1>1, <1>2 DEF IInv, StoredBeforeInsert
<1>6. SweptWereInserted'
  <2>1. \A w \in Sweeps, j \in Key : InSweep(w, j)' <=> InSweep(w, j)
    BY <1>0 DEF InSweep
  <2>2. \A w \in Sweeps : ~ InSweep(w, k)
    BY <1>0 DEF IInv, SweptWereInserted
  <2>3. \A w \in Sweeps, q \in Requests :
          req'[q].pc \in {"storing", "inserting"} => ~ InSweep(w, req'[q].key)
    BY <1>1, <1>2, <2>2 DEF IInv, SweptWereInserted
  <2>4. QED
    BY <1>0, <2>1, <2>3 DEF IInv, SweptWereInserted, InSweep
<1>7. ErasedBeforeDocument' /\ DocsBacked'
  BY <1>0 DEF IInv, ErasedBeforeDocument, DocsBacked
<1>8. OrphansExplained'
  <2>1. req[p] = NoRequest
    BY DEF Upload
  <2>2. QED
    BY <1>0, <1>2, <2>1 DEF IInv, OrphansExplained, NoRequest
<1>9. QED
  BY <1>3, <1>4, <1>5, <1>6, <1>7, <1>8 DEF IInv

(***************************************************************************)
(* The steps of a handler that has a key: the other handlers have other    *)
(* keys, so what is stored and documented of theirs is not disturbed.      *)
(***************************************************************************)
LEMMA PutObjectStep ==
  ASSUME IInv, NEW p \in Requests, PutObject(p)
  PROVE  IInv'
<1> DEFINE r == [pc |-> "inserting", key |-> req[p].key]
<1>0. /\ TypeOK /\ Busy(p) /\ req[p].pc = "storing" /\ req[p].key \in Key
      /\ req[p].key \in 1..uploads
      /\ UNCHANGED <<clock, uploads, docs, sweep, orphaned, bared, faults>>
      /\ objects' = objects \cup {req[p].key}
      /\ created' = [created EXCEPT ![req[p].key] = clock]
  BY HandlerShape, Typed DEF IInv, OwnKeys, PutObject, Put, Busy
<1>1. Goto(p, r) /\ r \in HandlerState /\ r.pc = "inserting" /\ r.key = req[p].key
  BY <1>0 DEF PutObject, HandlerState
<1> HIDE DEF r
<1>2. /\ req' \in [Requests -> HandlerState]
      /\ req'[p].pc = "inserting" /\ req'[p].key = req[p].key
      /\ \A q \in Requests : q # p => req'[q] = req[q]
  BY <1>0, <1>1, GotoType
<1>3. TypeOK'
  <2>1. {objects, docs, orphaned, bared}' \subseteq SUBSET (1..uploads')
    BY <1>0, Typed
  <2>2. created' \in [Key -> 0..MaxTime]
    BY <1>0 DEF TypeOK
  <2>3. QED
    BY <1>0, <1>2, <2>1, <2>2 DEF TypeOK, HandlerState
<1>4. OwnKeys' /\ StoredBeforeInsert'
  BY <1>0, <1>2 DEF IInv, OwnKeys, StoredBeforeInsert, Busy
<1>5. SweptWereInserted' /\ ErasedBeforeDocument'
  <2>1. \A w \in Sweeps, j \in Key : InSweep(w, j)' <=> InSweep(w, j)
    BY <1>0 DEF InSweep
  <2>2. \A w \in Sweeps : ~ InSweep(w, req[p].key)
    BY <1>0 DEF IInv, SweptWereInserted
  <2>3. \A w \in Sweeps : sweep[w].pc = "document" => sweep[w].key # req[p].key
    BY <2>2 DEF InSweep
  <2>4. \A w \in Sweeps, q \in Requests :
          req'[q].pc \in {"storing", "inserting"} => ~ InSweep(w, req'[q].key)
    BY <1>2, <2>2 DEF IInv, SweptWereInserted
  <2>5. QED
    BY <1>0, <2>1, <2>3, <2>4
       DEF IInv, SweptWereInserted, ErasedBeforeDocument, InSweep
<1>6. DocsBacked'
  BY <1>0 DEF IInv, DocsBacked
<1>7. OrphansExplained'
  BY <1>0, <1>2 DEF IInv, OrphansExplained
<1>8. QED
  BY <1>3, <1>4, <1>5, <1>6, <1>7 DEF IInv

LEMMA InsertDocStep ==
  ASSUME IInv, NEW p \in Requests, InsertDoc(p)
  PROVE  IInv'
<1>0. /\ TypeOK /\ Busy(p) /\ req[p].pc = "inserting" /\ req[p].key \in 1..uploads
      /\ UNCHANGED <<clock, uploads, objects, created, sweep, orphaned, bared, faults>>
      /\ docs' = docs \cup {req[p].key}
      /\ req[p].key \in objects
  BY DEF IInv, OwnKeys, StoredBeforeInsert, InsertDoc, Busy
<1>1. /\ req' \in [Requests -> HandlerState]
      /\ req'[p] = NoRequest /\ NoRequest.pc = "idle"
      /\ \A q \in Requests : q # p => req'[q] = req[q]
  BY <1>0, GotoType DEF InsertDoc, Finish, HandlerState, NoRequest
<1>2. TypeOK'
  <2>1. {objects, docs, orphaned, bared}' \subseteq SUBSET (1..uploads')
    BY <1>0, Typed
  <2>2. QED
    BY <1>0, <1>1, <2>1 DEF TypeOK, HandlerState
<1>3. OwnKeys' /\ StoredBeforeInsert'
  BY <1>0, <1>1 DEF IInv, OwnKeys, StoredBeforeInsert, Busy
<1>4. SweptWereInserted' /\ ErasedBeforeDocument'
  BY <1>0, <1>1 DEF IInv, SweptWereInserted, ErasedBeforeDocument, InSweep
<1>5. DocsBacked'
  BY <1>0 DEF IInv, DocsBacked
<1>6. OrphansExplained'
  BY <1>0, <1>1 DEF IInv, OrphansExplained
<1>7. QED
  BY <1>2, <1>3, <1>4, <1>5, <1>6 DEF IInv

LEMMA DeleteDocStep ==
  ASSUME IInv, NEW p \in Requests, DeleteDoc(p)
  PROVE  IInv'
<1>0. PICK k \in docs : /\ docs' = docs \ {k} /\ bared' = bared \ {k}
                        /\ Goto(p, [pc |-> "erasing", key |-> k])
  BY DEF DeleteDoc
<1>1. /\ TypeOK /\ k \in 1..uploads /\ k \in Key /\ req[p] = NoRequest
      /\ UNCHANGED <<clock, uploads, objects, created, sweep, orphaned, faults>>
  BY Typed DEF IInv, DeleteDoc
<1>2. /\ req' \in [Requests -> HandlerState]
      /\ req'[p].pc = "erasing" /\ req'[p].key = k
      /\ \A q \in Requests : q # p => req'[q] = req[q]
  <2> DEFINE r == [pc |-> "erasing", key |-> k]
  <2>1. Goto(p, r) /\ r \in HandlerState /\ r.pc = "erasing" /\ r.key = k
    BY <1>0, <1>1 DEF HandlerState
  <2> HIDE DEF r
  <2>2. QED
    BY <1>1, <2>1, GotoType
<1>3. TypeOK'
  <2>1. {objects, docs, orphaned, bared}' \subseteq SUBSET (1..uploads')
    BY <1>0, <1>1, Typed
  <2>2. QED
    BY <1>1, <1>2, <2>1 DEF TypeOK, HandlerState
<1>4. OwnKeys' /\ StoredBeforeInsert'
  BY <1>0, <1>1, <1>2 DEF IInv, OwnKeys, StoredBeforeInsert, Busy
<1>5. SweptWereInserted' /\ ErasedBeforeDocument'
  BY <1>1, <1>2 DEF IInv, SweptWereInserted, ErasedBeforeDocument, InSweep
<1>6. DocsBacked'
  BY <1>0, <1>1 DEF IInv, DocsBacked
<1>7. OrphansExplained'
  BY <1>0, <1>1, <1>2 DEF IInv, OrphansExplained, NoRequest
<1>8. QED
  BY <1>3, <1>4, <1>5, <1>6, <1>7 DEF IInv

LEMMA DeleteObjectStep ==
  ASSUME IInv, NEW p \in Requests, DeleteObject(p)
  PROVE  IInv'
<1>0. /\ TypeOK /\ Busy(p) /\ req[p].pc = "erasing" /\ req[p].key \notin docs
      /\ UNCHANGED <<clock, uploads, docs, created, sweep, orphaned, bared, faults>>
      /\ objects' = objects \ {req[p].key}
  BY DEF IInv, OwnKeys, DeleteObject, Erase, Busy
<1>1. /\ req' \in [Requests -> HandlerState]
      /\ req'[p] = NoRequest /\ NoRequest.pc = "idle"
      /\ \A q \in Requests : q # p => req'[q] = req[q]
  BY <1>0, GotoType DEF DeleteObject, Finish, HandlerState, NoRequest
<1>2. TypeOK'
  <2>1. {objects, docs, orphaned, bared}' \subseteq SUBSET (1..uploads')
    BY <1>0, Typed
  <2>2. QED
    BY <1>0, <1>1, <2>1 DEF TypeOK, HandlerState
<1>3. OwnKeys' /\ StoredBeforeInsert'
  BY <1>0, <1>1 DEF IInv, OwnKeys, StoredBeforeInsert, Busy
<1>4. SweptWereInserted' /\ ErasedBeforeDocument'
  BY <1>0, <1>1 DEF IInv, SweptWereInserted, ErasedBeforeDocument, InSweep
<1>5. DocsBacked'
  BY <1>0 DEF IInv, DocsBacked
<1>6. OrphansExplained'
  BY <1>0, <1>1 DEF IInv, OrphansExplained
<1>7. QED
  BY <1>2, <1>3, <1>4, <1>5, <1>6 DEF IInv

LEMMA FaultCounted ==
  ASSUME TypeOK, NEW p, HandlerFails(p) \/ SweepFails(p)
  PROVE  faults' \in 0..MaxFaults
BY FilesAssumption DEF TypeOK, HandlerFails, SweepFails, Fault

LEMMA HandlerFailsStep ==
  ASSUME IInv, NEW p \in Requests, HandlerFails(p)
  PROVE  IInv'
<1>0. /\ TypeOK /\ Busy(p) /\ req[p].key \in 1..uploads
      /\ UNCHANGED <<clock, uploads, objects, docs, created, sweep, bared>>
      /\ orphaned' = orphaned \cup ({req[p].key} \cap objects)
  BY HandlerShape DEF IInv, OwnKeys, HandlerFails
<1>1. /\ req' \in [Requests -> HandlerState]
      /\ req'[p] = NoRequest /\ NoRequest.pc = "idle"
      /\ \A q \in Requests : q # p => req'[q] = req[q]
  BY <1>0, GotoType DEF HandlerFails, Finish, HandlerState, NoRequest
<1>2. TypeOK'
  <2>1. {objects, docs, orphaned, bared}' \subseteq SUBSET (1..uploads')
    BY <1>0, Typed
  <2>2. QED
    BY <1>0, <1>1, <2>1, FaultCounted DEF TypeOK, HandlerState
<1>3. OwnKeys' /\ StoredBeforeInsert'
  BY <1>0, <1>1 DEF IInv, OwnKeys, StoredBeforeInsert, Busy
<1>4. SweptWereInserted' /\ ErasedBeforeDocument'
  BY <1>0, <1>1 DEF IInv, SweptWereInserted, ErasedBeforeDocument, InSweep
<1>5. DocsBacked'
  BY <1>0 DEF IInv, DocsBacked
<1>6. OrphansExplained'
  BY <1>0, <1>1 DEF IInv, OrphansExplained
<1>7. QED
  BY <1>2, <1>3, <1>4, <1>5, <1>6 DEF IInv

-----------------------------------------------------------------------------
(***************************************************************************)
(* The steps of a sweep.  A sweep that is about to remove a document found *)
(* it inserted and has erased its object; no handler stores that key again. *)
(***************************************************************************)
LEMMA SweepType ==
  ASSUME TypeOK, NEW w \in Sweeps, NEW s \in SweepState,
         sweep' = [sweep EXCEPT ![w] = s]
  PROVE  /\ sweep' \in [Sweeps -> SweepState]
         /\ sweep'[w] = s
         /\ \A v \in Sweeps : v # w => sweep'[v] = sweep[v]
BY Typed

LEMMA SweepStartStep ==
  ASSUME IInv, NEW w \in Sweeps, SweepStart(w)
  PROVE  IInv'
<1>0. PICK list \in SUBSET {k \in docs : Stale(k)} :
         list # {} /\ sweep' = [sweep EXCEPT ![w] = [pc |-> "object", todo |-> list]]
  BY DEF SweepStart
<1>1. /\ TypeOK /\ sweep[w] = NoSweep /\ list \subseteq docs /\ docs \subseteq 1..uploads
      /\ 1..uploads \subseteq Key
      /\ UNCHANGED <<clock, uploads, objects, docs, created, req, orphaned, bared, faults>>
  BY Typed DEF IInv, SweepStart
<1>2. /\ sweep' \in [Sweeps -> SweepState]
      /\ sweep'[w].pc = "object" /\ sweep'[w].todo = list
      /\ \A v \in Sweeps : v # w => sweep'[v] = sweep[v]
  <2> DEFINE s == [pc |-> "object", todo |-> list]
  <2>1. sweep' = [sweep EXCEPT ![w] = s] /\ s \in SweepState /\ s.pc = "object" /\ s.todo = list
    BY <1>0, <1>1 DEF SweepState
  <2> HIDE DEF s
  <2>2. QED
    BY <1>1, <2>1, SweepType
<1>3. TypeOK'
  BY <1>1, <1>2 DEF TypeOK, SweepState
<1>4. OwnKeys' /\ StoredBeforeInsert'
  BY <1>1 DEF IInv, OwnKeys, StoredBeforeInsert, Busy
<1>5. SweptWereInserted'
  <2>1. \A v \in Sweeps : v # w => \A k : InSweep(v, k)' <=> InSweep(v, k)
    BY <1>2 DEF InSweep
  <2>2. \A k : InSweep(w, k)' <=> k \in list
    BY <1>2 DEF InSweep
  <2>3. \A p \in Requests : req[p].pc \in {"storing", "inserting"} => req[p].key \notin list
    BY <1>1 DEF IInv, OwnKeys, Busy
  <2>4. \A v \in Sweeps, k \in Key : InSweep(v, k)' => k \in 1..uploads'
    BY <1>1, <2>1, <2>2 DEF IInv, SweptWereInserted
  <2>5. \A v \in Sweeps, p \in Requests :
          req'[p].pc \in {"storing", "inserting"} => ~ InSweep(v, req[p].key)'
    BY <1>1, <2>1, <2>2, <2>3 DEF IInv, SweptWereInserted
  <2>6. QED
    BY <1>1, <2>4, <2>5 DEF SweptWereInserted, InSweep
<1>6. ErasedBeforeDocument' /\ OrphansExplained'
  BY <1>1, <1>2 DEF IInv, ErasedBeforeDocument, OrphansExplained
<1>7. DocsBacked'
  BY <1>1, <1>2 DEF IInv, DocsBacked, NoSweep
<1>8. QED
  BY <1>3, <1>4, <1>5, <1>6, <1>7 DEF IInv

LEMMA SweepObjectStep ==
  ASSUME IInv, NEW w \in Sweeps, SweepObject(w)
  PROVE  IInv'
<1>0. PICK k \in sweep[w].todo :
         /\ Erase(k)
         /\ sweep' = [sweep EXCEPT ![w] =
                        [pc |-> "document", todo |-> sweep[w].todo \ {k}, key |-> k]]
  BY DEF SweepObject
<1>1. /\ TypeOK /\ sweep[w].pc = "object" /\ sweep[w].todo \subseteq Key /\ k \in Key
      /\ UNCHANGED <<clock, uploads, docs, created, req, orphaned, bared, faults>>
      /\ objects' = objects \ {k}
  BY <1>0, SweepShape DEF IInv, SweepObject, Erase, NoSweep
<1>2. /\ sweep' \in [Sweeps -> SweepState]
      /\ sweep'[w].pc = "document" /\ sweep'[w].todo = sweep[w].todo \ {k} /\ sweep'[w].key = k
      /\ \A v \in Sweeps : v # w => sweep'[v] = sweep[v]
  <2> DEFINE s == [pc |-> "document", todo |-> sweep[w].todo \ {k}, key |-> k]
  <2>1. /\ sweep' = [sweep EXCEPT ![w] = s] /\ s \in SweepState
        /\ s.pc = "document" /\ s.todo = sweep[w].todo \ {k} /\ s.key = k
    BY <1>0, <1>1 DEF SweepState
  <2> HIDE DEF s
  <2>2. QED
    BY <1>1, <2>1, SweepType
<1>3. TypeOK'
  <2>1. {objects, docs, orphaned, bared}' \subseteq SUBSET (1..uploads')
    BY <1>1, Typed
  <2>2. QED
    BY <1>1, <1>2, <2>1 DEF TypeOK, SweepState
<1>4. \A p \in Requests : req[p].pc \in {"storing", "inserting"} => req[p].key # k
  BY <1>0, <1>1 DEF IInv, SweptWereInserted, InSweep
<1>5. OwnKeys' /\ StoredBeforeInsert'
  BY <1>1, <1>4 DEF IInv, OwnKeys, StoredBeforeInsert, Busy
<1>6. SweptWereInserted'
  <2>1. \A v \in Sweeps : \A j : InSweep(v, j)' => InSweep(v, j)
    BY <1>0, <1>1, <1>2 DEF InSweep
  <2>2. \A v \in Sweeps, p \in Requests :
          req'[p].pc \in {"storing", "inserting"} => ~ InSweep(v, req[p].key)'
    BY <1>1, <2>1 DEF IInv, SweptWereInserted
  <2>3. QED
    BY <1>1, <2>1, <2>2 DEF IInv, SweptWereInserted, InSweep
<1>7. ErasedBeforeDocument' /\ OrphansExplained'
  BY <1>1, <1>2 DEF IInv, ErasedBeforeDocument, OrphansExplained
<1>8. DocsBacked'
  BY <1>1, <1>2 DEF IInv, DocsBacked
<1>9. QED
  BY <1>3, <1>5, <1>6, <1>7, <1>8 DEF IInv

\* What the end of a document, or of the whole sweep, leaves of it.
LEMMA SweepShrinks ==
  ASSUME IInv, NEW w \in Sweeps, NEW s \in SweepState,
         sweep' = [sweep EXCEPT ![w] = s],
         \/ s = NoSweep
         \/ s.pc = "object" /\ s.todo \subseteq sweep[w].todo /\ sweep[w].pc = "document",
         UNCHANGED <<uploads, objects, req>>
  PROVE  SweptWereInserted' /\ ErasedBeforeDocument'
<1>1. /\ sweep'[w] = s /\ \A v \in Sweeps : v # w => sweep'[v] = sweep[v]
      /\ s.pc # "document" /\ (s = NoSweep => s.pc = "idle")
  <2>1. s.pc # "document" /\ (s = NoSweep => s.pc = "idle")
    BY DEF NoSweep
  <2>2. TypeOK
    BY DEF IInv
  <2>3. QED
    BY <2>1, <2>2, SweepType
<1>2. \A v \in Sweeps : \A j : InSweep(v, j)' => InSweep(v, j)
  BY <1>1 DEF InSweep
<1>3. \A v \in Sweeps, p \in Requests :
        req'[p].pc \in {"storing", "inserting"} => ~ InSweep(v, req[p].key)'
  BY <1>2 DEF IInv, SweptWereInserted
<1>4. SweptWereInserted'
  BY <1>2, <1>3 DEF IInv, SweptWereInserted, InSweep
<1>5. ErasedBeforeDocument'
  BY <1>1 DEF IInv, ErasedBeforeDocument
<1>6. QED
  BY <1>4, <1>5

LEMMA SweepDocStep ==
  ASSUME IInv, NEW w \in Sweeps, SweepDoc(w)
  PROVE  IInv'
<1> DEFINE s == IF sweep[w].todo = {} THEN NoSweep ELSE [pc |-> "object", todo |-> sweep[w].todo]
<1>0. /\ TypeOK /\ sweep[w].pc = "document" /\ sweep[w].todo \in SUBSET Key
      /\ UNCHANGED <<clock, uploads, objects, created, req, orphaned, faults>>
      /\ docs' = docs \ {sweep[w].key} /\ bared' = bared \ {sweep[w].key}
      /\ sweep[w].key \notin objects
  BY SweepShape DEF IInv, ErasedBeforeDocument, SweepDoc, NoSweep
<1>1. /\ sweep' = [sweep EXCEPT ![w] = s] /\ s \in SweepState
      /\ s = NoSweep \/ (s.pc = "object" /\ s.todo \subseteq sweep[w].todo)
  BY <1>0 DEF SweepDoc, SweepNext, SweepState
<1> HIDE DEF s
<1>2. /\ sweep' \in [Sweeps -> SweepState]
      /\ \A v \in Sweeps : v # w => sweep'[v] = sweep[v]
  BY <1>0, <1>1, SweepType
<1>3. TypeOK'
  <2>1. {objects, docs, orphaned, bared}' \subseteq SUBSET (1..uploads')
    BY <1>0, Typed
  <2>2. QED
    BY <1>0, <1>2, <2>1 DEF TypeOK, SweepState
<1>4. OwnKeys' /\ StoredBeforeInsert'
  BY <1>0 DEF IInv, OwnKeys, StoredBeforeInsert, Busy
<1>5. SweptWereInserted' /\ ErasedBeforeDocument'
  BY <1>0, <1>1, SweepShrinks
<1>6. DocsBacked'
  BY <1>0, <1>2 DEF IInv, DocsBacked
<1>7. OrphansExplained'
  BY <1>0 DEF IInv, OrphansExplained
<1>8. QED
  BY <1>3, <1>4, <1>5, <1>6, <1>7 DEF IInv

LEMMA SweepFailsStep ==
  ASSUME IInv, NEW w \in Sweeps, SweepFails(w)
  PROVE  IInv'
<1>0. /\ TypeOK /\ sweep' = [sweep EXCEPT ![w] = NoSweep] /\ NoSweep \in SweepState
      /\ UNCHANGED <<clock, uploads, objects, docs, created, req, orphaned>>
      /\ bared' = bared \cup {k \in docs : sweep[w].pc = "document" /\ sweep[w].key = k}
  BY DEF IInv, SweepFails, SweepState
<1>1. /\ sweep' \in [Sweeps -> SweepState]
      /\ \A v \in Sweeps : v # w => sweep'[v] = sweep[v]
  BY <1>0, SweepType
<1>2. TypeOK'
  <2>1. {objects, docs, orphaned, bared}' \subseteq SUBSET (1..uploads')
    BY <1>0, Typed
  <2>2. QED
    BY <1>0, <1>1, <2>1, FaultCounted DEF TypeOK, SweepState
<1>3. OwnKeys' /\ StoredBeforeInsert'
  BY <1>0 DEF IInv, OwnKeys, StoredBeforeInsert, Busy
<1>4. SweptWereInserted' /\ ErasedBeforeDocument'
  BY <1>0, SweepShrinks
<1>5. DocsBacked'
  BY <1>0, <1>1 DEF IInv, DocsBacked
<1>6. OrphansExplained'
  BY <1>0 DEF IInv, OrphansExplained
<1>7. QED
  BY <1>2, <1>3, <1>4, <1>5, <1>6 DEF IInv

-----------------------------------------------------------------------------
LEMMA Inductive == IInv /\ [Next]_vars => IInv'
<1> SUFFICES ASSUME IInv, [Next]_vars PROVE IInv'
  OBVIOUS
<1>1. ASSUME UNCHANGED <<uploads, objects, docs, created, req, sweep, orphaned, bared, faults>>,
             clock' \in 0..MaxTime
      PROVE IInv'
  BY <1>1 DEF IInv, TypeOK, OwnKeys, Busy, StoredBeforeInsert, SweptWereInserted, InSweep,
     ErasedBeforeDocument, DocsBacked, OrphansExplained
<1>2. CASE Tick
  BY <1>1, <1>2, FilesAssumption DEF Tick, IInv, TypeOK
<1>3. CASE UNCHANGED vars
  BY <1>1, <1>3 DEF vars, IInv, TypeOK
<1>4. ASSUME NEW p \in Requests, Upload(p) \/ DeleteDoc(p) \/ HandlerStep(p) \/ HandlerFails(p)
      PROVE IInv'
  BY <1>4, UploadStep, DeleteDocStep, PutObjectStep, InsertDocStep, DeleteObjectStep,
     HandlerFailsStep DEF HandlerStep
<1>5. ASSUME NEW w \in Sweeps, SweepStep(w) \/ SweepFails(w) PROVE IInv'
  BY <1>5, SweepStartStep, SweepObjectStep, SweepDocStep, SweepFailsStep DEF SweepStep
<1>6. QED
  BY <1>2, <1>3, <1>4, <1>5 DEF Next

LEMMA Invariance == Spec => []IInv
BY InitIInv, Inductive, PTL DEF Spec

-----------------------------------------------------------------------------
\* Storage, the collection, the handlers and the sweeps keep their types.
THEOREM TypeCorrect == Spec => []TypeOK
BY Invariance, PTL DEF IInv

\* Uploads, deletes and sweeps leave no document without its object, but what
\* a sweep is removing or failed to remove (cleanup_abandoned_file_uploads).
THEOREM DocsBackedHolds == Spec => []DocsBacked
BY Invariance, PTL DEF IInv

\* An object that no document names is a running handler's or a failed one's.
THEOREM OrphansExplainedHolds == Spec => []OrphansExplained
BY Invariance, PTL DEF IInv

\* A key belongs to one handler, and to no document while it does.
THEOREM OwnKeysHolds == Spec => []OwnKeys
BY Invariance, PTL DEF IInv
=============================================================================
