---------------------------- MODULE Devices_proofs ----------------------------
(***************************************************************************)
(* Proofs about pairings and envelopes, for any number of processes,       *)
(* threads, pairings and envelopes: the payload of a sealed envelope is    *)
(* let through at most once, a process does not lose what it has confirmed *)
(* before the pairing expires, and what was answered is in the file.       *)
(* Then about companion messages, for any messages and restarts: none is   *)
(* handled twice, and one whose send failed stays in the saved queue.      *)
(***************************************************************************)
EXTENDS Pairing, Companion, FiniteSetTheorems, TLAPS

\* The pairing of an envelope ran out longer ago than any request lasts.
Gone(e) == expires[PairingOf[e]] # None /\ now > expires[PairingOf[e]] + Patience

Known(c) == \A k \in Pairings : c[k] # None => expires[k] # None

\* Nothing is held of a pairing that was not created.
KnownReq(r) ==
    /\ Known(r.dump)
    /\ r.at = "update" => r.subject \in Pairings /\ expires[r.subject] # None
    /\ r.at = "write" => r.fd \in Inodes

FilesInv == \A i \in Inodes : data[i] \in Records => Known(data[i])
MemoryInv == \A p \in Procs : Known(records[p])

\* A pairing lives at most TTL longer than now, and than the use of its nonces.
LifeInv ==
    /\ \A k \in Pairings : expires[k] # None => expires[k] <= now + TTL
    /\ \A e \in Envelopes : used[e] # None =>
         /\ expires[PairingOf[e]] # None
         /\ expires[PairingOf[e]] <= used[e] + TTL

\* A request that may still consume a nonce began before its pairing ran out,
\* and it deletes only rows whose pairing is gone.
OpensInTime(r) ==
    /\ r.at \in {"look", "consume"} =>
         /\ r.op = "envelope"
         /\ r.subject \in Envelopes
         /\ expires[PairingOf[r.subject]] # None
         /\ r.since < expires[PairingOf[r.subject]]
         /\ now <= r.since + Patience
    /\ \A d \in r.doomed : Gone(d)

RequestInv == \A t \in Threads : KnownReq(req[t]) /\ OpensInTime(req[t])

\* A row is forgotten only after its pairing is gone.
OnceInv ==
    \A e \in Envelopes :
      /\ opened[e] <= 1
      /\ opened[e] = 1 => used[e] # None \/ Gone(e)

Inv == TypeOK /\ FilesInv /\ MemoryInv /\ LifeInv /\ RequestInv /\ OnceInv

-----------------------------------------------------------------------------
LEMMA NoRecordsType == NoRecords \in Records
BY DEF NoRecords, Records, Standing

LEMMA IdleType == Idle \in Requests
BY NoRecordsType DEF Idle, Requests, Steps

LEMMA IdleOK == KnownReq(Idle) /\ OpensInTime(Idle)
BY DEF KnownReq, OpensInTime, Known, Idle, NoRecords

LEMMA InitInv == Init => Inv
<1> SUFFICES ASSUME Init PROVE Inv
  OBVIOUS
<1> USE ConstantsAssumption, RetentionAssumption DEF Init
<1>1. TypeOK
  <2>1. answered \in [Pairings -> Standing]
    BY DEF Standing
  <2> QED BY <2>1, NoRecordsType, IdleType DEF TypeOK
<1>2. FilesInv /\ MemoryInv
  BY DEF FilesInv, MemoryInv, Known, NoRecords
<1>3. LifeInv
  BY DEF LifeInv
<1>4. RequestInv
  BY IdleOK DEF RequestInv
<1>5. OnceInv
  BY DEF OnceInv
<1> QED BY <1>1, <1>2, <1>3, <1>4, <1>5 DEF Inv

-----------------------------------------------------------------------------
(* What one kind of step at a time keeps.                                  *)

LEMMA PrunedKeeps ==
  ASSUME NEW c \in Records
  PROVE  Pruned(c) \in Records /\ (Known(c) => Known(Pruned(c)))
BY DEF Records, Pruned, Known, Standing

LEMMA StaleGone ==
  ASSUME TypeOK, LifeInv, NEW e \in Envelopes, Stale(e)
  PROVE  Gone(e)
<1>1. used[e] \in Nat /\ expires[PairingOf[e]] \in Nat /\ now \in Nat
  BY ConstantsAssumption DEF TypeOK, LifeInv, Stale
<1> QED BY <1>1, ConstantsAssumption, RetentionAssumption DEF LifeInv, Stale, Gone

LEMMA KeepLife ==
  ASSUME LifeInv, OnceInv, UNCHANGED <<now, expires, used, opened>>
  PROVE  LifeInv' /\ OnceInv'
BY DEF LifeInv, OnceInv, Gone

LEMMA KeepFiles ==
  ASSUME FilesInv, UNCHANGED <<expires, data>> PROVE FilesInv'
BY DEF FilesInv, Known

LEMMA KeepMemory ==
  ASSUME MemoryInv, UNCHANGED <<expires, records>> PROVE MemoryInv'
BY DEF MemoryInv, Known

\* A step of one thread gives it one new request.
LEMMA NewRequest ==
  ASSUME TypeOK, RequestInv, UNCHANGED <<now, expires>>,
         NEW t \in Threads, NEW r \in Requests, KnownReq(r), OpensInTime(r),
         req' = [req EXCEPT ![t] = r]
  PROVE  req' \in [Threads -> Requests] /\ RequestInv'
<1>1. \A u \in Threads : req'[u] = IF u = t THEN r ELSE req[u]
  BY DEF TypeOK
<1>2. \A q : (KnownReq(q) => KnownReq(q)') /\ (OpensInTime(q) => OpensInTime(q)')
  BY DEF KnownReq, OpensInTime, Known, Gone
<1> QED BY <1>1, <1>2 DEF RequestInv, TypeOK

\* A step that ends the request, or takes it one step on without changing more.
LEMMA OldRequest ==
  ASSUME TypeOK, RequestInv, UNCHANGED <<now, expires>>, NEW t \in Threads,
         \/ End(t)
         \/ Goto(t, "dump")
         \/ Goto(t, "rename")
  PROVE  req' \in [Threads -> Requests] /\ RequestInv'
<1>1. CASE End(t)
  BY <1>1, IdleType, IdleOK, NewRequest DEF End
<1>2. ASSUME NEW step \in {"dump", "rename"}, Goto(t, step)
      PROVE  req' \in [Threads -> Requests] /\ RequestInv'
  <2> DEFINE r == [req[t] EXCEPT !.at = step]
  <2>1. req[t] \in Requests
    BY DEF TypeOK
  <2>2. r \in Requests /\ r.at = step /\ r.dump = req[t].dump /\ r.doomed = req[t].doomed
    BY <2>1 DEF Requests, Steps
  <2>3. KnownReq(r) /\ OpensInTime(r)
    BY <2>2 DEF RequestInv, KnownReq, OpensInTime
  <2>4. req' = [req EXCEPT ![t] = r]
    BY <1>2, <2>1 DEF Goto, TypeOK
  <2> HIDE DEF r
  <2> QED BY <2>2, <2>3, <2>4, NewRequest
<1> QED BY <1>1, <1>2

-----------------------------------------------------------------------------
(* One lemma for each step of a thread.                                    *)

LEMMA StartStep ==
  ASSUME Inv, NEW t \in Threads, Start(t) PROVE Inv'
<1> USE ConstantsAssumption DEF Inv, Start, Beside, store, history
<1> DEFINE r == [req[t] EXCEPT !.op = "start", !.at = "load"]
<1>1. req[t] \in Requests
  BY DEF TypeOK
<1>2. r \in Requests /\ r.at = "load" /\ r.dump = req[t].dump /\ r.doomed = req[t].doomed
  BY <1>1 DEF Requests, Steps
<1>3. KnownReq(r) /\ OpensInTime(r)
  BY <1>2 DEF RequestInv, KnownReq, OpensInTime
<1>4. req' = [req EXCEPT ![t] = r]
  BY <1>1 DEF TypeOK
<1>5. req' \in [Threads -> Requests] /\ RequestInv'
  <2> HIDE DEF r
  <2> QED BY <1>2, <1>3, <1>4, NewRequest
<1>6. TypeOK'
  <2>1. used' \in [Envelopes -> Nat \cup {None}]
    BY DEF TypeOK, Remembered
  <2> QED BY <1>5, <2>1 DEF TypeOK
<1>7. LifeInv'
  BY DEF LifeInv, Remembered
<1>8. OnceInv'
  BY StaleGone DEF OnceInv, Gone, Remembered, TypeOK
<1> QED BY <1>5, <1>6, <1>7, <1>8, KeepFiles, KeepMemory

LEMMA LoadStep ==
  ASSUME Inv, NEW t \in Threads, Load(t) PROVE Inv'
<1> DEFINE read == IF names["json"] = None THEN NoRecords ELSE data[names["json"]]
<1> USE ConstantsAssumption DEF Inv, store, history
<1>0. /\ UNCHANGED <<now, expires, used, opened, names, data, answered, crowded>>
      /\ \/ UNCHANGED <<up, records>>
         \/ /\ read \notin {Blank, Torn}
            /\ records' = [records EXCEPT ![ProcOf[t]] = Pruned(read)]
            /\ up' \in {up, up \cup {ProcOf[t]}}
      /\ End(t) \/ Goto(t, "dump")
  BY DEF Load
<1>1. req' \in [Threads -> Requests] /\ RequestInv'
  BY <1>0, OldRequest
<1>2. LifeInv' /\ OnceInv' /\ FilesInv'
  BY <1>0, KeepLife, KeepFiles
<1>3. CASE UNCHANGED <<up, records>>
  <2>1. TypeOK'
    BY <1>0, <1>1, <1>3 DEF TypeOK
  <2> QED BY <1>0, <1>1, <1>2, <1>3, <2>1, KeepMemory
<1>4. CASE /\ read \notin {Blank, Torn}
           /\ records' = [records EXCEPT ![ProcOf[t]] = Pruned(read)]
           /\ up' \in {up, up \cup {ProcOf[t]}}
  <2>1. read \in Records
    BY <1>4, NoRecordsType DEF TypeOK
  <2>2. Known(read)
    BY <2>1 DEF FilesInv, TypeOK, Known, NoRecords
  <2>3. Pruned(read) \in Records /\ Known(Pruned(read))
    BY <2>1, <2>2, PrunedKeeps
  <2>4. TypeOK'
    BY <1>0, <1>1, <1>4, <2>3 DEF TypeOK
  <2>5. MemoryInv'
    BY <1>0, <1>4, <2>3 DEF MemoryInv, Known, TypeOK
  <2> QED BY <1>1, <1>2, <2>4, <2>5
<1> QED BY <1>0, <1>3, <1>4

LEMMA CreateStep ==
  ASSUME Inv, NEW t \in Threads, NEW k \in Pairings, Create(t, k) PROVE Inv'
<1> USE ConstantsAssumption DEF Inv, Create, Beside, store, history
<1> DEFINE r == [req[t] EXCEPT !.op = "create", !.subject = k, !.at = "dump"]
           mine == [Pruned(records[ProcOf[t]]) EXCEPT ![k] = "pending"]
<1>1. req[t] \in Requests
  BY DEF TypeOK
<1>2. r \in Requests /\ r.at = "dump" /\ r.dump = req[t].dump /\ r.doomed = req[t].doomed
  BY <1>1 DEF Requests, Steps
<1>3. req' = [req EXCEPT ![t] = r]
  BY <1>1 DEF TypeOK
<1>4. \A c : Known(c) => Known(c)'
  BY DEF Known, TypeOK
<1>5. \A e \in Envelopes : Gone(e) => Gone(e)'
  BY DEF Gone, TypeOK
<1>6. RequestInv'
  <2>1. \A u \in Threads : req'[u] = IF u = t THEN r ELSE req[u]
    BY <1>3 DEF TypeOK
  <2>2. KnownReq(r) /\ OpensInTime(r)
    BY <1>1, <1>2 DEF RequestInv, KnownReq, OpensInTime
  <2>3. \A q \in Pairings : expires[q] # None => expires'[q] = expires[q]
    BY DEF TypeOK
  <2>4. ASSUME NEW q \in Requests, KnownReq(q) PROVE KnownReq(q)'
    BY <1>4, <2>3, <2>4 DEF KnownReq
  <2>5. ASSUME NEW q \in Requests, OpensInTime(q) PROVE OpensInTime(q)'
    BY <1>5, <2>3, <2>5 DEF OpensInTime, Requests
  <2>6. r \in Requests /\ \A u \in Threads : req[u] \in Requests
    BY <1>2 DEF TypeOK
  <2> HIDE DEF r
  <2> QED BY <2>1, <2>2, <2>4, <2>5, <2>6 DEF RequestInv
<1>7. mine \in Records /\ \A j \in Pairings : mine[j] # None => expires'[j] # None
  <2>1. Pruned(records[ProcOf[t]]) \in Records /\ Known(Pruned(records[ProcOf[t]]))
    BY PrunedKeeps DEF TypeOK, MemoryInv
  <2> QED BY <2>1 DEF Records, Standing, Known, TypeOK
<1>8. TypeOK'
  <2>1. expires' \in [Pairings -> Nat \cup {None}]
    BY DEF TypeOK
  <2>2. records' \in [Procs -> Records]
    BY <1>7 DEF TypeOK
  <2>3. req' \in [Threads -> Requests]
    BY <1>2, <1>3 DEF TypeOK
  <2> QED BY <2>1, <2>2, <2>3 DEF TypeOK
<1>9. FilesInv' /\ MemoryInv'
  <2>1. FilesInv'
    BY <1>4 DEF FilesInv
  <2>2. \A p \in Procs : records'[p] = IF p = ProcOf[t] THEN mine ELSE records[p]
    BY DEF TypeOK
  <2>3. \A p \in Procs : Known(records[p])'
    <3> SUFFICES ASSUME NEW p \in Procs PROVE Known(records[p])'
      OBVIOUS
    <3>1. CASE p = ProcOf[t]
      BY <1>7, <2>2, <3>1 DEF Known
    <3>2. CASE p # ProcOf[t]
      BY <1>4, <2>2, <3>2 DEF Known, MemoryInv, TypeOK
    <3> QED BY <3>1, <3>2
  <2> QED BY <2>1, <2>3 DEF MemoryInv
<1>10. LifeInv' /\ OnceInv'
  BY <1>5 DEF LifeInv, OnceInv, TypeOK
<1> QED BY <1>6, <1>8, <1>9, <1>10

LEMMA ConfirmStep ==
  ASSUME Inv, NEW t \in Threads, NEW k \in Pairings, Confirm(t, k) PROVE Inv'
<1> USE ConstantsAssumption DEF Inv, Confirm, Beside, store, history
<1> DEFINE r == [req[t] EXCEPT !.op = "confirm", !.subject = k, !.at = "update"]
<1>1. req[t] \in Requests /\ expires[k] # None
  BY DEF TypeOK, MemoryInv, Known
<1>2. /\ r \in Requests /\ r.at = "update" /\ r.subject = k
      /\ r.dump = req[t].dump /\ r.doomed = req[t].doomed
  BY <1>1 DEF Requests, Steps
<1>3. KnownReq(r) /\ OpensInTime(r)
  BY <1>1, <1>2 DEF RequestInv, KnownReq, OpensInTime
<1>4. req' = [req EXCEPT ![t] = r]
  BY <1>1 DEF TypeOK
<1>5. req' \in [Threads -> Requests] /\ RequestInv'
  <2> HIDE DEF r
  <2> QED BY <1>2, <1>3, <1>4, NewRequest
<1>6. TypeOK'
  BY <1>5 DEF TypeOK
<1> QED BY <1>5, <1>6, KeepFiles, KeepMemory, KeepLife

LEMMA UpdateStep ==
  ASSUME Inv, NEW t \in Threads, Update(t) PROVE Inv'
<1> USE ConstantsAssumption DEF Inv, Update, At, store, history
<1> DEFINE k == req[t].subject
<1>1. req' \in [Threads -> Requests] /\ RequestInv'
  BY OldRequest
<1>2. k \in Pairings /\ expires[k] # None
  BY DEF RequestInv, KnownReq
<1>3. records' \in [Procs -> Records] /\ MemoryInv'
  BY <1>2 DEF TypeOK, MemoryInv, Known, Records, Standing
<1>4. TypeOK'
  BY <1>1, <1>3 DEF TypeOK
<1> QED BY <1>1, <1>3, <1>4, KeepFiles, KeepLife

LEMMA DumpStep ==
  ASSUME Inv, NEW t \in Threads, Dump(t) \/ Dumped(t) PROVE Inv'
<1> USE ConstantsAssumption DEF Inv, Dump, Dumped, store, history
<1> DEFINE mine == records[ProcOf[t]]
<1>1. req[t] \in Requests /\ mine \in Records /\ Known(mine)
  BY DEF TypeOK, MemoryInv
<1>2. ASSUME NEW step \in {"dumping", "open"},
             req' = [req EXCEPT ![t].dump = mine, ![t].at = step]
      PROVE  req' \in [Threads -> Requests] /\ RequestInv'
  <2> DEFINE r == [req[t] EXCEPT !.dump = mine, !.at = step]
  <2>1. r \in Requests /\ r.at = step /\ r.dump = mine /\ r.doomed = req[t].doomed
    BY <1>1 DEF Requests, Steps
  <2>2. KnownReq(r) /\ OpensInTime(r)
    BY <1>1, <2>1 DEF RequestInv, KnownReq, OpensInTime
  <2>3. req' = [req EXCEPT ![t] = r]
    BY <1>1, <1>2 DEF TypeOK
  <2> HIDE DEF r
  <2> QED BY <2>1, <2>2, <2>3, NewRequest
<1>3. req' \in [Threads -> Requests] /\ RequestInv'
  BY <1>2, OldRequest
<1>4. TypeOK'
  BY <1>3 DEF TypeOK
<1> QED BY <1>3, <1>4, KeepFiles, KeepMemory, KeepLife

LEMMA OpenTmpStep ==
  ASSUME Inv, NEW t \in Threads, OpenTmp(t) PROVE Inv'
<1> USE ConstantsAssumption DEF Inv, history
<1>1. PICK i \in Inodes :
        /\ data' = [data EXCEPT ![i] = Blank]
        /\ names' = [names EXCEPT !["tmp"] = i]
        /\ req' = [req EXCEPT ![t].fd = i, ![t].at = "write"]
  BY DEF OpenTmp
<1>2. UNCHANGED <<now, expires, up, records, used, history>>
  BY DEF OpenTmp
<1> DEFINE r == [req[t] EXCEPT !.fd = i, !.at = "write"]
<1>3. req[t] \in Requests
  BY DEF TypeOK
<1>4. /\ r \in Requests /\ r.at = "write" /\ r.fd = i
      /\ r.dump = req[t].dump /\ r.doomed = req[t].doomed
  BY <1>3 DEF Requests, Steps
<1>5. KnownReq(r) /\ OpensInTime(r)
  BY <1>4 DEF RequestInv, KnownReq, OpensInTime
<1>6. req' = [req EXCEPT ![t] = r]
  BY <1>1, <1>3 DEF TypeOK
<1>7. req' \in [Threads -> Requests] /\ RequestInv'
  <2> HIDE DEF r
  <2> QED BY <1>2, <1>4, <1>5, <1>6, NewRequest
<1>8. TypeOK'
  BY <1>1, <1>2, <1>7 DEF TypeOK
<1>9. FilesInv'
  BY <1>1, <1>2 DEF FilesInv, Known, TypeOK
<1> QED BY <1>2, <1>7, <1>8, <1>9, KeepMemory, KeepLife

LEMMA WriteStep ==
  ASSUME Inv, NEW t \in Threads, Write(t) PROVE Inv'
<1> USE ConstantsAssumption DEF Inv, Write, At, history
<1> DEFINE i == req[t].fd
           text == Over(data[i], req[t].dump)
<1>1. i \in Inodes /\ req[t].dump \in Records /\ Known(req[t].dump)
  BY DEF RequestInv, KnownReq, TypeOK, Requests
<1>2. text \in {req[t].dump, Torn}
  BY DEF Over
<1>3. data' = [data EXCEPT ![i] = text]
  OBVIOUS
<1>4. req' \in [Threads -> Requests] /\ RequestInv'
  BY OldRequest
<1> HIDE DEF text
<1>5. TypeOK'
  BY <1>1, <1>2, <1>3, <1>4 DEF TypeOK
<1>6. FilesInv'
  <2>1. \A j \in Inodes : data'[j] \in {data[j], req[t].dump, Torn}
    BY <1>2, <1>3 DEF TypeOK
  <2> QED BY <1>1, <2>1 DEF FilesInv, Known
<1> QED BY <1>4, <1>5, <1>6, KeepMemory, KeepLife

LEMMA RenameStep ==
  ASSUME Inv, NEW t \in Threads, Rename(t) PROVE Inv'
<1> USE ConstantsAssumption DEF Inv, Rename, At
<1>1. req' \in [Threads -> Requests] /\ RequestInv'
  BY OldRequest
<1>2. names' \in [{"json", "tmp"} -> Inodes \cup {None}] /\ up' \subseteq Procs
  BY DEF TypeOK
<1>3. answered' \in [Pairings -> Standing]
  BY DEF TypeOK, Answer, Standing
<1>4. TypeOK'
  BY <1>1, <1>2, <1>3 DEF TypeOK
<1> QED BY <1>1, <1>4, KeepFiles, KeepMemory, KeepLife

LEMMA OpenEnvelopeStep ==
  ASSUME Inv, NEW t \in Threads, NEW e \in Envelopes, OpenEnvelope(t, e) PROVE Inv'
<1> USE ConstantsAssumption, RetentionAssumption DEF Inv, OpenEnvelope, store, history
<1> DEFINE k == PairingOf[e]
           r == [req[t] EXCEPT !.op = "envelope", !.subject = e, !.since = now, !.at = "look"]
<1>1. req[t] \in Requests /\ k \in Pairings
  BY DEF TypeOK
<1>2. expires[k] \in Nat /\ now < expires[k] /\ now \in Nat
  BY <1>1 DEF TypeOK, MemoryInv, Known, Expired
<1>3. /\ r \in Requests /\ r.at = "look" /\ r.op = "envelope" /\ r.subject = e
      /\ r.since = now /\ r.dump = req[t].dump /\ r.doomed = req[t].doomed
  BY <1>1, <1>2 DEF Requests, Steps
<1>4. KnownReq(r) /\ OpensInTime(r)
  BY <1>2, <1>3 DEF RequestInv, KnownReq, OpensInTime
<1>5. req' = [req EXCEPT ![t] = r]
  BY <1>1 DEF TypeOK
<1>6. req' \in [Threads -> Requests] /\ RequestInv'
  <2> HIDE DEF r
  <2> QED BY <1>3, <1>4, <1>5, NewRequest
<1>7. TypeOK'
  BY <1>6 DEF TypeOK
<1> QED BY <1>6, <1>7, KeepFiles, KeepMemory, KeepLife

LEMMA LookStep ==
  ASSUME Inv, NEW t \in Threads, Look(t) PROVE Inv'
<1> USE ConstantsAssumption DEF Inv, Look, At, store, history
<1> DEFINE doomed == {d \in Envelopes : Stale(d)}
           r == [req[t] EXCEPT !.doomed = doomed, !.at = "consume"]
<1>1. req[t] \in Requests
  BY DEF TypeOK
<1>2. /\ r \in Requests /\ r.at = "consume" /\ r.doomed = doomed /\ r.dump = req[t].dump
      /\ r.op = req[t].op /\ r.subject = req[t].subject /\ r.since = req[t].since
  BY <1>1 DEF Requests, Steps
<1>3. \A d \in doomed : Gone(d)
  BY StaleGone
<1>4. KnownReq(r) /\ OpensInTime(r)
  BY <1>2, <1>3 DEF RequestInv, KnownReq, OpensInTime
<1>5. End(t) \/ req' = [req EXCEPT ![t] = r]
  BY <1>1 DEF TypeOK
<1>6. req' \in [Threads -> Requests] /\ RequestInv'
  <2> HIDE DEF r
  <2> QED BY <1>2, <1>4, <1>5, NewRequest, OldRequest
<1>7. TypeOK'
  BY <1>6 DEF TypeOK
<1> QED BY <1>6, <1>7, KeepFiles, KeepMemory, KeepLife

\* The nonce is free only if the envelope was never opened: a row that was
\* forgotten belongs to a pairing that no running request passed as confirmed.
LEMMA ConsumeStep ==
  ASSUME Inv, NEW t \in Threads, Consume(t) PROVE Inv'
<1> USE ConstantsAssumption, RetentionAssumption DEF Inv, Consume, At, store
<1> DEFINE e == req[t].subject
           left == [d \in Envelopes |-> IF d \in req[t].doomed THEN None ELSE used[d]]
<1>1. /\ e \in Envelopes /\ req[t].since \in Nat /\ req[t].doomed \subseteq Envelopes
      /\ expires[PairingOf[e]] \in Nat /\ now \in Nat
      /\ now < expires[PairingOf[e]] + Patience
  BY DEF RequestInv, OpensInTime, TypeOK, Requests
<1>2. ~Gone(e) /\ e \notin req[t].doomed
  BY <1>1 DEF RequestInv, OpensInTime, Gone
<1>3. \A d \in Envelopes : left[d] = used[d] \/ Gone(d)
  BY DEF RequestInv, OpensInTime
<1>4. req' \in [Threads -> Requests] /\ RequestInv'
  BY OldRequest
<1>5. CASE left[e] # None
  <2>1. UNCHANGED <<used, opened>>
    BY <1>5
  <2>2. TypeOK'
    BY <1>4, <2>1 DEF TypeOK
  <2> QED BY <1>4, <2>1, <2>2, KeepFiles, KeepMemory, KeepLife
<1>6. CASE left[e] = None
  <2>1. used' = [left EXCEPT ![e] = now] /\ opened' = [opened EXCEPT ![e] = @ + 1]
    BY <1>6
  <2>2. opened[e] = 0
    BY <1>1, <1>2, <1>6 DEF OnceInv, TypeOK
  <2>3. TypeOK'
    <3>1. used' \in [Envelopes -> Nat \cup {None}]
      BY <1>1, <2>1 DEF TypeOK
    <3>2. opened' \in [Envelopes -> Nat]
      BY <1>1, <2>1 DEF TypeOK
    <3> QED BY <1>4, <3>1, <3>2 DEF TypeOK
  <2>4. \A d \in Envelopes : used'[d] = IF d = e THEN now ELSE left[d]
    BY <2>1
  <2>5. LifeInv'
    BY <1>1, <2>4 DEF LifeInv, TypeOK
  <2>6. OnceInv'
    <3>1. \A d \in Envelopes : opened'[d] = IF d = e THEN 1 ELSE opened[d]
      BY <2>1, <2>2 DEF TypeOK
    <3> HIDE DEF left
    <3> QED BY <1>1, <1>3, <2>4, <3>1 DEF OnceInv, Gone
  <2> QED BY <1>4, <2>3, <2>5, <2>6, KeepFiles, KeepMemory
<1> QED BY <1>5, <1>6

LEMMA CrashStep ==
  ASSUME Inv, NEW p \in Procs, Crash(p) PROVE Inv'
<1> USE DEF Inv, Crash, store, history
<1>1. \A u \in Threads : req'[u] \in {Idle, req[u]}
  OBVIOUS
<1>2. \A q : (KnownReq(q) => KnownReq(q)') /\ (OpensInTime(q) => OpensInTime(q)')
  BY DEF KnownReq, OpensInTime, Known, Gone
<1>3. RequestInv'
  BY <1>1, <1>2, IdleOK DEF RequestInv
<1>4. MemoryInv'
  BY DEF MemoryInv, Known, NoRecords, TypeOK
<1>5. TypeOK'
  <2>1. req' \in [Threads -> Requests]
    BY <1>1, IdleType DEF TypeOK
  <2>2. records' \in [Procs -> Records] /\ up' \subseteq Procs
    BY NoRecordsType DEF TypeOK
  <2> QED BY <2>1, <2>2 DEF TypeOK
<1> QED BY <1>3, <1>4, <1>5, KeepFiles, KeepLife

LEMMA TickStep ==
  ASSUME Inv, Tick PROVE Inv'
<1> USE ConstantsAssumption, RetentionAssumption DEF Inv, Tick, store, history
<1>1. now' = now + 1 /\ now \in Nat
  BY DEF TypeOK
<1>2. \A d \in Envelopes : Gone(d) => Gone(d)'
  BY <1>1 DEF Gone, TypeOK
<1>3. RequestInv'
  <2> SUFFICES ASSUME NEW t \in Threads
               PROVE  KnownReq(req[t])' /\ OpensInTime(req[t])'
    BY DEF RequestInv
  <2>1. KnownReq(req[t])'
    BY DEF RequestInv, KnownReq, Known
  <2>2. req[t].doomed \subseteq Envelopes /\ req[t].since \in Nat
    BY DEF TypeOK, Requests
  <2>3. \A d \in req[t].doomed : Gone(d)'
    BY <1>2, <2>2 DEF RequestInv, OpensInTime
  <2> QED BY <1>1, <2>1, <2>2, <2>3 DEF RequestInv, OpensInTime, Gone
<1>4. LifeInv'
  BY <1>1 DEF LifeInv, TypeOK
<1>5. OnceInv'
  BY <1>2 DEF OnceInv
<1>6. TypeOK'
  BY <1>1 DEF TypeOK
<1> QED BY <1>3, <1>4, <1>5, <1>6, KeepFiles, KeepMemory

-----------------------------------------------------------------------------
LEMMA InvNext == Inv /\ [Next]_vars => Inv'
<1> SUFFICES ASSUME Inv, [Next]_vars PROVE Inv'
  OBVIOUS
<1>1. ASSUME NEW t \in Threads, Step(t) PROVE Inv'
  BY <1>1, StartStep, LoadStep, CreateStep, ConfirmStep, UpdateStep, DumpStep, OpenTmpStep,
     WriteStep, RenameStep, OpenEnvelopeStep, LookStep, ConsumeStep DEF Step
<1>2. CASE UNCHANGED vars
  <2>1. UNCHANGED <<now, expires, up, records, names, data, used, req, opened, answered, crowded>>
    BY <1>2 DEF vars, store, history
  <2>2. TypeOK'
    BY <2>1 DEF Inv, TypeOK
  <2>3. RequestInv'
    BY <2>1 DEF Inv, RequestInv, KnownReq, OpensInTime, Known, Gone
  <2> QED BY <2>1, <2>2, <2>3, KeepFiles, KeepMemory, KeepLife DEF Inv
<1> QED BY <1>1, <1>2, CrashStep, TickStep DEF Next

\* The clock, the files, the ledger and the requests keep their types.
THEOREM TypeCorrect == Spec => []TypeOK
<1>1. Inv => TypeOK
  BY DEF Inv
<1> QED BY InitInv, InvNext, <1>1, PTL DEF Spec

\* Whatever requests carry a sealed envelope, in whatever processes, with any
\* number of restarts and of prunes of the ledger, its payload is let through
\* at most once, as long as the ledger remembers a nonce for as long as its
\* pairing and a request can last (NonceLedger.consume, require_confirmed).
THEOREM EnvelopeOpenedOnce == Spec => []OpenedOnce
<1>1. Inv => OpenedOnce
  BY DEF Inv, OnceInv, OpenedOnce
<1> QED BY InitInv, InvNext, <1>1, PTL DEF Spec
-----------------------------------------------------------------------------
(* A process that is being built serves nothing else, so the records it    *)
(* reads replace none that a request has changed.                          *)

BusyAt(r) == r.at # "idle"

StartsAlone(t) ==
    BusyAt(req[t]) /\ req[t].op = "start" =>
      /\ ProcOf[t] \notin up
      /\ \A u \in Threads \ {t} : ProcOf[u] = ProcOf[t] => ~BusyAt(req[u])

StartInv ==
    /\ Inv
    /\ \A t \in Threads : StartsAlone(t) /\ (req[t].at = "load" => req[t].op = "start")

\* What a step of a thread may do to its request and to the set of processes.
EndsRequest(t) ==
    /\ ~BusyAt(req'[t]) /\ req'[t].at # "load"
    /\ up' \in {up, up \cup {ProcOf[t]}}
    /\ up' # up => BusyAt(req[t]) /\ req[t].op = "start"
GoesOn(t) ==
    /\ BusyAt(req[t]) /\ req'[t].op = req[t].op /\ req'[t].at # "load" /\ up' = up
BeginsRequest(t) ==
    /\ ProcOf[t] \in up /\ req'[t].op # "start" /\ req'[t].at # "load" /\ up' = up
BeginsStart(t) ==
    /\ ProcOf[t] \notin up /\ ~Busy(ProcOf[t]) /\ req'[t].op = "start" /\ up' = up

LEMMA RequestStep ==
  ASSUME StartInv, NEW t \in Threads, Step(t)
  PROVE  /\ \A u \in Threads \ {t} : req'[u] = req[u]
         /\ EndsRequest(t) \/ GoesOn(t) \/ BeginsRequest(t) \/ BeginsStart(t)
<1> DEFINE r == req[t]
<1>1. r \in Requests /\ req \in [Threads -> Requests]
  BY DEF StartInv, Inv, TypeOK
<1>2. \A q : req' = [req EXCEPT ![t] = q] =>
        req'[t] = q /\ \A u \in Threads \ {t} : req'[u] = req[u]
  BY <1>1
<1>3. ASSUME End(t) PROVE req'[t] = Idle /\ \A u \in Threads \ {t} : req'[u] = req[u]
  BY <1>2, <1>3 DEF End
<1>4. ASSUME NEW step, Goto(t, step)
      PROVE  /\ req'[t].at = step /\ req'[t].op = r.op
             /\ \A u \in Threads \ {t} : req'[u] = req[u]
  BY <1>1, <1>4 DEF Goto, Requests
<1>5. ~BusyAt(Idle) /\ Idle.at # "load"
  BY DEF BusyAt, Idle
<1>6. CASE Start(t)
  <2>1. /\ req'[t].op = "start" /\ up' = up
        /\ \A u \in Threads \ {t} : req'[u] = req[u]
    BY <1>1, <1>6 DEF Start, Requests
  <2> QED BY <1>6, <2>1 DEF Start, BeginsStart
<1>7. CASE Load(t)
  <2>1. BusyAt(r) /\ r.op = "start"
    BY <1>7 DEF Load, At, BusyAt, StartInv
  <2>2. \/ End(t) /\ up' \in {up, up \cup {ProcOf[t]}}
        \/ Goto(t, "dump") /\ up' = up
    BY <1>7 DEF Load
  <2> QED BY <1>3, <1>4, <1>5, <2>1, <2>2 DEF EndsRequest, GoesOn
<1>8. ASSUME NEW k \in Pairings, Create(t, k) \/ Confirm(t, k)
      PROVE  BeginsRequest(t) /\ \A u \in Threads \ {t} : req'[u] = req[u]
  <2>1. CASE Create(t, k)
    BY <1>1, <2>1 DEF Create, BeginsRequest, Requests
  <2>2. CASE Confirm(t, k)
    BY <1>1, <2>2 DEF Confirm, BeginsRequest, Requests
  <2> QED BY <1>8, <2>1, <2>2
<1>9. ASSUME NEW e \in Envelopes, OpenEnvelope(t, e)
      PROVE  BeginsRequest(t) /\ \A u \in Threads \ {t} : req'[u] = req[u]
  BY <1>1, <1>9 DEF OpenEnvelope, BeginsRequest, Requests
<1>10. CASE Update(t) \/ Write(t)
  <2>1. BusyAt(r) /\ up' = up /\ \E step \in {"dump", "rename"} : Goto(t, step)
    BY <1>10 DEF Update, Write, At, BusyAt
  <2> QED BY <1>4, <2>1 DEF GoesOn
<1>11. CASE Dump(t)
  <2>1. BusyAt(r) /\ up' = up
    BY <1>11 DEF Dump, At, BusyAt
  <2>2. /\ req'[t].at = "dumping" /\ req'[t].op = r.op
        /\ \A u \in Threads \ {t} : req'[u] = req[u]
    BY <1>1, <1>11 DEF Dump, Requests
  <2> QED BY <2>1, <2>2 DEF GoesOn
<1>12. CASE Dumped(t)
  <2>1. BusyAt(r) /\ up' = up
    BY <1>12 DEF Dumped, At, BusyAt
  <2>2. ASSUME req' = [req EXCEPT ![t].dump = records[ProcOf[t]], ![t].at = "open"]
        PROVE  GoesOn(t) /\ \A u \in Threads \ {t} : req'[u] = req[u]
    BY <1>1, <2>1, <2>2 DEF GoesOn, Requests
  <2> QED BY <1>3, <1>5, <1>12, <2>1, <2>2 DEF Dumped, EndsRequest
<1>13. CASE OpenTmp(t)
  <2>1. BusyAt(r) /\ up' = up
    BY <1>13 DEF OpenTmp, At, BusyAt
  <2>2. /\ req'[t].at = "write" /\ req'[t].op = r.op
        /\ \A u \in Threads \ {t} : req'[u] = req[u]
    BY <1>1, <1>13 DEF OpenTmp, Requests
  <2> QED BY <2>1, <2>2 DEF GoesOn
<1>14. CASE Rename(t)
  <2>1. BusyAt(r) /\ End(t) /\ up' \in {up, up \cup {ProcOf[t]}}
    BY <1>14 DEF Rename, At, BusyAt
  <2>2. up' # up => r.op = "start"
    BY <1>14 DEF Rename
  <2> QED BY <1>3, <1>5, <2>1, <2>2 DEF EndsRequest
<1>15. CASE Look(t)
  <2>1. BusyAt(r) /\ up' = up
    BY <1>15 DEF Look, At, BusyAt
  <2>2. ASSUME req' = [req EXCEPT ![t].doomed = {d \in Envelopes : Stale(d)}, ![t].at = "consume"]
        PROVE  GoesOn(t) /\ \A u \in Threads \ {t} : req'[u] = req[u]
    BY <1>1, <2>1, <2>2 DEF GoesOn, Requests
  <2> QED BY <1>3, <1>5, <1>15, <2>1, <2>2 DEF Look, EndsRequest
<1>16. CASE Consume(t)
  <2>1. End(t) /\ up' = up
    BY <1>16 DEF Consume
  <2> QED BY <1>3, <1>5, <2>1 DEF EndsRequest
<1> QED BY <1>6, <1>7, <1>8, <1>9, <1>10, <1>11, <1>12, <1>13, <1>14, <1>15, <1>16 DEF Step

LEMMA StartInvNext == StartInv /\ [Next]_vars => StartInv'
<1> SUFFICES ASSUME StartInv, [Next]_vars PROVE StartInv'
  OBVIOUS
<1>1. Inv'
  BY InvNext DEF StartInv
<1>2. ASSUME NEW t \in Threads, Step(t)
      PROVE  StartInv'
  <2>1. /\ \A u \in Threads \ {t} : req'[u] = req[u]
        /\ EndsRequest(t) \/ GoesOn(t) \/ BeginsRequest(t) \/ BeginsStart(t)
    BY <1>2, RequestStep
  <2>2. ASSUME NEW u \in Threads
        PROVE  StartsAlone(u)'
    <3>1. CASE EndsRequest(t)
      BY <2>1, <3>1 DEF StartInv, StartsAlone, EndsRequest
    <3>2. CASE GoesOn(t)
      BY <2>1, <3>2 DEF StartInv, StartsAlone, GoesOn
    <3>3. CASE BeginsRequest(t)
      BY <2>1, <3>3 DEF StartInv, StartsAlone, BeginsRequest
    <3>4. CASE BeginsStart(t)
      <4>1. \A q \in Threads : ProcOf[q] = ProcOf[t] => ~BusyAt(req[q])
        BY <3>4 DEF BeginsStart, Busy, At, BusyAt
      <4> QED BY <2>1, <3>4, <4>1 DEF StartInv, StartsAlone, BeginsStart
    <3> QED BY <2>1, <3>1, <3>2, <3>3, <3>4
  <2>3. ASSUME NEW u \in Threads, req'[u].at = "load"
        PROVE  req'[u].op = "start"
    BY <2>1, <2>3 DEF StartInv, EndsRequest, GoesOn, BeginsRequest, BeginsStart
  <2> QED BY <1>1, <2>2, <2>3 DEF StartInv
<1>3. ASSUME NEW p \in Procs, Crash(p)
      PROVE  StartInv'
  <2>1. \A u \in Threads : req'[u] \in {Idle, req[u]}
    BY <1>3 DEF Crash
  <2>2. up' \subseteq up
    BY <1>3 DEF Crash
  <2>3. ~BusyAt(Idle) /\ Idle.at # "load"
    BY DEF BusyAt, Idle
  <2> QED BY <1>1, <2>1, <2>2, <2>3 DEF StartInv, StartsAlone
<1>4. CASE Tick \/ UNCHANGED vars
  <2>1. UNCHANGED <<up, req>>
    BY <1>4 DEF Tick, vars
  <2> QED BY <1>1, <2>1 DEF StartInv, StartsAlone
<1> QED BY <1>2, <1>3, <1>4 DEF Next

LEMMA InitStartInv == Init => StartInv
BY InitInv DEF Init, Idle, StartInv, StartsAlone, BusyAt

\* A running process goes on honouring a pairing it has confirmed until the
\* pairing expires: no prune of another request takes it, no confirmation is
\* undone, and the file is read only by a process that is being built.
THEOREM ConfirmationStays == Spec => ConfirmationHolds
<1>1. ASSUME StartInv, Next,
             NEW p \in Procs, NEW k \in Pairings,
             p \in up, p \in up', records[p][k] = "confirmed", ~Expired(k)
      PROVE  records'[p][k] = "confirmed"
  <2>1. /\ records \in [Procs -> Records] /\ Known(records[p]) /\ expires[k] # None
        /\ \A t \in Threads : ProcOf[t] \in Procs
    BY <1>1, ConstantsAssumption DEF StartInv, Inv, TypeOK, MemoryInv, Known
  <2>2. ASSUME NEW t \in Threads, Step(t)
        PROVE  records'[p][k] = "confirmed"
    <3>1. CASE Load(t)
      <4>1. ProcOf[t] # p
        BY <1>1, <3>1 DEF Load, At, StartInv, StartsAlone, BusyAt
      <4>2. UNCHANGED records \/ \E c : records' = [records EXCEPT ![ProcOf[t]] = c]
        BY <3>1 DEF Load
      <4> QED BY <1>1, <2>1, <4>1, <4>2
    <3>2. ASSUME NEW j \in Pairings, Create(t, j)
          PROVE  records'[p][k] = "confirmed"
      <4>1. j # k /\ records' = [records EXCEPT ![ProcOf[t]] =
                                   [Pruned(records[ProcOf[t]]) EXCEPT ![j] = "pending"]]
        BY <2>1, <3>2 DEF Create
      <4>2. Pruned(records[p])[k] = "confirmed"
        BY <1>1 DEF Pruned
      <4>3. Pruned(records[p]) \in Records
        BY <2>1, PrunedKeeps
      <4> QED BY <1>1, <2>1, <4>1, <4>2, <4>3 DEF Records
    <3>3. CASE Update(t)
      <4>1. req[t].subject \in Pairings
        BY <1>1, <3>3 DEF Update, At, StartInv, Inv, RequestInv, KnownReq
      <4> QED BY <1>1, <2>1, <3>3, <4>1 DEF Update, Records
    <3>4. CASE \/ Start(t) \/ \E j \in Pairings : Confirm(t, j)
               \/ Dump(t) \/ Dumped(t) \/ OpenTmp(t) \/ Write(t) \/ Rename(t)
               \/ \E e \in Envelopes : OpenEnvelope(t, e)
               \/ Look(t) \/ Consume(t)
      <4>1. UNCHANGED records
        BY <3>4 DEF Start, Confirm, Dump, Dumped, OpenTmp, Write, Rename, OpenEnvelope, Look, Consume
      <4> QED BY <1>1, <4>1
    <3> QED BY <2>2, <3>1, <3>2, <3>3, <3>4 DEF Step
  <2>3. ASSUME NEW q \in Procs, Crash(q)
        PROVE  records'[p][k] = "confirmed"
    BY <1>1, <2>1, <2>3 DEF Crash
  <2>4. CASE Tick
    BY <1>1, <2>4 DEF Tick
  <2> QED BY <1>1, <2>2, <2>3, <2>4 DEF Next
<1>2. StartInv /\ [Next]_vars =>
        [\A p \in Procs, k \in Pairings :
           (p \in up /\ p \in up' /\ records[p][k] = "confirmed" /\ ~Expired(k))
              => records'[p][k] = "confirmed"]_vars
  BY <1>1
<1> QED BY InitStartInv, StartInvNext, <1>2, PTL DEF Spec, ConfirmationHolds

-----------------------------------------------------------------------------
(* As long as requests that save have not overlapped, at most one is under *)
(* way, and pairing.json, the memory of the process that runs and what is  *)
(* being saved all hold what was answered.                                 *)

Covers(c) ==
    \A k \in Pairings : answered[k] # None /\ ~Expired(k) => c[k] \in {answered[k], "confirmed"}

FileCovers ==
    /\ names["json"] # None =>
         /\ data[names["json"]] \in Records /\ Covers(data[names["json"]])
         /\ names["tmp"] # names["json"]
    /\ names["json"] = None => \A k \in Pairings : answered[k] # None => Expired(k)

MemoryCovers ==
    /\ \A p, q \in up : p = q
    /\ \A p \in up : Covers(records[p])
    /\ \A k \in Pairings : answered[k] # None => expires[k] # None

\* What is being saved is the memory, with the answer to come, and the file it
\* is written to is no other's.
Saves(t) ==
    LET r    == req[t]
        mine == records[ProcOf[t]]
    IN /\ r.at \in {"update", "dump", "dumping", "open", "write", "rename"} => Covers(mine)
       /\ r.at \in {"dump", "dumping", "open", "write", "rename"} /\ r.op \in {"create", "confirm"} =>
            r.subject \in Pairings /\ mine[r.subject] = IF r.op = "create" THEN "pending" ELSE "confirmed"
       /\ r.at \in {"dumping", "open", "write", "rename"} => r.dump = mine
       /\ r.at = "write" => r.fd = names["tmp"] /\ data[r.fd] = Blank
       /\ r.at = "rename" => (names["tmp"] # None => data[names["tmp"]] = r.dump)

Alone ==
    /\ \A t, u \in Threads : Saving(t) /\ Saving(u) => t = u
    /\ \A t \in Threads : Saving(t) => up \subseteq {ProcOf[t]} /\ Saves(t)

PhaseOK(r) ==
    /\ r.at # "idle" => (r.at \in {"look", "consume"} <=> r.op = "envelope")
    /\ r.at = "load" => r.op = "start"
    /\ r.at = "update" => r.op = "confirm"

Answering == \A t \in Threads : PhaseOK(req[t])

PersistInv ==
    /\ StartInv /\ Answering
    /\ ~crowded => FileCovers /\ MemoryCovers /\ Alone

PersistTyped ==
    /\ req \in [Threads -> Requests] /\ records \in [Procs -> Records] /\ now \in Nat
    /\ expires \in [Pairings -> Nat \cup {None}] /\ answered \in [Pairings -> Standing]
    /\ names \in [{"json", "tmp"} -> Inodes \cup {None}]
    /\ data \in [Inodes -> Records \cup {Blank, Torn}]
    /\ \A t \in Threads : ProcOf[t] \in Procs

LEMMA PersistTypes == PersistInv => PersistTyped
BY ConstantsAssumption DEF PersistInv, StartInv, Inv, TypeOK, PersistTyped

\* The request of a thread after a step that ends it or takes it on.
LEMMA Ended ==
  ASSUME PersistTyped, NEW t \in Threads, End(t)
  PROVE  req'[t] = Idle /\ ~Saving(t)' /\ PhaseOK(req'[t])
BY DEF PersistTyped, End, Saving, At, PhaseOK, Idle

LEMMA TakenOn ==
  ASSUME PersistTyped, NEW t \in Threads, NEW step, Goto(t, step)
  PROVE  /\ req'[t].at = step /\ req'[t].op = req[t].op /\ req'[t].subject = req[t].subject
         /\ req'[t].dump = req[t].dump /\ req'[t].fd = req[t].fd
BY DEF PersistTyped, Goto, Requests

LEMMA PhaseKeeps ==
  ASSUME PersistInv, NEW t \in Threads, \A u \in Threads \ {t} : req'[u] = req[u],
         PhaseOK(req'[t])
  PROVE  Answering'
BY DEF PersistInv, Answering, PhaseOK

\* A step that changes one request only.
LEMMA OneRequest ==
  ASSUME PersistInv, FileCovers, MemoryCovers, Alone, NEW t \in Threads,
         UNCHANGED <<now, expires, up, records, names, data, answered>>,
         \A u \in Threads \ {t} : req'[u] = req[u],
         Saving(t)' => Saving(t) /\ Saves(t)'
  PROVE  FileCovers' /\ MemoryCovers' /\ Alone'
<1>1. \A c : Covers(c)' <=> Covers(c)
  BY DEF Covers, Expired
<1>2. FileCovers' /\ MemoryCovers'
  BY DEF FileCovers, MemoryCovers, Covers, Expired
<1>3. \A u \in Threads \ {t} : (Saving(u)' <=> Saving(u)) /\ (Saves(u)' <=> Saves(u))
  BY DEF Saving, At, Saves, Covers, Expired
<1>4. Alone'
  BY <1>3 DEF Alone
<1> QED BY <1>2, <1>4

\* A request that saves begins when no other does.
LEMMA BeginsAlone ==
  ASSUME PersistInv, NEW t \in Threads, Beside(t), ~crowded', \A u \in Threads \ {t} : req'[u] = req[u]
  PROVE  /\ ~crowded /\ up \subseteq {ProcOf[t]} /\ \A u \in Threads \ {t} : ~Saving(u) /\ ~Saving(u)'
         /\ FileCovers /\ MemoryCovers /\ Alone
<1>1. ~crowded /\ up \ {ProcOf[t]} = {} /\ \A u \in Threads \ {t} : ~Saving(u)
  BY DEF Beside
<1>2. \A u \in Threads \ {t} : ~Saving(u)'
  BY <1>1 DEF Saving, At
<1> QED BY <1>1, <1>2 DEF PersistInv

LEMMA StartPersists ==
  ASSUME PersistInv, PersistTyped, NEW t \in Threads, Start(t),
         \A u \in Threads \ {t} : req'[u] = req[u]
  PROVE  Answering' /\ (~crowded' => FileCovers' /\ MemoryCovers' /\ Alone')
<1>1. /\ UNCHANGED <<now, expires, up, records, names, data, answered>> /\ Beside(t)
      /\ req'[t].at = "load" /\ req'[t].op = "start"
  BY DEF Start, store, PersistTyped, Requests
<1>2. Answering'
  BY <1>1, PhaseKeeps DEF PhaseOK, PersistInv, Answering
<1>3. ASSUME ~crowded' PROVE FileCovers' /\ MemoryCovers' /\ Alone'
  <2>1. /\ ~crowded /\ up \subseteq {ProcOf[t]} /\ \A u \in Threads \ {t} : ~Saving(u)'
        /\ FileCovers /\ MemoryCovers /\ Alone
    BY <1>1, <1>3, BeginsAlone
  <2>2. FileCovers' /\ MemoryCovers'
    BY <1>1, <2>1 DEF FileCovers, MemoryCovers, Covers, Expired
  <2>3. Saves(t)'
    BY <1>1 DEF Saves
  <2>4. Alone'
    BY <1>1, <2>1, <2>3 DEF Alone
  <2> QED BY <2>2, <2>4
<1> QED BY <1>2, <1>3

LEMMA LoadPersists ==
  ASSUME PersistInv, PersistTyped, NEW t \in Threads, Load(t),
         \A u \in Threads \ {t} : req'[u] = req[u]
  PROVE  Answering' /\ (~crowded' => FileCovers' /\ MemoryCovers' /\ Alone')
<1> DEFINE read == IF names["json"] = None THEN NoRecords ELSE data[names["json"]]
           p    == ProcOf[t]
<1>1. /\ UNCHANGED <<now, expires, names, data, answered, crowded>> /\ req[t].at = "load"
      /\ req[t].op = "start"
  BY DEF Load, store, history, At, PersistInv, Answering, PhaseOK
<1>2. PhaseOK(req'[t])
  <2>1. CASE End(t)
    BY <2>1, Ended
  <2>2. CASE Goto(t, "dump")
    BY <1>1, <2>2, TakenOn DEF PhaseOK
  <2> QED BY <2>1, <2>2 DEF Load
<1>3. Answering'
  BY <1>1, <1>2, PhaseKeeps DEF PersistInv, Answering
<1>4. ASSUME ~crowded' PROVE FileCovers' /\ MemoryCovers' /\ Alone'
  <2>1. FileCovers /\ MemoryCovers /\ Alone /\ Saving(t)
    BY <1>1, <1>4 DEF PersistInv, Saving, At
  <2>2. up \subseteq {p} /\ \A u \in Threads \ {t} : ~Saving(u) /\ ~Saving(u)'
    BY <2>1 DEF Alone, Saving, At
  <2>3. read \in Records /\ read \notin {Blank, Torn}
    BY <2>1, NoRecordsType, ConstantsAssumption DEF FileCovers
  <2>4. Covers(read)
    BY <2>1 DEF FileCovers, Covers, NoRecords
  <2>5. Covers(Pruned(read))
    BY <2>4 DEF Covers, Pruned
  <2>6. records' = [records EXCEPT ![p] = Pruned(read)]
        /\ ((Goto(t, "dump") /\ up' = up) \/ (End(t) /\ up' = up \cup {p}))
    <3>1. \/ read \in {Blank, Torn}
          \/ /\ records' = [records EXCEPT ![p] = Pruned(read)]
             /\ IF Pruned(read) # read THEN Goto(t, "dump") /\ UNCHANGED up
                                       ELSE End(t) /\ up' = up \cup {p}
      BY DEF Load
    <3> HIDE DEF read
    <3> QED BY <2>3, <3>1
  <2>7. records'[p] = Pruned(read)
    BY <2>6 DEF PersistTyped
  <2>8. FileCovers'
    BY <1>1, <2>1 DEF FileCovers, Covers, Expired
  <2>9. \A c : Covers(c) => Covers(c)'
    BY <1>1 DEF Covers, Expired
  <2>10. MemoryCovers'
    BY <1>1, <2>1, <2>2, <2>5, <2>6, <2>7, <2>9 DEF MemoryCovers
  <2>11. up' \subseteq {p}
    BY <2>2, <2>6
  <2>12. Saving(t)' => Saves(t)'
    <3>1. CASE End(t)
      BY <3>1, Ended
    <3>2. CASE Goto(t, "dump")
      <4>1. req'[t].at = "dump" /\ req'[t].op = "start"
        BY <1>1, <3>2, TakenOn
      <4> QED BY <2>5, <2>7, <2>9, <4>1 DEF Saves
    <3> QED BY <2>6, <3>1, <3>2
  <2>13. Alone'
    BY <2>2, <2>11, <2>12 DEF Alone
  <2> QED BY <2>8, <2>10, <2>13
<1> QED BY <1>3, <1>4

LEMMA CreatePersists ==
  ASSUME PersistInv, PersistTyped, NEW t \in Threads, NEW k \in Pairings, Create(t, k),
         \A u \in Threads \ {t} : req'[u] = req[u]
  PROVE  Answering' /\ (~crowded' => FileCovers' /\ MemoryCovers' /\ Alone')
<1> DEFINE p    == ProcOf[t]
           mine == [Pruned(records[p]) EXCEPT ![k] = "pending"]
<1>1. /\ UNCHANGED <<now, up, names, data, answered>> /\ Beside(t) /\ p \in up /\ p \in Procs
      /\ expires[k] = None /\ expires' = [expires EXCEPT ![k] = now + TTL]
      /\ records' = [records EXCEPT ![p] = mine]
      /\ req'[t].at = "dump" /\ req'[t].op = "create" /\ req'[t].subject = k
  BY DEF Create, store, PersistTyped, Requests
<1>2. /\ FileCovers /\ MemoryCovers => answered[k] = None
      /\ \A j \in Pairings : j # k => expires'[j] = expires[j]
      /\ expires'[k] # None
  BY <1>1, ConstantsAssumption DEF MemoryCovers, PersistTyped
<1>3. Answering'
  BY <1>1, <1>2, PhaseKeeps DEF PhaseOK, PersistInv, Answering
<1>4. ASSUME ~crowded' PROVE FileCovers' /\ MemoryCovers' /\ Alone'
  <2>1. /\ ~crowded /\ up \subseteq {p} /\ \A u \in Threads \ {t} : ~Saving(u)'
        /\ FileCovers /\ MemoryCovers /\ Alone
    BY <1>1, <1>4, BeginsAlone
  <2>2. \A c : Covers(c) => Covers(c)'
    BY <1>1, <1>2, <2>1 DEF Covers, Expired
  <2>3. FileCovers'
    <3>1. \A j \in Pairings : answered'[j] # None /\ Expired(j) => Expired(j)'
      BY <1>1, <1>2, <2>1 DEF Expired
    <3> QED BY <1>1, <2>1, <2>2, <3>1 DEF FileCovers
  <2>4. Pruned(records[p]) \in Records /\ mine \in Records /\ mine[k] = "pending"
    <3>1. Pruned(records[p]) \in Records
      BY <1>1, PrunedKeeps DEF PersistTyped
    <3> QED BY <3>1 DEF Records, Standing
  <2>5. Covers(mine)
    <3>1. Covers(records[p])
      BY <1>1, <2>1 DEF MemoryCovers
    <3>2. \A j \in Pairings : j # k => mine[j] = Pruned(records[p])[j]
      BY <2>4 DEF Records
    <3> QED BY <1>2, <2>1, <3>1, <3>2 DEF Covers, Pruned
  <2>6. records'[p] = mine
    BY <1>1 DEF PersistTyped
  <2> HIDE DEF mine
  <2>7. MemoryCovers'
    BY <1>1, <1>2, <2>1, <2>2, <2>5, <2>6 DEF MemoryCovers
  <2>8. Saves(t)'
    BY <1>1, <2>2, <2>4, <2>5, <2>6 DEF Saves
  <2>9. Alone'
    BY <1>1, <2>1, <2>8 DEF Alone
  <2> QED BY <2>3, <2>7, <2>9
<1> QED BY <1>3, <1>4

LEMMA ConfirmPersists ==
  ASSUME PersistInv, PersistTyped, NEW t \in Threads, NEW k \in Pairings, Confirm(t, k),
         \A u \in Threads \ {t} : req'[u] = req[u]
  PROVE  Answering' /\ (~crowded' => FileCovers' /\ MemoryCovers' /\ Alone')
<1>1. /\ UNCHANGED <<now, expires, up, records, names, data, answered>> /\ Beside(t) /\ ProcOf[t] \in up
      /\ req'[t].at = "update" /\ req'[t].op = "confirm"
  BY DEF Confirm, store, PersistTyped, Requests
<1>2. Answering'
  BY <1>1, PhaseKeeps DEF PhaseOK, PersistInv, Answering
<1>3. ASSUME ~crowded' PROVE FileCovers' /\ MemoryCovers' /\ Alone'
  <2>1. /\ ~crowded /\ up \subseteq {ProcOf[t]} /\ \A u \in Threads \ {t} : ~Saving(u)'
        /\ FileCovers /\ MemoryCovers /\ Alone
    BY <1>1, <1>3, BeginsAlone
  <2>2. FileCovers' /\ MemoryCovers'
    BY <1>1, <2>1 DEF FileCovers, MemoryCovers, Covers, Expired
  <2>3. Saves(t)'
    BY <1>1, <2>1 DEF Saves, MemoryCovers, Covers, Expired
  <2>4. Alone'
    BY <1>1, <2>1, <2>3 DEF Alone
  <2> QED BY <2>2, <2>4
<1> QED BY <1>2, <1>3

\* The step of a request that saves, and does not begin.
LEMMA SavesAlone ==
  ASSUME PersistInv, PersistTyped, NEW t \in Threads, ~crowded,
         req[t].at \in {"update", "dump", "dumping", "open", "write", "rename"},
         \A u \in Threads \ {t} : req'[u] = req[u]
  PROVE  /\ Saving(t) /\ up \subseteq {ProcOf[t]} /\ Saves(t)
         /\ \A u \in Threads \ {t} : ~Saving(u)'
         /\ FileCovers /\ MemoryCovers
<1>1. PhaseOK(req[t]) /\ FileCovers /\ MemoryCovers /\ Alone
  BY DEF PersistInv, Answering
<1>2. Saving(t)
  BY <1>1 DEF PhaseOK, Saving, At
<1>3. \A u \in Threads \ {t} : ~Saving(u)'
  BY <1>1, <1>2 DEF Alone, Saving, At
<1> QED BY <1>1, <1>2, <1>3 DEF Alone

LEMMA UpdatePersists ==
  ASSUME PersistInv, PersistTyped, NEW t \in Threads, Update(t),
         \A u \in Threads \ {t} : req'[u] = req[u]
  PROVE  Answering' /\ (~crowded' => FileCovers' /\ MemoryCovers' /\ Alone')
<1> DEFINE p == ProcOf[t]
           k == req[t].subject
           mine == [records[p] EXCEPT ![k] = "confirmed"]
<1>1. /\ UNCHANGED <<now, expires, up, names, data, answered, crowded>>
      /\ req[t].at = "update" /\ req[t].op = "confirm" /\ Goto(t, "dump")
      /\ records' = [records EXCEPT ![p] = mine] /\ records[p] \in Records /\ k \in Pairings
  <2>1. req[t].at = "update" /\ req[t].op = "confirm" /\ k \in Pairings
    BY DEF Update, At, PersistInv, Answering, PhaseOK, StartInv, Inv, RequestInv, KnownReq
  <2> QED BY <2>1 DEF Update, store, history, PersistTyped
<1>2. /\ req'[t].at = "dump" /\ req'[t].op = "confirm" /\ req'[t].subject = k
  BY <1>1, TakenOn
<1>3. Answering'
  BY <1>1, <1>2, PhaseKeeps DEF PhaseOK, PersistInv, Answering
<1>4. ASSUME ~crowded' PROVE FileCovers' /\ MemoryCovers' /\ Alone'
  <2>1. /\ up \subseteq {p} /\ Saves(t) /\ \A u \in Threads \ {t} : ~Saving(u)'
        /\ FileCovers /\ MemoryCovers
    BY <1>1, <1>4, SavesAlone
  <2>2. FileCovers'
    BY <1>1, <2>1 DEF FileCovers, Covers, Expired
  <2>3. mine[k] = "confirmed" /\ \A j \in Pairings : mine[j] \in {records[p][j], "confirmed"}
    BY <1>1 DEF Records
  <2>4. records'[p] = mine
    BY <1>1 DEF PersistTyped
  <2> HIDE DEF mine, k
  <2>5. Covers(mine)
    BY <1>1, <2>1, <2>3 DEF Covers, Saves
  <2>6. \A c : Covers(c) => Covers(c)'
    BY <1>1 DEF Covers, Expired
  <2>7. MemoryCovers'
    BY <1>1, <2>1, <2>4, <2>5, <2>6 DEF MemoryCovers
  <2>8. Saves(t)'
    BY <1>1, <1>2, <2>3, <2>4, <2>5, <2>6 DEF Saves
  <2>9. Alone'
    BY <1>1, <2>1, <2>8 DEF Alone
  <2> QED BY <2>2, <2>7, <2>9
<1> QED BY <1>3, <1>4

LEMMA DumpPersists ==
  ASSUME PersistInv, PersistTyped, NEW t \in Threads, Dump(t) \/ Dumped(t),
         \A u \in Threads \ {t} : req'[u] = req[u]
  PROVE  Answering' /\ (~crowded' => FileCovers' /\ MemoryCovers' /\ Alone')
<1> DEFINE mine == records[ProcOf[t]]
<1>1. /\ UNCHANGED <<now, expires, up, records, names, data, answered, crowded>>
      /\ req[t].at \in {"dump", "dumping"}
      /\ \/ End(t)
         \/ \E step \in {"dumping", "open"} : req' = [req EXCEPT ![t].dump = mine, ![t].at = step]
  BY DEF Dump, Dumped, At, store, history
<1>2. PhaseOK(req[t])
  BY DEF PersistInv, Answering
<1>3. CASE End(t)
  <2>1. ~Saving(t)' /\ PhaseOK(req'[t])
    BY <1>3, Ended
  <2> QED BY <1>1, <2>1, PhaseKeeps, OneRequest DEF PersistInv, Answering
<1>4. ASSUME NEW step \in {"dumping", "open"},
             req' = [req EXCEPT ![t].dump = mine, ![t].at = step]
      PROVE  Answering' /\ (~crowded' => FileCovers' /\ MemoryCovers' /\ Alone')
  <2>1. req'[t].at = step /\ req'[t].op = req[t].op /\ req'[t].subject = req[t].subject
        /\ req'[t].dump = mine
    BY <1>4 DEF PersistTyped, Requests
  <2>2. PhaseOK(req'[t])
    BY <1>1, <1>2, <2>1 DEF PhaseOK
  <2>3. Answering'
    BY <1>1, <2>2, PhaseKeeps DEF PersistInv, Answering
  <2>4. ASSUME ~crowded' PROVE FileCovers' /\ MemoryCovers' /\ Alone'
    <3>1. Saving(t) /\ Saves(t) /\ FileCovers /\ MemoryCovers /\ Alone
      BY <1>1, <2>4, SavesAlone DEF PersistInv
    <3>2. Saves(t)'
      BY <1>1, <2>1, <3>1 DEF Saves, Covers, Expired
    <3> QED BY <1>1, <3>1, <3>2, OneRequest
  <2> QED BY <2>3, <2>4
<1> QED BY <1>1, <1>3, <1>4

LEMMA OpenTmpPersists ==
  ASSUME PersistInv, PersistTyped, NEW t \in Threads, OpenTmp(t),
         \A u \in Threads \ {t} : req'[u] = req[u]
  PROVE  Answering' /\ (~crowded' => FileCovers' /\ MemoryCovers' /\ Alone')
<1>1. PICK i \in Inodes :
        /\ IF names["tmp"] # None THEN i = names["tmp"]
                                  ELSE i # names["json"] /\ \A u \in Threads : req[u].fd # i
        /\ data' = [data EXCEPT ![i] = Blank]
        /\ names' = [names EXCEPT !["tmp"] = i]
        /\ req' = [req EXCEPT ![t].fd = i, ![t].at = "write"]
  BY DEF OpenTmp
<1>2. UNCHANGED <<now, expires, up, records, answered, crowded>> /\ req[t].at = "open"
  BY DEF OpenTmp, At, history
<1>3. /\ req'[t].at = "write" /\ req'[t].op = req[t].op /\ req'[t].subject = req[t].subject
      /\ req'[t].dump = req[t].dump /\ req'[t].fd = i
  BY <1>1 DEF PersistTyped, Requests
<1>4. PhaseOK(req[t])
  BY DEF PersistInv, Answering
<1>5. Answering'
  BY <1>2, <1>3, <1>4, PhaseKeeps DEF PhaseOK, PersistInv, Answering
<1>6. ASSUME ~crowded' PROVE FileCovers' /\ MemoryCovers' /\ Alone'
  <2>1. /\ up \subseteq {ProcOf[t]} /\ Saves(t) /\ \A u \in Threads \ {t} : ~Saving(u)'
        /\ FileCovers /\ MemoryCovers
    BY <1>2, <1>6, SavesAlone
  <2>2. names'["tmp"] = i /\ names'["json"] = names["json"] /\ data'[i] = Blank
        /\ \A j \in Inodes : j # i => data'[j] = data[j]
    BY <1>1 DEF PersistTyped
  <2>3. names["json"] # None => names["json"] # i /\ names["json"] \in Inodes
    BY <1>1, <2>1 DEF FileCovers, PersistTyped
  <2>4. FileCovers'
    BY <1>2, <2>1, <2>2, <2>3 DEF FileCovers, Covers, Expired
  <2>5. MemoryCovers'
    BY <1>2, <2>1 DEF MemoryCovers, Covers, Expired
  <2>6. Saves(t)'
    BY <1>2, <1>3, <2>1, <2>2 DEF Saves, Covers, Expired
  <2>7. Alone'
    BY <1>2, <2>1, <2>6 DEF Alone
  <2> QED BY <2>4, <2>5, <2>7
<1> QED BY <1>5, <1>6

LEMMA WritePersists ==
  ASSUME PersistInv, PersistTyped, NEW t \in Threads, Write(t),
         \A u \in Threads \ {t} : req'[u] = req[u]
  PROVE  Answering' /\ (~crowded' => FileCovers' /\ MemoryCovers' /\ Alone')
<1> DEFINE i == req[t].fd
<1>1. /\ UNCHANGED <<now, expires, up, records, names, answered, crowded>> /\ req[t].at = "write"
      /\ data' = [data EXCEPT ![i] = Over(data[i], req[t].dump)] /\ Goto(t, "rename")
      /\ i \in Inodes
  BY DEF Write, At, history, PersistInv, StartInv, Inv, RequestInv, KnownReq
<1>2. /\ req'[t].at = "rename" /\ req'[t].op = req[t].op /\ req'[t].subject = req[t].subject
      /\ req'[t].dump = req[t].dump
  BY <1>1, TakenOn
<1>3. PhaseOK(req[t])
  BY DEF PersistInv, Answering
<1>4. Answering'
  BY <1>1, <1>2, <1>3, PhaseKeeps DEF PhaseOK, PersistInv, Answering
<1>5. ASSUME ~crowded' PROVE FileCovers' /\ MemoryCovers' /\ Alone'
  <2>1. /\ up \subseteq {ProcOf[t]} /\ Saves(t) /\ \A u \in Threads \ {t} : ~Saving(u)'
        /\ FileCovers /\ MemoryCovers
    BY <1>1, <1>5, SavesAlone
  <2>2. i = names["tmp"] /\ Over(data[i], req[t].dump) = req[t].dump
    <3>1. i = names["tmp"] /\ data[i] = Blank
      BY <1>1, <2>1 DEF Saves
    <3> QED BY <3>1, ConstantsAssumption DEF Over
  <2>3. data'[i] = req[t].dump /\ \A j \in Inodes : j # i => data'[j] = data[j]
    BY <1>1, <2>2 DEF PersistTyped
  <2>4. names["json"] # None => names["json"] # i /\ names["json"] \in Inodes
    BY <2>1, <2>2 DEF FileCovers, PersistTyped
  <2>5. FileCovers'
    BY <1>1, <2>1, <2>3, <2>4 DEF FileCovers, Covers, Expired
  <2>6. MemoryCovers'
    BY <1>1, <2>1 DEF MemoryCovers, Covers, Expired
  <2>7. Saves(t)'
    BY <1>1, <1>2, <2>1, <2>2, <2>3 DEF Saves, Covers, Expired
  <2>8. Alone'
    BY <1>1, <2>1, <2>7 DEF Alone
  <2> QED BY <2>5, <2>6, <2>8
<1> QED BY <1>4, <1>5

LEMMA RenamePersists ==
  ASSUME PersistInv, PersistTyped, NEW t \in Threads, Rename(t),
         \A u \in Threads \ {t} : req'[u] = req[u]
  PROVE  Answering' /\ (~crowded' => FileCovers' /\ MemoryCovers' /\ Alone')
<1> DEFINE p == ProcOf[t]
           k == req[t].subject
           value == IF req[t].op = "create" THEN "pending" ELSE "confirmed"
<1>1. /\ UNCHANGED <<now, expires, records, data, crowded>> /\ req[t].at = "rename" /\ End(t)
      /\ ~Saving(t)' /\ PhaseOK(req'[t])
  BY Ended DEF Rename, At
<1>2. CASE names["tmp"] = None
  <2>1. UNCHANGED <<names, up, answered>>
    BY <1>2 DEF Rename
  <2> QED BY <1>1, <2>1, PhaseKeeps, OneRequest DEF PersistInv, Answering
<1>3. CASE names["tmp"] # None
  <2>1. /\ names' = [json |-> names["tmp"], tmp |-> None]
        /\ up' \in {up, up \cup {p}} /\ Answer(t)
    BY <1>3 DEF Rename
  <2>2. /\ req[t].op \in {"create", "confirm"} => answered' = [answered EXCEPT ![k] = value]
        /\ req[t].op \notin {"create", "confirm"} => answered' = answered
    BY <2>1 DEF Answer
  <2>3. \A j \in Pairings : answered'[j] = answered[j]
                             \/ (answered'[j] = value /\ j = k /\ req[t].op \in {"create", "confirm"})
    BY <2>2 DEF PersistTyped
  <2>4. Answering'
    BY <1>1, PhaseKeeps
  <2>5. ASSUME ~crowded' PROVE FileCovers' /\ MemoryCovers' /\ Alone'
    <3>1. /\ up \subseteq {p} /\ Saves(t) /\ \A u \in Threads \ {t} : ~Saving(u)'
          /\ FileCovers /\ MemoryCovers
      BY <1>1, <2>5, SavesAlone
    <3>2. /\ data[names["tmp"]] = records[p] /\ Covers(records[p]) /\ records[p] \in Records
          /\ req[t].op \in {"create", "confirm"} => records[p][k] = value
      BY <1>1, <1>3, <3>1 DEF Saves, PersistTyped
    <3>3. \A j \in Pairings : answered'[j] # None /\ ~Expired(j) => records[p][j] \in {answered'[j], "confirmed"}
      BY <2>3, <3>2 DEF Covers
    <3>4. FileCovers'
      BY <1>1, <1>3, <2>1, <3>2, <3>3 DEF FileCovers, Covers, Expired
    <3>5. MemoryCovers'
      <4>1. Known(records[p])
        BY DEF PersistInv, StartInv, Inv, MemoryInv, PersistTyped
      <4>2. \A j \in Pairings : answered'[j] # None => expires[j] # None
        BY <2>3, <3>1, <3>2, <4>1, ConstantsAssumption DEF MemoryCovers, Known
      <4> QED BY <1>1, <2>1, <3>1, <3>3, <4>2 DEF MemoryCovers, Covers, Expired
    <3>6. Alone'
      BY <1>1, <2>1, <3>1 DEF Alone
    <3> QED BY <3>4, <3>5, <3>6
  <2> QED BY <2>4, <2>5
<1> QED BY <1>2, <1>3

LEMMA EnvelopePersists ==
  ASSUME PersistInv, PersistTyped, NEW t \in Threads,
         (\E e \in Envelopes : OpenEnvelope(t, e)) \/ Look(t) \/ Consume(t),
         \A u \in Threads \ {t} : req'[u] = req[u]
  PROVE  Answering' /\ (~crowded' => FileCovers' /\ MemoryCovers' /\ Alone')
<1>1. UNCHANGED <<now, expires, up, records, names, data, answered, crowded>>
  BY DEF OpenEnvelope, Look, Consume, store, history
<1>2. ~Saving(t)' /\ PhaseOK(req'[t])
  <2>1. CASE \E e \in Envelopes : OpenEnvelope(t, e)
    <3>1. PICK e \in Envelopes : OpenEnvelope(t, e)
      BY <2>1
    <3>2. req' = [req EXCEPT ![t].op = "envelope", ![t].subject = e, ![t].since = now, ![t].at = "look"]
      BY <3>1 DEF OpenEnvelope
    <3>3. req'[t].op = "envelope" /\ req'[t].at = "look"
      BY <3>2 DEF PersistTyped, Requests
    <3> QED BY <3>3 DEF Saving, At, PhaseOK
  <2>2. CASE End(t)
    BY <2>2, Ended
  <2>3. CASE /\ req[t].at = "look"
             /\ req' = [req EXCEPT ![t].doomed = {d \in Envelopes : Stale(d)}, ![t].at = "consume"]
    <3>1. req[t].op = "envelope"
      BY <2>3 DEF PersistInv, Answering, PhaseOK
    <3>2. req'[t].op = "envelope" /\ req'[t].at = "consume"
      BY <2>3, <3>1 DEF PersistTyped, Requests
    <3> QED BY <3>2 DEF Saving, At, PhaseOK
  <2> QED BY <2>1, <2>2, <2>3 DEF Look, Consume, At
<1> QED BY <1>1, <1>2, PhaseKeeps, OneRequest DEF PersistInv, Answering

LEMMA CrashPersists ==
  ASSUME PersistInv, PersistTyped, NEW p \in Procs, Crash(p)
  PROVE  Answering' /\ (~crowded' => FileCovers' /\ MemoryCovers' /\ Alone')
<1>1. /\ UNCHANGED <<now, expires, names, data, answered, crowded>> /\ up' = up \ {p}
      /\ records' = [records EXCEPT ![p] = NoRecords]
      /\ \A u \in Threads : req'[u] = IF ProcOf[u] = p THEN Idle ELSE req[u]
  BY DEF Crash, store, history
<1>2. PhaseOK(Idle) /\ \A u \in Threads : ProcOf[u] = p => ~Saving(u)'
  BY <1>1 DEF PhaseOK, Idle, Saving, At
<1>3. Answering'
  BY <1>1, <1>2 DEF PersistInv, Answering, PhaseOK
<1>4. ASSUME ~crowded' PROVE FileCovers' /\ MemoryCovers' /\ Alone'
  <2>1. FileCovers /\ MemoryCovers /\ Alone
    BY <1>1, <1>4 DEF PersistInv
  <2>2. \A q \in Procs : q # p => records'[q] = records[q]
    BY <1>1 DEF PersistTyped
  <2>3. FileCovers'
    BY <1>1, <2>1 DEF FileCovers, Covers, Expired
  <2>4. MemoryCovers'
    <3>1. up \subseteq Procs
      BY DEF PersistInv, StartInv, Inv, TypeOK
    <3> QED BY <1>1, <2>1, <2>2, <3>1 DEF MemoryCovers, Covers, Expired
  <2>5. Alone'
    <3>1. \A u \in Threads : Saving(u)' => Saving(u) /\ (Saves(u) => Saves(u)')
      BY <1>1, <1>2, <2>2 DEF Saving, At, Saves, Covers, Expired, PersistTyped
    <3> QED BY <1>1, <2>1, <3>1 DEF Alone
  <2> QED BY <2>3, <2>4, <2>5
<1> QED BY <1>3, <1>4

LEMMA TickPersists ==
  ASSUME PersistInv, PersistTyped, Tick
  PROVE  Answering' /\ (~crowded' => FileCovers' /\ MemoryCovers' /\ Alone')
<1>1. UNCHANGED <<expires, up, records, names, data, req, answered, crowded>> /\ now' = now + 1
  BY DEF Tick, store, history
<1>2. \A k \in Pairings : expires[k] # None /\ Expired(k) => Expired(k)'
  BY <1>1 DEF PersistTyped, Expired
<1>3. MemoryCovers => \A c : Covers(c) => Covers(c)'
  BY <1>1, <1>2 DEF MemoryCovers, Covers
<1>4. Answering'
  BY <1>1 DEF PersistInv, Answering, PhaseOK
<1>5. ASSUME ~crowded' PROVE FileCovers' /\ MemoryCovers' /\ Alone'
  <2>1. FileCovers /\ MemoryCovers /\ Alone
    BY <1>1, <1>5 DEF PersistInv
  <2>2. FileCovers'
    <3>1. \A k \in Pairings : answered[k] # None /\ Expired(k) => Expired(k)'
      BY <1>2, <2>1 DEF MemoryCovers
    <3> QED BY <1>1, <1>3, <2>1, <3>1 DEF FileCovers
  <2>3. MemoryCovers'
    BY <1>1, <1>3, <2>1 DEF MemoryCovers
  <2>4. \A u \in Threads : (Saving(u)' <=> Saving(u)) /\ (Saves(u) => Saves(u)')
    BY <1>1, <1>3, <2>1 DEF Saving, At, Saves
  <2>5. Alone'
    BY <1>1, <2>1, <2>4 DEF Alone
  <2> QED BY <2>2, <2>3, <2>5
<1> QED BY <1>4, <1>5

LEMMA PersistNext == PersistInv /\ [Next]_vars => PersistInv'
<1> SUFFICES ASSUME PersistInv, [Next]_vars PROVE PersistInv'
  OBVIOUS
<1>1. PersistTyped /\ StartInv'
  BY PersistTypes, StartInvNext DEF PersistInv
<1>2. ASSUME NEW t \in Threads, Step(t)
      PROVE  Answering' /\ (~crowded' => FileCovers' /\ MemoryCovers' /\ Alone')
  <2>1. \A u \in Threads \ {t} : req'[u] = req[u]
    BY <1>2, RequestStep DEF PersistInv
  <2>2. CASE Start(t) \/ Load(t)
    BY <1>1, <2>1, <2>2, StartPersists, LoadPersists
  <2>3. CASE \E k \in Pairings : Create(t, k) \/ Confirm(t, k)
    BY <1>1, <2>1, <2>3, CreatePersists, ConfirmPersists
  <2>4. CASE Update(t) \/ Dump(t) \/ Dumped(t)
    BY <1>1, <2>1, <2>4, UpdatePersists, DumpPersists
  <2>5. CASE OpenTmp(t) \/ Write(t) \/ Rename(t)
    BY <1>1, <2>1, <2>5, OpenTmpPersists, WritePersists, RenamePersists
  <2>6. CASE (\E e \in Envelopes : OpenEnvelope(t, e)) \/ Look(t) \/ Consume(t)
    BY <1>1, <2>1, <2>6, EnvelopePersists
  <2> QED BY <1>2, <2>2, <2>3, <2>4, <2>5, <2>6 DEF Step
<1>3. ASSUME UNCHANGED vars
      PROVE  Answering' /\ (~crowded' => FileCovers' /\ MemoryCovers' /\ Alone')
  <2>1. UNCHANGED <<now, expires, up, records, names, data, req, answered, crowded>>
    BY <1>3 DEF vars, store, history
  <2>2. \A c : Covers(c)' <=> Covers(c)
    BY <2>1 DEF Covers, Expired
  <2>3. Answering' /\ (~crowded' => FileCovers' /\ MemoryCovers')
    BY <2>1 DEF PersistInv, Answering, PhaseOK, FileCovers, MemoryCovers, Covers, Expired
  <2>4. \A u \in Threads : (Saving(u)' <=> Saving(u)) /\ (Saves(u) => Saves(u)')
    BY <2>1, <2>2 DEF Saving, At, Saves
  <2>5. ~crowded' => Alone'
    BY <2>1, <2>4 DEF PersistInv, Alone
  <2> QED BY <2>3, <2>5
<1>4. Answering' /\ (~crowded' => FileCovers' /\ MemoryCovers' /\ Alone')
  <2>1. CASE \E p \in Procs : Crash(p)
    BY <1>1, <2>1, CrashPersists
  <2>2. CASE Tick
    BY <1>1, <2>2, TickPersists
  <2> QED BY <1>2, <1>3, <2>1, <2>2 DEF Next
<1> QED BY <1>1, <1>4 DEF PersistInv

LEMMA PersistInit == Init => PersistInv
<1> SUFFICES ASSUME Init PROVE PersistInv
  OBVIOUS
<1>1. Answering
  BY DEF Init, Answering, PhaseOK, Idle
<1>2. FileCovers /\ MemoryCovers /\ Alone
  BY DEF Init, FileCovers, MemoryCovers, Alone, Saving, At, Idle
<1> QED BY <1>1, <1>2, InitStartInv DEF PersistInv

\* A process that starts can read pairing.json and finds in it every pairing the
\* worker has answered about and that has not expired, at whatever step of a save
\* a process died, for any number of processes, threads and restarts, as long as
\* requests that save have not overlapped (PairingStore._save, _load).
THEOREM AnswersArePersisted == Spec => []AnswerIsPersisted
<1>1. PersistInv => AnswerIsPersisted
  <2> SUFFICES ASSUME PersistInv, ~crowded PROVE FileIsWhole /\ AnsweredIsPersisted
    BY DEF AnswerIsPersisted
  <2>1. FileCovers
    BY DEF PersistInv
  <2> QED BY <2>1, ConstantsAssumption DEF FileCovers, FileIsWhole, AnsweredIsPersisted, Covers
<1> QED BY <1>1, PersistInit, PersistNext, PTL DEF Spec

-----------------------------------------------------------------------------
(* Companion messages: a message is in one place, and was not handled while  *)
(* it is in any.                                                             *)

CountInv ==
    /\ unsent \subseteq Messages /\ handled \in [Messages -> Nat]
    /\ \A m \in Messages : handled[m] <= 1
    /\ \A m \in unsent : handled[m] = 0

CallsInv ==
    /\ calls \subseteq [transport : Transports, message : TVMessages]
    /\ \A c \in calls : c.message \notin unsent /\ handled[c.message] = 0
    /\ \A c, d \in calls : c.message = d.message => c = d

PhoneInv ==
    /\ wire \in Seq(WatchMessages) /\ IsInjective(wire) /\ tasks \subseteq WatchMessages
    /\ ToSet(wire) \cap tasks = {}
    /\ \A m \in ToSet(wire) \cup tasks : m \notin unsent /\ handled[m] = 0

MacInv ==
    /\ relay \in Seq(MacMessages) /\ batches \subseteq Seq(MacMessages) \ {<<>>}
    /\ \A b \in batches \cup {relay} :
          /\ IsInjective(b)
          /\ \A m \in ToSet(b) : m \notin unsent /\ handled[m] = 0
    /\ \A b \in batches : ToSet(b) \cap ToSet(relay) = {}
    /\ \A b, c \in batches : b # c => ToSet(b) \cap ToSet(c) = {}

\* The saved queue is what failed, in the order it did, and a transport that
\* holds something holds all of it.
QueueInv ==
    /\ saved \in Seq(TVMessages) /\ pending \in [Transports -> Seq(TVMessages)]
    /\ failed \subseteq TVMessages \ unsent
    /\ \A c \in calls : c.message \notin failed
    /\ (\A t, u \in Transports : t = u) =>
          /\ \A t \in Transports : pending[t] \in {<<>>, saved}
          /\ ToSet(saved) = failed /\ IsInjective(saved)

RelayInv == CountInv /\ CallsInv /\ PhoneInv /\ MacInv /\ QueueInv

\* A queue to which a message is added, and one whose first message is taken.
LEMMA Added ==
  ASSUME NEW S, NEW s \in Seq(S), NEW m \in S
  PROVE  /\ Append(s, m) \in Seq(S) /\ Append(s, m) # <<>>
         /\ ToSet(Append(s, m)) = ToSet(s) \cup {m}
         /\ IsInjective(s) /\ m \notin ToSet(s) => IsInjective(Append(s, m))
<1>1. /\ Append(s, m) \in Seq(S) /\ Append(s, m) # <<>> /\ Len(s) \in Nat
      /\ DOMAIN Append(s, m) = 1..(Len(s) + 1) /\ DOMAIN s = 1..Len(s)
      /\ \A i \in 1..Len(s) : Append(s, m)[i] = s[i]
      /\ Append(s, m)[Len(s) + 1] = m
  OBVIOUS
<1> DEFINE long == Append(s, m)
<1> HIDE DEF long
<1>2. ToSet(long) = ToSet(s) \cup {m}
  BY <1>1 DEF ToSet, long
<1>3. ASSUME IsInjective(s), m \notin ToSet(s) PROVE IsInjective(long)
  <2>1. \A i, j \in 1..Len(s) : s[i] = s[j] => i = j
    BY <1>1, <1>3 DEF IsInjective
  <2>2. \A i \in 1..Len(s) : s[i] # m
    BY <1>1, <1>3 DEF ToSet
  <2> QED BY <1>1, <2>1, <2>2 DEF IsInjective, long
<1> QED BY <1>1, <1>2, <1>3 DEF long

LEMMA Taken ==
  ASSUME NEW S, NEW s \in Seq(S), s # <<>>
  PROVE  /\ Head(s) \in S /\ Tail(s) \in Seq(S) /\ Head(s) \in ToSet(s)
         /\ ToSet(s) = ToSet(Tail(s)) \cup {Head(s)}
         /\ IsInjective(s) => IsInjective(Tail(s)) /\ Head(s) \notin ToSet(Tail(s))
         /\ Len(s) # 1 => Tail(s) # <<>>
<1>1. /\ Len(s) \in Nat \ {0} /\ Head(s) = s[1] /\ Head(s) \in S /\ Tail(s) \in Seq(S)
      /\ DOMAIN Tail(s) = 1..(Len(s) - 1) /\ DOMAIN s = 1..Len(s) /\ Len(Tail(s)) = Len(s) - 1
      /\ \A i \in 1..(Len(s) - 1) : Tail(s)[i] = s[i + 1]
  OBVIOUS
<1> DEFINE rest == Tail(s)
<1> HIDE DEF rest
<1>2. \A i \in 1..Len(s) : i = 1 \/ (i - 1 \in 1..(Len(s) - 1) /\ rest[i - 1] = s[i])
  BY <1>1 DEF rest
<1>3. ToSet(s) = ToSet(rest) \cup {Head(s)} /\ Head(s) \in ToSet(s)
  <2>1. \A x \in ToSet(s) : x \in ToSet(rest) \cup {Head(s)}
    <3>1. DOMAIN rest = 1..(Len(s) - 1)
      BY <1>1 DEF rest
    <3> SUFFICES ASSUME NEW x \in ToSet(s) PROVE x \in ToSet(rest) \cup {Head(s)}
      OBVIOUS
    <3>2. PICK i \in 1..Len(s) : x = s[i]
      BY <1>1 DEF ToSet
    <3>3. CASE i = 1
      BY <1>1, <3>2, <3>3
    <3>4. CASE i - 1 \in DOMAIN rest /\ rest[i - 1] = x
      BY <3>4 DEF ToSet
    <3> QED BY <1>2, <3>1, <3>2, <3>3, <3>4
  <2>2. \A x \in ToSet(rest) : x \in ToSet(s)
    <3>1. \A i \in 1..(Len(s) - 1) : rest[i] = s[i + 1] /\ i + 1 \in 1..Len(s)
      BY <1>1 DEF rest
    <3> QED BY <1>1, <3>1 DEF ToSet, rest
  <2>3. Head(s) \in ToSet(s)
    BY <1>1 DEF ToSet
  <2> QED BY <2>1, <2>2, <2>3
<1>4. ASSUME IsInjective(s) PROVE IsInjective(rest) /\ Head(s) \notin ToSet(rest)
  <2>1. \A i, j \in 1..Len(s) : s[i] = s[j] => i = j
    BY <1>1, <1>4 DEF IsInjective
  <2>2. \A i \in 1..(Len(s) - 1) : rest[i] = s[i + 1] /\ i + 1 \in 1..Len(s) /\ i + 1 # 1
    BY <1>1 DEF rest
  <2>3. Head(s) \notin ToSet(rest)
    BY <1>1, <2>1, <2>2 DEF ToSet, rest
  <2> QED BY <1>1, <2>1, <2>2, <2>3 DEF IsInjective, rest
<1> QED BY <1>1, <1>3, <1>4 DEF rest

\* A message is a message of one kind of device.
LEMMA Kinds ==
  ASSUME NEW m
  PROVE  /\ m \in TVMessages => m \notin WatchMessages /\ m \notin MacMessages /\ m \in Messages
         /\ m \in WatchMessages => m \notin MacMessages /\ m \in Messages
         /\ m \in MacMessages => m \in Messages
BY MessagesAssumption DEF Messages

\* The elements of a queue.
LEMMA Elements ==
  ASSUME NEW S, NEW s \in Seq(S)
  PROVE  ToSet(s) \subseteq S /\ (ToSet(s) = {} <=> s = <<>>)
BY DEF ToSet

\* What a step that gives the worker at most a message of one place, and takes it
\* from there, leaves of the others.
LEMMA CountKeeps ==
  ASSUME RelayInv, unsent' \subseteq unsent, NEW m \in Messages \ unsent, handled[m] = 0,
         Handle(m) \/ UNCHANGED handled
  PROVE  CountInv' /\ \A n \in Messages \ {m} : handled'[n] = handled[n]
<1>1. handled' \in [Messages -> Nat] /\ \A n \in Messages \ {m} : handled'[n] = handled[n]
  BY DEF Handle, RelayInv, CountInv
<1>2. handled'[m] \in {0, 1}
  BY DEF Handle, RelayInv, CountInv
<1> QED BY <1>1, <1>2 DEF RelayInv, CountInv

LEMMA CallsKeep ==
  ASSUME CallsInv, unsent' \subseteq unsent, calls' \subseteq calls,
         \A c \in calls' : handled'[c.message] = handled[c.message]
  PROVE  CallsInv'
BY DEF CallsInv

LEMMA PhoneKeeps ==
  ASSUME PhoneInv, unsent' \subseteq unsent, UNCHANGED phone,
         \A m \in WatchMessages : handled'[m] = handled[m]
  PROVE  PhoneInv'
<1>1. wire' = wire /\ tasks' = tasks /\ ToSet(wire) \subseteq WatchMessages
  BY Elements DEF phone, PhoneInv
<1> QED BY <1>1 DEF PhoneInv, ToSet, IsInjective

LEMMA MacKeeps ==
  ASSUME MacInv, unsent' \subseteq unsent, UNCHANGED mac,
         \A m \in MacMessages : handled'[m] = handled[m]
  PROVE  MacInv'
<1>1. relay' = relay /\ batches' = batches /\ \A b \in batches \cup {relay} : ToSet(b) \subseteq MacMessages
  BY Elements DEF mac, MacInv
<1> QED BY <1>1 DEF MacInv

LEMMA QueueKeeps ==
  ASSUME QueueInv, unsent' \subseteq unsent, UNCHANGED <<pending, saved, failed>>, calls' \subseteq calls
  PROVE  QueueInv'
BY DEF QueueInv, ToSet, IsInjective

LEMMA SendKeeps ==
  ASSUME RelayInv, NEW t \in Transports, NEW m \in TVMessages, Send(t, m)
  PROVE  RelayInv'
<1> DEFINE c == [transport |-> t, message |-> m]
<1>1. /\ m \in unsent /\ unsent' = unsent \ {m} /\ calls' = calls \cup {c}
      /\ UNCHANGED <<pending, saved, failed, restarts, phone, mac, handled>>
  BY DEF Send
<1>2. PhoneInv' /\ MacInv'
  BY <1>1, PhoneKeeps, MacKeeps DEF RelayInv
<1>3. CountInv'
  BY <1>1 DEF RelayInv, CountInv
<1>4. CallsInv'
  BY <1>1 DEF RelayInv, CallsInv, CountInv
<1>5. QueueInv'
  <2>1. c.message \notin failed
    BY <1>1 DEF RelayInv, QueueInv
  <2>2. failed \subseteq TVMessages \ unsent'
    BY <1>1 DEF RelayInv, QueueInv
  <2> QED BY <1>1, <2>1, <2>2 DEF RelayInv, QueueInv, ToSet, IsInjective
<1> QED BY <1>2, <1>3, <1>4, <1>5 DEF RelayInv

\* The worker is given at most the message of one request, whose end it is.
LEMMA CallEnds ==
  ASSUME RelayInv, NEW c \in calls, UNCHANGED <<unsent, phone, mac>>, calls' = calls \ {c},
         Handle(c.message) \/ UNCHANGED handled
  PROVE  CountInv' /\ CallsInv' /\ PhoneInv' /\ MacInv'
<1>1. c.message \in TVMessages \ unsent /\ handled[c.message] = 0
  BY DEF RelayInv, CallsInv
<1>2. CountInv' /\ \A n \in Messages \ {c.message} : handled'[n] = handled[n]
  BY <1>1, CountKeeps, Kinds
<1>3. \A m \in WatchMessages \cup MacMessages : handled'[m] = handled[m]
  BY <1>1, <1>2, Kinds
<1>4. \A d \in calls' : d.message \in Messages \ {c.message}
  BY Kinds DEF RelayInv, CallsInv
<1>5. CallsInv'
  BY <1>2, <1>4, CallsKeep DEF RelayInv
<1> QED BY <1>2, <1>3, <1>5, PhoneKeeps, MacKeeps DEF RelayInv

LEMMA AnsweredKeeps ==
  ASSUME RelayInv, NEW c \in calls, Answered(c)
  PROVE  RelayInv'
<1>1. CountInv' /\ CallsInv' /\ PhoneInv' /\ MacInv'
  BY CallEnds DEF Answered
<1>2. QueueInv'
  BY QueueKeeps DEF Answered, RelayInv
<1> QED BY <1>1, <1>2 DEF RelayInv

LEMMA FailedKeeps ==
  ASSUME RelayInv, NEW c \in calls, Failed(c)
  PROVE  RelayInv'
<1> DEFINE t == c.transport
           m == c.message
           before == IF pending[t] = <<>> THEN saved ELSE pending[t]
           queue == Append(before, m)
<1>1. /\ UNCHANGED <<unsent, phone, mac>> /\ calls' = calls \ {c}
      /\ pending' = [pending EXCEPT ![t] = queue] /\ saved' = queue
      /\ failed' = failed \cup {m}
      /\ Handle(m) \/ UNCHANGED handled
  BY DEF Failed, Kept
<1>2. CountInv' /\ CallsInv' /\ PhoneInv' /\ MacInv'
  BY <1>1, CallEnds
<1>3. /\ t \in Transports /\ m \in TVMessages /\ m \notin unsent /\ m \notin failed
      /\ \A d \in calls' : d.message # m
  BY <1>1 DEF RelayInv, CallsInv, QueueInv
<1>4. before \in Seq(TVMessages)
  BY <1>3 DEF RelayInv, QueueInv
<1>5. queue \in Seq(TVMessages) /\ ToSet(queue) = ToSet(before) \cup {m}
      /\ (IsInjective(before) /\ m \notin ToSet(before) => IsInjective(queue))
  BY <1>3, <1>4, Added
<1> HIDE DEF queue
<1>6. ASSUME \A u, v \in Transports : u = v
      PROVE  /\ \A u \in Transports : pending'[u] \in {<<>>, saved'}
             /\ ToSet(queue) = failed' /\ IsInjective(queue)
  <2>1. before = saved
    BY <1>3, <1>6 DEF RelayInv, QueueInv
  <2>2. ToSet(saved) = failed /\ IsInjective(saved)
    BY <1>6 DEF RelayInv, QueueInv
  <2>3. \A u \in Transports : pending'[u] = queue
    BY <1>1, <1>3, <1>6 DEF RelayInv, QueueInv
  <2> QED BY <1>1, <1>3, <1>5, <2>1, <2>2, <2>3
<1>7. QueueInv'
  <2>1. pending' \in [Transports -> Seq(TVMessages)] /\ saved' \in Seq(TVMessages)
    BY <1>1, <1>5 DEF RelayInv, QueueInv
  <2>2. failed' \subseteq TVMessages \ unsent' /\ \A d \in calls' : d.message \notin failed'
    BY <1>1, <1>3 DEF RelayInv, QueueInv
  <2>3. ToSet(saved') = ToSet(queue) /\ (IsInjective(saved') <=> IsInjective(queue))
    BY <1>1
  <2> QED BY <1>6, <2>1, <2>2, <2>3 DEF QueueInv
<1> QED BY <1>2, <1>7 DEF RelayInv

LEMMA RestartKeeps ==
  ASSUME RelayInv, NEW t \in Transports, Restart(t)
  PROVE  RelayInv'
<1> DEFINE gone == {c.message : c \in calls \ calls'}
<1>1. /\ UNCHANGED <<unsent, saved, failed, phone, mac>> /\ calls' \subseteq calls
      /\ pending' = [pending EXCEPT ![t] = <<>>]
  BY DEF Restart
<1>2. PICK got \in SUBSET gone :
        handled' = [m \in Messages |-> handled[m] + (IF m \in got THEN 1 ELSE 0)]
  BY DEF Restart
<1>3. /\ \A m \in gone : m \in TVMessages \ unsent /\ handled[m] = 0
      /\ \A c \in calls' : c.message \in TVMessages \ gone
  BY <1>1 DEF RelayInv, CallsInv
<1>4. \A m \in Messages \ gone : handled'[m] = handled[m]
  BY <1>2 DEF RelayInv, CountInv
<1>5. CountInv'
  <2>1. \A m \in gone : m \in Messages /\ handled'[m] \in {0, 1}
    BY <1>2, <1>3, Kinds
  <2>2. \A m \in Messages : handled'[m] \in Nat /\ handled'[m] <= 1
    BY <1>4, <2>1 DEF RelayInv, CountInv
  <2>3. handled' \in [Messages -> Nat]
    BY <1>2, <2>2
  <2>4. \A m \in unsent' : handled'[m] = 0
    BY <1>1, <1>3, <1>4 DEF RelayInv, CountInv
  <2> QED BY <1>1, <2>2, <2>3, <2>4 DEF RelayInv, CountInv
<1>6. CallsInv'
  BY <1>1, <1>3, <1>4, CallsKeep, Kinds DEF RelayInv
<1>7. PhoneInv' /\ MacInv'
  <2>1. \A m \in WatchMessages \cup MacMessages : handled'[m] = handled[m]
    BY <1>3, <1>4, Kinds
  <2> QED BY <1>1, <2>1, PhoneKeeps, MacKeeps DEF RelayInv
<1>8. QueueInv'
  <2>1. pending' \in [Transports -> Seq(TVMessages)]
        /\ \A u \in Transports : pending'[u] \in {<<>>, pending[u]}
    BY <1>1 DEF RelayInv, QueueInv
  <2> QED BY <1>1, <2>1 DEF RelayInv, QueueInv
<1> QED BY <1>5, <1>6, <1>7, <1>8 DEF RelayInv

LEMMA TransferKeeps ==
  ASSUME RelayInv, NEW m, Transfer(m)
  PROVE  RelayInv'
<1>1. /\ m \in unsent /\ m \in WatchMessages /\ unsent' = unsent \ {m} /\ wire' = Append(wire, m)
      /\ tasks' = tasks /\ UNCHANGED <<mac, handled, calls, pending, saved, failed>>
  BY DEF Transfer, tv
<1>2. CountInv' /\ CallsInv' /\ MacInv' /\ QueueInv'
  BY <1>1, CallsKeep, MacKeeps, QueueKeeps DEF RelayInv, CountInv
<1>3. /\ wire \in Seq(WatchMessages) /\ IsInjective(wire) /\ m \notin ToSet(wire) \cup tasks
      /\ ToSet(wire) \cap tasks = {} /\ tasks \subseteq WatchMessages
      /\ \A n \in ToSet(wire) \cup tasks : n \notin unsent /\ handled[n] = 0
      /\ handled[m] = 0
  BY <1>1 DEF RelayInv, PhoneInv, CountInv
<1>4. wire' \in Seq(WatchMessages) /\ ToSet(wire') = ToSet(wire) \cup {m} /\ IsInjective(wire')
  BY <1>1, <1>3, Added
<1>5. PhoneInv'
  BY <1>1, <1>3, <1>4 DEF PhoneInv
<1> QED BY <1>2, <1>5 DEF RelayInv

LEMMA ReceivedKeeps ==
  ASSUME RelayInv, Received
  PROVE  RelayInv'
<1>1. /\ wire # <<>> /\ wire' = Tail(wire) /\ tasks' = tasks \cup {Head(wire)}
      /\ UNCHANGED <<unsent, mac, handled, calls, pending, saved, failed>>
  BY DEF Received, tv
<1>2. CountInv' /\ CallsInv' /\ MacInv' /\ QueueInv'
  BY <1>1, CallsKeep, MacKeeps, QueueKeeps DEF RelayInv, CountInv
<1>3. /\ wire \in Seq(WatchMessages) /\ IsInjective(wire) /\ tasks \subseteq WatchMessages
      /\ ToSet(wire) \cap tasks = {}
      /\ \A n \in ToSet(wire) \cup tasks : n \notin unsent /\ handled[n] = 0
  BY DEF RelayInv, PhoneInv
<1>4. /\ wire' \in Seq(WatchMessages) /\ ToSet(wire) = ToSet(wire') \cup {Head(wire)}
      /\ IsInjective(wire') /\ Head(wire) \notin ToSet(wire') /\ Head(wire) \in WatchMessages
  BY <1>1, <1>3, Taken
<1>5. PhoneInv'
  BY <1>1, <1>3, <1>4 DEF PhoneInv
<1> QED BY <1>2, <1>5 DEF RelayInv

LEMMA ForwardKeeps ==
  ASSUME RelayInv, NEW m, Forward(m)
  PROVE  RelayInv'
<1>1. /\ m \in tasks /\ tasks' = tasks \ {m} /\ wire' = wire
      /\ Handle(m) \/ UNCHANGED handled
      /\ UNCHANGED <<unsent, mac, calls, pending, saved, failed>>
  BY DEF Forward, tv
<1>2. m \in WatchMessages \ unsent /\ handled[m] = 0 /\ m \in Messages
  <2>1. m \in WatchMessages \ unsent /\ handled[m] = 0
    BY <1>1 DEF RelayInv, PhoneInv
  <2> QED BY <2>1, Kinds
<1>3. CountInv' /\ \A n \in Messages \ {m} : handled'[n] = handled[n]
  BY <1>1, <1>2, CountKeeps
<1>4. /\ \A c \in calls : handled'[c.message] = handled[c.message]
      /\ \A n \in MacMessages : handled'[n] = handled[n]
  BY <1>2, <1>3, Kinds DEF RelayInv, CallsInv
<1>5. CallsInv' /\ MacInv' /\ QueueInv'
  BY <1>1, <1>4, CallsKeep, MacKeeps, QueueKeeps DEF RelayInv
<1>6. PhoneInv'
  <2>1. /\ wire \in Seq(WatchMessages) /\ IsInjective(wire) /\ tasks \subseteq WatchMessages
        /\ ToSet(wire) \cap tasks = {}
        /\ \A n \in ToSet(wire) \cup tasks : n \notin unsent /\ handled[n] = 0
    BY DEF RelayInv, PhoneInv
  <2>2. ToSet(wire) \subseteq WatchMessages \ {m} /\ tasks' \subseteq WatchMessages \ {m}
    BY <1>1, <2>1, Elements
  <2>3. \A n \in ToSet(wire) \cup tasks' : n \notin unsent /\ handled'[n] = 0
    BY <1>1, <1>3, <2>1, <2>2 DEF Messages
  <2> QED BY <1>1, <2>1, <2>2, <2>3 DEF PhoneInv
<1> QED BY <1>3, <1>5, <1>6 DEF RelayInv

LEMMA CollectKeeps ==
  ASSUME RelayInv, NEW m, Collect(m)
  PROVE  RelayInv'
<1>1. /\ m \in unsent /\ m \in MacMessages /\ unsent' = unsent \ {m} /\ relay' = Append(relay, m)
      /\ batches' = batches /\ UNCHANGED <<phone, handled, calls, pending, saved, failed>>
  BY DEF Collect, tv
<1>2. CountInv' /\ CallsInv' /\ PhoneInv' /\ QueueInv'
  BY <1>1, CallsKeep, PhoneKeeps, QueueKeeps DEF RelayInv, CountInv
<1>3. /\ relay \in Seq(MacMessages) /\ IsInjective(relay) /\ handled[m] = 0
      /\ \A b \in batches \cup {relay} : m \notin ToSet(b)
  BY <1>1 DEF RelayInv, MacInv, CountInv
<1>4. relay' \in Seq(MacMessages) /\ ToSet(relay') = ToSet(relay) \cup {m} /\ IsInjective(relay')
  BY <1>1, <1>3, Added
<1>5. MacInv'
  <2>1. /\ batches \subseteq Seq(MacMessages) \ {<<>>}
        /\ \A b \in batches \cup {relay} :
              IsInjective(b) /\ \A n \in ToSet(b) : n \notin unsent /\ handled[n] = 0
        /\ \A b \in batches : ToSet(b) \cap ToSet(relay) = {}
        /\ \A b, c \in batches : b # c => ToSet(b) \cap ToSet(c) = {}
    BY DEF RelayInv, MacInv
  <2>2. \A b \in batches \cup {relay'} :
          IsInjective(b) /\ \A n \in ToSet(b) : n \notin unsent' /\ handled[n] = 0
    BY <1>1, <1>3, <1>4, <2>1
  <2>3. \A b \in batches : ToSet(b) \cap ToSet(relay') = {}
    BY <1>3, <1>4, <2>1
  <2> QED BY <1>1, <1>4, <2>1, <2>2, <2>3 DEF MacInv
<1> QED BY <1>2, <1>5 DEF RelayInv

LEMMA BatchKeeps ==
  ASSUME RelayInv, Batch
  PROVE  RelayInv'
<1>1. /\ relay # <<>> /\ batches' = batches \cup {relay} /\ relay' = <<>>
      /\ UNCHANGED <<unsent, phone, handled, calls, pending, saved, failed>>
  BY DEF Batch, tv
<1>2. CountInv' /\ CallsInv' /\ PhoneInv' /\ QueueInv'
  BY <1>1, CallsKeep, PhoneKeeps, QueueKeeps DEF RelayInv, CountInv
<1>3. relay' \in Seq(MacMessages) /\ ToSet(relay') = {} /\ IsInjective(relay')
  <2>1. <<>> \in Seq(MacMessages) /\ DOMAIN <<>> = {}
    OBVIOUS
  <2> QED BY <1>1, <2>1 DEF IsInjective, ToSet
<1>4. MacInv'
  <2>1. /\ relay \in Seq(MacMessages) /\ batches \subseteq Seq(MacMessages) \ {<<>>}
        /\ \A b \in batches \cup {relay} :
              IsInjective(b) /\ \A n \in ToSet(b) : n \notin unsent /\ handled[n] = 0
        /\ \A b \in batches : ToSet(b) \cap ToSet(relay) = {}
        /\ \A b, c \in batches : b # c => ToSet(b) \cap ToSet(c) = {}
    BY DEF RelayInv, MacInv
  <2>2. batches' \subseteq Seq(MacMessages) \ {<<>>}
    BY <1>1, <2>1
  <2>3. \A b \in batches' \cup {relay'} :
          IsInjective(b) /\ \A n \in ToSet(b) : n \notin unsent /\ handled[n] = 0
    BY <1>1, <1>3, <2>1
  <2>4. \A b, c \in batches' : b # c => ToSet(b) \cap ToSet(c) = {}
    BY <1>1, <2>1
  <2>5. \A b \in batches' : ToSet(b) \cap ToSet(relay') = {}
    BY <1>3
  <2> QED BY <1>1, <1>3, <2>2, <2>3, <2>4, <2>5 DEF MacInv
<1> QED BY <1>2, <1>4 DEF RelayInv

LEMMA ForwardBatchKeeps ==
  ASSUME RelayInv, NEW b \in batches, ForwardBatch(b)
  PROVE  RelayInv'
<1> DEFINE m == Head(b)
<1>1. /\ relay' = relay
      /\ Handle(m) \/ UNCHANGED handled
      /\ UNCHANGED <<unsent, phone, calls, pending, saved, failed>>
  BY DEF ForwardBatch, tv
<1>2. batches' = batches \ {b} \/ (Len(b) # 1 /\ batches' = (batches \ {b}) \cup {Tail(b)})
  BY DEF ForwardBatch, Rest
<1>3. /\ b \in Seq(MacMessages) /\ b # <<>> /\ IsInjective(b)
      /\ \A n \in ToSet(b) : n \notin unsent /\ handled[n] = 0
      /\ \A c \in (batches \ {b}) \cup {relay} : ToSet(b) \cap ToSet(c) = {}
  BY DEF RelayInv, MacInv
<1>4. /\ m \in MacMessages /\ Tail(b) \in Seq(MacMessages) /\ m \in ToSet(b)
      /\ ToSet(b) = ToSet(Tail(b)) \cup {m} /\ IsInjective(Tail(b)) /\ m \notin ToSet(Tail(b))
      /\ (Len(b) # 1 => Tail(b) # <<>>)
  BY <1>3, Taken
<1> HIDE DEF m
<1>5. m \in Messages \ unsent /\ handled[m] = 0
  BY <1>3, <1>4, Kinds
<1>6. CountInv' /\ \A n \in Messages \ {m} : handled'[n] = handled[n]
  BY <1>1, <1>5, CountKeeps
<1>7. /\ \A c \in calls : handled'[c.message] = handled[c.message]
      /\ \A n \in WatchMessages : handled'[n] = handled[n]
  BY <1>4, <1>6, Kinds DEF RelayInv, CallsInv
<1>8. CallsInv' /\ PhoneInv' /\ QueueInv'
  BY <1>1, <1>7, CallsKeep, PhoneKeeps, QueueKeeps DEF RelayInv
<1>9. MacInv'
  <2>1. \A c \in (batches \ {b}) \cup {relay} :
          c \in Seq(MacMessages) /\ ToSet(c) \subseteq MacMessages /\ m \notin ToSet(c)
    BY <1>3, <1>4, Elements DEF RelayInv, MacInv
  <2>2. \A c \in (batches \ {b}) \cup {relay} : IsInjective(c) /\ \A n \in ToSet(c) : n \notin unsent /\ handled'[n] = 0
    BY <1>6, <2>1, Kinds DEF RelayInv, MacInv
  <2>3. \A n \in ToSet(Tail(b)) : n \in Messages /\ n \notin unsent /\ handled'[n] = 0
    <3>1. ToSet(Tail(b)) \subseteq MacMessages
      BY <1>4, Elements
    <3> QED BY <1>3, <1>4, <1>6, <3>1, Kinds
  <2>4. \A c \in (batches \ {b}) \cup {relay} : ToSet(Tail(b)) \cap ToSet(c) = {}
    BY <1>3, <1>4
  <2>5. CASE batches' = batches \ {b}
    <3>1. /\ relay' \in Seq(MacMessages) /\ batches' \subseteq Seq(MacMessages) \ {<<>>}
          /\ \A c \in batches' : ToSet(c) \cap ToSet(relay') = {}
          /\ \A c, d \in batches' : c # d => ToSet(c) \cap ToSet(d) = {}
      BY <1>1, <2>5 DEF RelayInv, MacInv
    <3>2. \A c \in batches' \cup {relay'} :
            IsInjective(c) /\ \A n \in ToSet(c) : n \notin unsent' /\ handled'[n] = 0
      BY <1>1, <2>2, <2>5
    <3> QED BY <3>1, <3>2 DEF MacInv
  <2>6. CASE Len(b) # 1 /\ batches' = (batches \ {b}) \cup {Tail(b)}
    <3>1. batches' \subseteq Seq(MacMessages) \ {<<>>}
      BY <1>4, <2>6 DEF RelayInv, MacInv
    <3>2. \A c \in batches' \cup {relay'} :
            IsInjective(c) /\ \A n \in ToSet(c) : n \notin unsent' /\ handled'[n] = 0
      <4>1. \A c \in batches' \cup {relay'} : c \in (batches \ {b}) \cup {relay} \/ c = Tail(b)
        BY <1>1, <2>6
      <4> QED BY <1>1, <1>4, <2>2, <2>3, <4>1
    <3>3. \A c \in batches' : ToSet(c) \cap ToSet(relay) = {}
      BY <2>4, <2>6 DEF RelayInv, MacInv
    <3>4. \A c, d \in batches' : c # d => ToSet(c) \cap ToSet(d) = {}
      BY <2>4, <2>6 DEF RelayInv, MacInv
    <3>5. relay' \in Seq(MacMessages)
      BY <1>1 DEF RelayInv, MacInv
    <3> QED BY <1>1, <3>1, <3>2, <3>3, <3>4, <3>5 DEF MacInv
  <2> QED BY <1>2, <2>5, <2>6
<1> QED BY <1>6, <1>8, <1>9 DEF RelayInv

LEMMA RelayInvNext == RelayInv /\ [RelayNext]_relayVars => RelayInv'
<1> SUFFICES ASSUME RelayInv, [RelayNext]_relayVars PROVE RelayInv'
  OBVIOUS
<1>1. CASE \E t \in Transports : Restart(t) \/ \E m \in TVMessages : Send(t, m)
  BY <1>1, RestartKeeps, SendKeeps
<1>2. CASE \E c \in calls : Answered(c) \/ Failed(c)
  BY <1>2, AnsweredKeeps, FailedKeeps
<1>3. CASE \E m \in Messages : Transfer(m) \/ Forward(m) \/ Collect(m)
  BY <1>3, TransferKeeps, ForwardKeeps, CollectKeeps
<1>4. CASE Received \/ Batch
  BY <1>4, ReceivedKeeps, BatchKeeps
<1>5. CASE \E b \in batches : ForwardBatch(b)
  BY <1>5, ForwardBatchKeeps
<1>6. CASE UNCHANGED relayVars
  <2>1. UNCHANGED <<unsent, phone, mac, handled, calls, pending, saved, failed>>
    BY <1>6 DEF relayVars, tv
  <2>2. CountInv' /\ CallsInv' /\ QueueInv'
    BY <2>1, CallsKeep, QueueKeeps DEF RelayInv, CountInv
  <2> QED BY <2>1, <2>2, PhoneKeeps, MacKeeps DEF RelayInv
<1> QED BY <1>1, <1>2, <1>3, <1>4, <1>5, <1>6 DEF RelayNext

LEMMA RelayInvInit == RelayInit => RelayInv
<1> SUFFICES ASSUME RelayInit PROVE RelayInv
  OBVIOUS
<1>1. ToSet(<<>>) = {} /\ IsInjective(<<>>) /\ \A S : <<>> \in Seq(S)
  BY DEF ToSet, IsInjective
<1>2. CountInv /\ CallsInv /\ PhoneInv /\ MacInv
  BY <1>1 DEF RelayInit, CountInv, CallsInv, PhoneInv, MacInv
<1>3. QueueInv
  BY <1>1 DEF RelayInit, QueueInv
<1> QED BY <1>2, <1>3 DEF RelayInv

\* No message reaches the worker twice, whatever fails or restarts on the way, and
\* with one transport at a time one whose send threw is in the saved queue exactly
\* once (send, append, the iPhone's task, the Mac delegate's batch).
THEOREM FailedSendsAreKept == RelaySpec => []FailedSendIsKept
<1>1. RelayInv => FailedSendIsKept
  <2> SUFFICES ASSUME RelayInv PROVE HandledOnce /\ QueuedIsKept
    BY DEF FailedSendIsKept
  <2>1. HandledOnce
    BY DEF RelayInv, CountInv, HandledOnce
  <2>2. ASSUME \A t, u \in Transports : t = u, NEW m \in failed
        PROVE  Cardinality({i \in 1..Len(saved) : saved[i] = m}) = 1
    <3>1. m \in ToSet(saved) /\ IsInjective(saved) /\ DOMAIN saved = 1..Len(saved)
      BY <2>2 DEF RelayInv, QueueInv
    <3>2. PICK i \in 1..Len(saved) : saved[i] = m
      BY <3>1 DEF ToSet
    <3>3. {j \in 1..Len(saved) : saved[j] = m} = {i}
      BY <3>1, <3>2 DEF IsInjective
    <3> QED BY <3>3, FS_Singleton
  <2> QED BY <2>1, <2>2 DEF QueuedIsKept
<1> QED BY <1>1, RelayInvInit, RelayInvNext, PTL DEF RelaySpec
=============================================================================
