------------------------------- MODULE Pairing -------------------------------
(***************************************************************************)
(* Pairings and sealed envelopes: pairing.py, ledger.py, envelope.py and   *)
(* the routes of service.py that use them.                                 *)
(*                                                                         *)
(* Each process of the worker reads pairing.json once, when its            *)
(* PairingStore is built, and keeps its own copy of the records.  A        *)
(* request changes that copy and then writes the whole of it to a file     *)
(* that every thread of every process names pairing.json.tmp, and renames  *)
(* the file over pairing.json.  The ledger of used nonces is a table of    *)
(* its own, with the nonce as its primary key.                             *)
(*                                                                         *)
(* A file is an inode with a content; `names` is the directory.  Requests  *)
(* are threads that go through their steps one at a time; a request that   *)
(* is refused changes nothing and is not shown.                            *)
(***************************************************************************)
EXTENDS Integers, FiniteSets, PythonNone

CONSTANTS Procs,      \* processes that hold a PairingStore on one data directory
          Threads,    \* request threads
          ProcOf,     \* the process of each thread
          Pairings,   \* pairing ids
          Envelopes,  \* sealed envelopes, one nonce each
          PairingOf,  \* the pairing whose key sealed each envelope
          Inodes,     \* files that can hold the records
          TTL,        \* ttl_seconds of create_challenge
          Retention,  \* NONCE_RETENTION
          Patience,   \* the longest a request to open an envelope takes
          MaxTime,    \* bound of the clock
          Blank,      \* a file that was opened for writing and not written yet
          Torn        \* a file whose text is not JSON

Standing == {None, "pending", "confirmed"}
Records == [Pairings -> Standing]
NoRecords == [k \in Pairings |-> None]

ASSUME ConstantsAssumption ==
    /\ ProcOf \in [Threads -> Procs]
    /\ PairingOf \in [Envelopes -> Pairings]
    /\ TTL \in Nat \ {0} /\ Patience \in Nat /\ MaxTime \in Nat
    /\ None \notin Nat \cup {"pending", "confirmed"} /\ {Blank, Torn} \cap Records = {}
    /\ Blank # Torn

\* The ledger remembers a nonce for longer than its pairing can be used.
ASSUME RetentionAssumption == Retention \in Nat /\ TTL + Patience <= Retention

VARIABLES now,      \* the clock
          expires,  \* expires_at of each pairing; None before it is created
          up,       \* the processes whose Pipeline is built
          records,  \* PairingStore._records of each process
          names,    \* the inodes named pairing.json and pairing.json.tmp
          data,     \* the content of each inode
          used,     \* used_at of each row of used_nonces; None: no row
          req,      \* the request each thread serves
          opened,   \* how often the payload of an envelope was let through
          answered, \* what the answers sent so far say of each pairing
          crowded   \* history: a request that saves has begun beside another one,
                    \* or beside another process

store == <<names, data>>
history == <<opened, answered, crowded>>
vars == <<now, expires, up, records, store, used, req, history>>

Idle == [at |-> "idle", op |-> None, subject |-> None, since |-> 0,
         doomed |-> {}, dump |-> NoRecords, fd |-> None]

Init ==
    /\ now = 0
    /\ expires = [k \in Pairings |-> None]
    /\ up = {}
    /\ records = [p \in Procs |-> NoRecords]
    /\ names = [n \in {"json", "tmp"} |-> None]
    /\ data = [i \in Inodes |-> Blank]
    /\ used = [e \in Envelopes |-> None]
    /\ req = [t \in Threads |-> Idle]
    /\ opened = [e \in Envelopes |-> 0]
    /\ answered = [k \in Pairings |-> None]
    /\ crowded = FALSE

At(t, step) == req[t].at = step
Goto(t, step) == req' = [req EXCEPT ![t].at = step]
End(t) == req' = [req EXCEPT ![t] = Idle]
Busy(p) == \E t \in Threads : ProcOf[t] = p /\ ~At(t, "idle")

Saving(t) == ~At(t, "idle") /\ req[t].op # "envelope"
Beside(t) ==
    crowded' = (crowded \/ up \ {ProcOf[t]} # {} \/ \E u \in Threads \ {t} : Saving(u))

Expired(k) == now >= expires[k]
Held(c) == {k \in Pairings : c[k] # None}

\* Mutant: the prune takes a pairing one tick before require_confirmed does.
PrunedEarly(c) ==
    [k \in Pairings |-> IF c[k] # None /\ now + 1 >= expires[k] THEN None ELSE c[k]]
Pruned(c) == [k \in Pairings |-> IF c[k] # None /\ Expired(k) THEN None ELSE c[k]]

Stale(e) == used[e] # None /\ used[e] < now - Retention

Remembered == [e \in Envelopes |-> IF Stale(e) THEN None ELSE used[e]]

-----------------------------------------------------------------------------
(* Building a Pipeline: the ledger forgets its stale nonces, then the      *)
(* records are read, pruned and, when that changed them, saved.            *)

Start(t) ==
    /\ At(t, "idle") /\ ProcOf[t] \notin up /\ ~Busy(ProcOf[t])
    /\ used' = Remembered
    /\ req' = [req EXCEPT ![t].op = "start", ![t].at = "load"]
    /\ Beside(t)
    /\ UNCHANGED <<now, expires, up, records, store, opened, answered>>

\* json.loads raises on a file that is not JSON: the process does not start.
Load(t) ==
    LET p == ProcOf[t]
        read == IF names["json"] = None THEN NoRecords ELSE data[names["json"]]
    IN /\ At(t, "load")
       /\ IF read \in {Blank, Torn}
            THEN End(t) /\ UNCHANGED <<up, records>>
            ELSE /\ records' = [records EXCEPT ![p] = Pruned(read)]
                 /\ IF Pruned(read) # read
                      THEN Goto(t, "dump") /\ UNCHANGED up
                      ELSE End(t) /\ up' = up \cup {p}
       /\ UNCHANGED <<now, expires, store, used, history>>

(* POST /v1/pair *)
Create(t, k) ==
    LET p == ProcOf[t]
    IN /\ At(t, "idle") /\ p \in up /\ expires[k] = None
       /\ expires' = [expires EXCEPT ![k] = now + TTL]
       /\ records' = [records EXCEPT ![p] = [Pruned(records[p]) EXCEPT ![k] = "pending"]]
       /\ req' = [req EXCEPT ![t].op = "create", ![t].subject = k, ![t].at = "dump"]
       /\ Beside(t)
       /\ UNCHANGED <<now, up, store, used, opened, answered>>

(* POST /v1/pair/confirm: the record is looked up, then replaced. *)
Confirm(t, k) ==
    LET p == ProcOf[t]
    IN /\ At(t, "idle") /\ p \in up
       /\ records[p][k] # None /\ ~Expired(k)
       /\ req' = [req EXCEPT ![t].op = "confirm", ![t].subject = k, ![t].at = "update"]
       /\ Beside(t)
       /\ UNCHANGED <<now, expires, up, records, store, used, opened, answered>>

\* Mutant: the confirmation is answered from memory and never saved.
UpdateUnsaved(t) ==
    /\ At(t, "update")
    /\ records' = [records EXCEPT ![ProcOf[t]][req[t].subject] = "confirmed"]
    /\ answered' = [answered EXCEPT ![req[t].subject] = "confirmed"]
    /\ End(t)
    /\ UNCHANGED <<now, expires, up, store, used, opened, crowded>>
Update(t) ==
    /\ At(t, "update")
    /\ records' = [records EXCEPT ![ProcOf[t]][req[t].subject] = "confirmed"]
    /\ Goto(t, "dump")
    /\ UNCHANGED <<now, expires, up, store, used, history>>

-----------------------------------------------------------------------------
(* PairingStore._save *)

\* A dict that changes its keys under an iteration raises: the request fails.
Dump(t) ==
    /\ At(t, "dump")
    /\ req' = [req EXCEPT ![t].dump = records[ProcOf[t]], ![t].at = "dumping"]
    /\ UNCHANGED <<now, expires, up, records, store, used, history>>

Dumped(t) ==
    LET mine == records[ProcOf[t]]
    IN /\ At(t, "dumping")
       /\ IF Held(mine) = Held(req[t].dump)
            THEN req' = [req EXCEPT ![t].dump = mine, ![t].at = "open"]
            ELSE End(t)
       /\ UNCHANGED <<now, expires, up, records, store, used, history>>

\* write_text opens the name, which empties the file it finds there.
\* Mutant: the records are written over pairing.json itself.
OpenInPlace(t) ==
    /\ At(t, "open")
    /\ \E i \in Inodes :
         /\ IF names["json"] # None THEN i = names["json"]
                                    ELSE i # names["tmp"] /\ \A u \in Threads : req[u].fd # i
         /\ data' = [data EXCEPT ![i] = Blank]
         /\ names' = [names EXCEPT !["json"] = i, !["tmp"] = i]
         /\ req' = [req EXCEPT ![t].fd = i, ![t].at = "write"]
    /\ UNCHANGED <<now, expires, up, records, used, history>>
OpenTmp(t) ==
    /\ At(t, "open")
    /\ \E i \in Inodes :
         /\ IF names["tmp"] # None THEN i = names["tmp"]
                                   ELSE i # names["json"] /\ \A u \in Threads : req[u].fd # i
         /\ data' = [data EXCEPT ![i] = Blank]
         /\ names' = [names EXCEPT !["tmp"] = i]
         /\ req' = [req EXCEPT ![t].fd = i, ![t].at = "write"]
    /\ UNCHANGED <<now, expires, up, records, used, history>>

Confirmed(c) == {k \in Pairings : c[k] = "confirmed"}
Longer(old, new) ==
    Cardinality(Held(old)) + Cardinality(Confirmed(old))
      > Cardinality(Held(new)) + Cardinality(Confirmed(new))

\* What a file holds after a text is written at its start: the tail of a
\* longer text stays behind it.
Over(old, new) ==
    CASE old = Blank -> new
      [] old = Torn -> Torn
      [] OTHER -> IF Longer(old, new) THEN Torn ELSE new

Write(t) ==
    /\ At(t, "write")
    /\ data' = [data EXCEPT ![req[t].fd] = Over(@, req[t].dump)]
    /\ Goto(t, "rename")
    /\ UNCHANGED <<now, expires, up, records, names, used, history>>

Answer(t) ==
    answered' = CASE req[t].op = "create" -> [answered EXCEPT ![req[t].subject] = "pending"]
                  [] req[t].op = "confirm" -> [answered EXCEPT ![req[t].subject] = "confirmed"]
                  [] OTHER -> answered

\* The rename takes whatever file bears the name; when another thread has
\* renamed it already the request fails with FileNotFoundError.
Rename(t) ==
    /\ At(t, "rename")
    /\ End(t)
    /\ IF names["tmp"] = None
         THEN UNCHANGED <<names, up, answered>>
         ELSE /\ names' = [json |-> names["tmp"], tmp |-> None]
              /\ up' = IF req[t].op = "start" THEN up \cup {ProcOf[t]} ELSE up
              /\ Answer(t)
    /\ UNCHANGED <<now, expires, records, data, used, opened, crowded>>

-----------------------------------------------------------------------------
(* Opening a sealed envelope: POST /v1/pair/envelope/open, and             *)
(* POST /v1/companion with a sealed body.                                  *)

\* require_confirmed, then the envelope is decrypted.
OpenEnvelope(t, e) ==
    LET p == ProcOf[t]
        k == PairingOf[e]
    IN /\ At(t, "idle") /\ p \in up
       /\ records[p][k] = "confirmed" /\ ~Expired(k)
       /\ req' = [req EXCEPT ![t].op = "envelope", ![t].subject = e,
                             ![t].since = now, ![t].at = "look"]
       /\ UNCHANGED <<now, expires, up, records, store, used, history>>

\* consume: the stale rows are marked for deletion and the nonce is looked up.
Look(t) ==
    LET e == req[t].subject
    IN /\ At(t, "look")
       /\ IF used[e] # None /\ ~Stale(e)
            THEN End(t)
            ELSE req' = [req EXCEPT ![t].doomed = {d \in Envelopes : Stale(d)},
                                    ![t].at = "consume"]
       /\ UNCHANGED <<now, expires, up, records, store, used, history>>

\* The transaction deletes the stale rows and inserts the nonce; the primary
\* key refuses a nonce that another request inserted in between.
\* Mutant: the table has no primary key.
ConsumeTwice(t) ==
    LET e == req[t].subject
    IN /\ At(t, "consume")
       /\ End(t)
       /\ used' = [d \in Envelopes |-> IF d = e THEN now ELSE
                                       IF d \in req[t].doomed THEN None ELSE used[d]]
       /\ opened' = [opened EXCEPT ![e] = @ + 1]
       /\ UNCHANGED <<now, expires, up, records, store, answered, crowded>>
Consume(t) ==
    LET e == req[t].subject
        left == [d \in Envelopes |-> IF d \in req[t].doomed THEN None ELSE used[d]]
    IN /\ At(t, "consume")
       /\ End(t)
       /\ IF left[e] # None
            THEN UNCHANGED <<used, opened>>
            ELSE /\ used' = [left EXCEPT ![e] = now]
                 /\ opened' = [opened EXCEPT ![e] = @ + 1]
       /\ UNCHANGED <<now, expires, up, records, store, answered, crowded>>

-----------------------------------------------------------------------------
(* The process dies at any step: its memory goes, the files and the ledger *)
(* stay.                                                                   *)
Crash(p) ==
    /\ p \in up \/ Busy(p)
    /\ up' = up \ {p}
    /\ records' = [records EXCEPT ![p] = NoRecords]
    /\ req' = [t \in Threads |-> IF ProcOf[t] = p THEN Idle ELSE req[t]]
    /\ UNCHANGED <<now, expires, store, used, history>>

Tick ==
    /\ now < MaxTime
    /\ \A t \in Threads : req[t].op = "envelope" => now < req[t].since + Patience
    /\ now' = now + 1
    /\ UNCHANGED <<expires, up, records, store, used, req, history>>

Step(t) ==
    \/ Start(t) \/ Load(t)
    \/ \E k \in Pairings : Create(t, k) \/ Confirm(t, k)
    \/ Update(t) \/ Dump(t) \/ Dumped(t) \/ OpenTmp(t) \/ Write(t) \/ Rename(t)
    \/ \E e \in Envelopes : OpenEnvelope(t, e)
    \/ Look(t) \/ Consume(t)

Next == (\E t \in Threads : Step(t)) \/ (\E p \in Procs : Crash(p)) \/ Tick

Spec == Init /\ [][Next]_vars

-----------------------------------------------------------------------------
Steps == {"idle", "load", "update", "dump", "dumping", "open", "write", "rename",
          "look", "consume"}

Requests ==
    [at : Steps, op : {None, "start", "create", "confirm", "envelope"},
     subject : Pairings \cup Envelopes \cup {None}, since : Nat,
     doomed : SUBSET Envelopes, dump : Records, fd : Inodes \cup {None}]

\* Type correctness of the clock, the files, the ledger and the requests.
TypeOK ==
    /\ now \in Nat
    /\ expires \in [Pairings -> Nat \cup {None}]
    /\ up \subseteq Procs
    /\ records \in [Procs -> Records]
    /\ names \in [{"json", "tmp"} -> Inodes \cup {None}]
    /\ data \in [Inodes -> Records \cup {Blank, Torn}]
    /\ used \in [Envelopes -> Nat \cup {None}]
    /\ req \in [Threads -> Requests]
    /\ opened \in [Envelopes -> Nat]
    /\ answered \in [Pairings -> Standing]
    /\ crowded \in BOOLEAN

\* The payload of a sealed envelope is let through at most once, whatever
\* requests carry it at the same time, whatever process restarts in between
\* and although the ledger forgets its nonces (NonceLedger.consume).
OpenedOnce == \A e \in Envelopes : opened[e] <= 1

\* pairing.json can be read whenever a process may start: neither a crash in
\* the middle of a save nor another save leaves a partial file there.
FileIsWhole == names["json"] # None => data[names["json"]] \notin {Blank, Torn}

\* Once no request is under way, what the worker has answered about a pairing
\* that has not expired is what a process that starts now reads.
AnsweredIsPersisted ==
    (\A t \in Threads : At(t, "idle")) =>
        \A k \in Pairings : answered[k] # None /\ ~Expired(k) =>
            /\ names["json"] # None
            /\ data[names["json"]] \in Records
            /\ \/ data[names["json"]][k] = answered[k]
               \/ data[names["json"]][k] = "confirmed"

\* A process that starts can read pairing.json and finds in it what the worker
\* has answered (PairingStore._save, _load), over crashes at any step, as long as
\* requests that save have never overlapped: threads that overlap share
\* pairing.json.tmp, and a process saves its own copy over that of another.
AnswerIsPersisted == ~crowded => FileIsWhole /\ AnsweredIsPersisted

\* A running process goes on honouring a pairing it has confirmed until the
\* pairing expires: no request of another thread takes it away.
ConfirmationHolds ==
    [][\A p \in Procs, k \in Pairings :
         (p \in up /\ p \in up' /\ records[p][k] = "confirmed" /\ ~Expired(k))
            => records'[p][k] = "confirmed"]_vars
=============================================================================
