----------------------------- MODULE Media_proofs -----------------------------
(***************************************************************************)
(* For every number of threads, jobs, pairings, surfaces, capabilities and *)
(* runs: that a run has the capabilities its request had, that a job on a  *)
(* surface alone uses none its surface may not use, and that subprocess    *)
(* work is the host's.  For every candidate, plan, worker and sequence of  *)
(* names: that what a kind is acquired with is whole, and that encryption  *)
(* ends it.  For every page and everything that is said of it: that every  *)
(* kind it names is found and chosen, and its signals with it.             *)
(*                                                                         *)
(* The properties of JobOwner are not inductive.  A run begins from the    *)
(* record in the queue, so the invariant says of every record that the     *)
(* owner found from it is authorized for what was planned                  *)
(* (RecordsSuffice), of every run that its fields are such an owner's, and *)
(* of every job that what it has used was planned, that what was planned   *)
(* on a surface alone is within the profile of the surface, and that what  *)
(* was planned with subprocesses is recorded as the host's.                *)
(*                                                                         *)
(* Those of Acquisition are not either: the files of stopped runs and of   *)
(* failed strategies are still in the directory, and the invariant         *)
(* KindInv says by whom each file was written that can still be            *)
(* registered, and that no strategy that is left has failed before.        *)
(*                                                                         *)
(* Of Discovery the invariant PageInv says what waits between the steps:   *)
(* whatever was said of media is still to be read or was seen              *)
(* (SaidIsHeard), what was seen has a candidate of a kind it was said to   *)
(* be (SeenIsFound), and the parser's flags are the elements that are open *)
(* (Nesting), so that a source has the kind its author meant.              *)
(***************************************************************************)
EXTENDS JobOwner, Discovery, Acquisition, FiniteSetTheorems, WellFoundedInduction, TLAPS

Typed ==
    /\ tls \in [Threads -> Owners \cup {None}]
    /\ jobs \in [Jobs -> Records \cup {None}]
    /\ running \in [Threads -> Jobs \cup {None}]
    /\ planned \in [Jobs -> SUBSET Full]
    /\ basis \in [Jobs -> Standings \cup {None}]
    /\ used \in [Jobs -> SUBSET Full]

RecordsSuffice ==
    \A j \in Jobs : jobs[j] # None => Authorized(Activated(jobs[j])) = planned[j]
RunsAreRecorded == \A t \in Threads : running[t] # None => jobs[running[t]] # None
PlannedOnSurface ==
    \A j \in Jobs : jobs[j] # None /\ basis[j] = "surface" =>
        planned[j] \subseteq Allowed[DefaultWorker(jobs[j].surface).profile]
HeavyIsOnHost ==
    \A j \in Jobs : jobs[j] # None /\ "acquire.ytdlp" \in planned[j] =>
        jobs[j].workerId = HostWorker.id
UsedWasPlanned == \A j \in Jobs : used[j] \subseteq planned[j]
UnsubmittedIsUnused == \A j \in Jobs : jobs[j] = None => used[j] = {}

Inv ==
    /\ Typed /\ RecordsSuffice /\ RunsAreRecorded /\ RunsAsItsOwner
    /\ PlannedOnSurface /\ HeavyIsOnHost /\ UsedWasPlanned /\ UnsubmittedIsUnused

-----------------------------------------------------------------------------
(* The operators. *)

LEMMA DefaultWorkerKinds ==
    ASSUME NEW surface
    PROVE  /\ DefaultWorker(surface) \in Workers
           /\ DefaultWorker(surface).id = HostWorker.id => DefaultWorker(surface) = HostWorker
           /\ SubprocessCapable(DefaultWorker(surface)) => DefaultWorker(surface) = HostWorker
<1> DEFINE Defaults == {Worker("local-macos-watch", "watch-capture"),
                        Worker("local-macos-browser", "browser-capture"),
                        Worker("local-macos-mobile", "personal-restricted"),
                        Worker("local-macos", "personal-full")}
<1>1. DefaultWorker(surface) \in Defaults
  BY Zenon DEF DefaultWorker
<1>2. HostWorker = Worker("local-macos", "personal-full")
  BY DEF HostWorker, DefaultWorker
<1>3. \A wk \in Defaults : wk \in Workers
  <2>1. ASSUME NEW id \in WorkerIds, NEW pf \in Profiles PROVE Worker(id, pf) \in Workers
    BY DEF Worker, Workers
  <2>2. /\ Worker("local-macos-watch", "watch-capture") \in Workers
        /\ Worker("local-macos-browser", "browser-capture") \in Workers
        /\ Worker("local-macos-mobile", "personal-restricted") \in Workers
        /\ Worker("local-macos", "personal-full") \in Workers
    BY <2>1 DEF Profiles, WorkerIds
  <2> QED BY <2>2
<1>4. \A wk \in Defaults : wk.id = HostWorker.id => wk = HostWorker
  BY <1>2 DEF Worker
<1>5. \A wk \in Defaults : SubprocessCapable(wk) => wk = HostWorker
  BY <1>2 DEF Worker, SubprocessCapable
<1> QED BY <1>1, <1>3, <1>4, <1>5

\* An owner is typed, and the record of it in the queue is enough to find it.
LEMMA OwnerIsFoundAgain ==
    ASSUME NEW surface \in Surfaces, NEW confirmed \in BOOLEAN, NEW hostOwned \in BOOLEAN, NEW p,
           NEW owner \in OwnersOf(surface, confirmed, hostOwned, p)
    PROVE  /\ owner \in Owners
           /\ owner.worker \in {HostWorker, DefaultWorker(surface)}
           /\ Activated([profile |-> owner.profile, workerId |-> owner.worker.id,
                         surface |-> surface]) = owner
<1>1. HostWorker \in Workers /\ HostWorker.profile \in Profiles
      /\ DefaultWorker(surface) \in Workers /\ DefaultWorker(surface).profile \in Profiles
  BY DefaultWorkerKinds DEF HostWorker, Workers
<1>2. \E pf \in Profiles, wk \in {HostWorker, DefaultWorker(surface)} :
        owner = Owner(pf, wk)
  BY <1>1 DEF OwnersOf, OwnersOn, PairedProfiles, Pairable, Host
<1>3. PICK pf \in Profiles, wk \in {HostWorker, DefaultWorker(surface)} :
        owner = Owner(pf, wk)
  BY <1>2
<1>4. wk.id = HostWorker.id => wk = HostWorker
  BY DefaultWorkerKinds
<1>5. wk.id # HostWorker.id => wk = DefaultWorker(surface)
  OBVIOUS
<1> QED BY <1>1, <1>3, <1>4, <1>5 DEF Owner, Owners, Activated

LEMMA AuthorizedIsAllowed ==
    ASSUME NEW owner \in Owners
    PROVE  Authorized(owner) \subseteq Allowed[owner.worker.profile] /\ Authorized(owner) \in SUBSET Full
<1>1. owner.worker.profile \in Profiles
  BY DEF Owners, Workers
<1>2. \A pf \in Profiles : Allowed[pf] \subseteq Full
  BY DEF Allowed, Profiles, Full, Restricted, Capture, Watch
<1> QED BY <1>1, <1>2, Zenon DEF Authorized

\* What stands on the surface alone is authorized for no more than the surface.
LEMMA SurfaceIsAllowed ==
    ASSUME NEW surface \in Surfaces, NEW confirmed \in BOOLEAN, NEW hostOwned \in BOOLEAN, NEW p,
           NEW owner \in OwnersOf(surface, confirmed, hostOwned, p),
           Standing(surface, confirmed, hostOwned, p) = "surface"
    PROVE  Authorized(owner) \subseteq Allowed[DefaultWorker(surface).profile]
<1>1. owner = Owner(DefaultWorker(surface).profile, DefaultWorker(surface))
  BY DEF OwnersOf, OwnersOn
<1>2. owner.worker.profile = DefaultWorker(surface).profile
  BY <1>1 DEF Owner
<1> QED BY <1>2, OwnerIsFoundAgain, AuthorizedIsAllowed

\* Whatever a request stands on, who may run yt-dlp has the host for a worker.
LEMMA HeavyNeedsHost ==
    ASSUME NEW surface \in Surfaces, NEW confirmed \in BOOLEAN, NEW hostOwned \in BOOLEAN, NEW p,
           NEW owner \in OwnersOf(surface, confirmed, hostOwned, p),
           "acquire.ytdlp" \in Authorized(owner)
    PROVE  owner.worker = HostWorker
<1>1. Authorized(owner) \subseteq {c \in Allowed[owner.worker.profile] :
                                     c = "acquire.ytdlp" => SubprocessCapable(owner.worker)}
  BY Zenon DEF Authorized
<1>2. SubprocessCapable(owner.worker)
  BY <1>1
<1>3. owner.worker \in {HostWorker, DefaultWorker(surface)}
  BY OwnerIsFoundAgain
<1> QED BY <1>2, <1>3, DefaultWorkerKinds

-----------------------------------------------------------------------------
(* The invariant. *)

LEMMA InitInv == Init => Inv
BY NoneAssumption, Zenon
   DEF Init, Inv, Typed, RecordsSuffice, RunsAreRecorded, RunsAsItsOwner, PlannedOnSurface,
       HeavyIsOnHost, UsedWasPlanned, UnsubmittedIsUnused

LEMMA SubmitInv ==
    ASSUME Inv, NEW t \in Threads, NEW j \in Jobs, NEW surface \in Surfaces,
           NEW confirmed \in BOOLEAN, NEW hostOwned \in BOOLEAN, NEW p \in Pairings \cup {None},
           Submit(t, j, surface, confirmed, hostOwned, p)
    PROVE  Inv'
<1> USE DEF Inv
<1>1. PICK owner \in OwnersOf(surface, confirmed, hostOwned, p) :
        /\ tls' = [tls EXCEPT ![t] = owner]
        /\ jobs' = [jobs EXCEPT ![j] = [profile |-> owner.profile, workerId |-> owner.worker.id,
                                        surface |-> surface]]
        /\ planned' = [planned EXCEPT ![j] = Authorized(owner)]
        /\ basis' = [basis EXCEPT ![j] = Standing(surface, confirmed, hostOwned, p)]
  BY Zenon DEF Submit
<1> DEFINE record == [profile |-> owner.profile, workerId |-> owner.worker.id, surface |-> surface]
           on == Standing(surface, confirmed, hostOwned, p)
<1>2. running[t] = None /\ jobs[j] = None /\ running' = running /\ used' = used
  BY DEF Submit
<1>3. owner \in Owners /\ Activated(record) = owner
  BY OwnerIsFoundAgain
<1>4. record \in Records /\ record # None /\ record.surface = surface
  BY <1>3, NoneAssumption DEF Records, Owners, Workers
<1>5. Authorized(owner) \in SUBSET Full
  BY <1>3, AuthorizedIsAllowed
<1>6. on \in Standings
  BY DEF Standing, Standings
<1>7. on = "surface" => Authorized(owner) \subseteq Allowed[DefaultWorker(surface).profile]
  BY SurfaceIsAllowed
<1>8. "acquire.ytdlp" \in Authorized(owner) => record.workerId = HostWorker.id
  BY HeavyNeedsHost
<1> HIDE DEF record, on
<1>9. /\ tls' = [tls EXCEPT ![t] = owner] /\ jobs' = [jobs EXCEPT ![j] = record]
      /\ planned' = [planned EXCEPT ![j] = Authorized(owner)] /\ basis' = [basis EXCEPT ![j] = on]
  BY <1>1 DEF record, on
<1>10. Typed'
  BY <1>2, <1>3, <1>4, <1>5, <1>6, <1>9 DEF Typed
<1>11. \A i \in Jobs : /\ i # j => jobs'[i] = jobs[i] /\ planned'[i] = planned[i] /\ basis'[i] = basis[i]
                       /\ i = j => jobs'[i] = record /\ planned'[i] = Authorized(owner) /\ basis'[i] = on
  BY <1>9 DEF Typed
<1>12. RecordsSuffice'
  BY <1>3, <1>11 DEF RecordsSuffice
<1>13. \A u \in Threads : running[u] # None => running[u] \in Jobs /\ running[u] # j /\ u # t
  BY <1>2 DEF Typed, RunsAreRecorded
<1>14. RunsAreRecorded'
  BY <1>2, <1>11, <1>13 DEF RunsAreRecorded
<1>15. \A u \in Threads : u # t => tls'[u] = tls[u]
  BY <1>9 DEF Typed
<1>16. RunsAsItsOwner'
  BY <1>2, <1>11, <1>13, <1>15 DEF RunsAsItsOwner, Fields
<1>17. PlannedOnSurface'
  BY <1>4, <1>7, <1>11 DEF PlannedOnSurface
<1>18. HeavyIsOnHost'
  BY <1>8, <1>11 DEF HeavyIsOnHost
<1>19. used[j] = {}
  BY <1>2 DEF UnsubmittedIsUnused
<1>20. UsedWasPlanned' /\ UnsubmittedIsUnused'
  BY <1>2, <1>4, <1>11, <1>19 DEF UsedWasPlanned, UnsubmittedIsUnused
<1> QED BY <1>10, <1>12, <1>14, <1>16, <1>17, <1>18, <1>20

LEMMA ExplainInv ==
    ASSUME Inv, NEW t \in Threads, Explain(t)
    PROVE  Inv'
<1> USE DEF Inv
<1>1. PICK surface \in Surfaces, confirmed \in BOOLEAN, p \in Pairings \cup {None} :
        \E owner \in OwnersOf(surface, confirmed, FALSE, p) : tls' = [tls EXCEPT ![t] = owner]
  <2>1. PICK c \in Clients : \E owner \in OwnersOf(c.surface, c.confirmed, FALSE, c.pairing) :
                               tls' = [tls EXCEPT ![t] = owner]
    BY DEF Explain
  <2> QED BY <2>1 DEF Clients
<1>2. PICK owner \in OwnersOf(surface, confirmed, FALSE, p) : tls' = [tls EXCEPT ![t] = owner]
  BY <1>1
<1>3. running[t] = None /\ UNCHANGED <<jobs, running, planned, basis, used>>
  BY DEF Explain
<1>4. owner \in Owners
  BY OwnerIsFoundAgain
<1>5. Typed'
  BY <1>2, <1>3, <1>4 DEF Typed
<1>6. \A u \in Threads : u # t => tls'[u] = tls[u]
  BY <1>2 DEF Typed
<1>7. RunsAsItsOwner'
  BY <1>3, <1>6 DEF RunsAsItsOwner, Fields
<1> QED BY <1>3, <1>5, <1>7
        DEF RecordsSuffice, RunsAreRecorded, PlannedOnSurface, HeavyIsOnHost, UsedWasPlanned,
            UnsubmittedIsUnused

LEMMA RunInv ==
    ASSUME Inv, NEW t \in Threads, NEW j \in Jobs, Run(t, j)
    PROVE  Inv'
<1> USE DEF Inv
<1>1. /\ running[t] = None /\ jobs[j] # None /\ running' = [running EXCEPT ![t] = j]
      /\ tls' = [tls EXCEPT ![t] = Activated(jobs[j])] /\ UNCHANGED <<jobs, planned, basis, used>>
  BY DEF Run, Activate
<1>2. jobs[j] \in Records
  BY <1>1 DEF Typed
<1>3. Activated(jobs[j]) \in Owners /\ Activated(jobs[j]) # None
  BY <1>2, DefaultWorkerKinds, NoneAssumption DEF Activated, Owner, Owners, Records, HostWorker
<1>4. Typed'
  BY <1>1, <1>3 DEF Typed
<1>5. RunsAreRecorded'
  BY <1>1 DEF RunsAreRecorded, Typed
<1>6. \A u \in Threads : /\ u # t => tls'[u] = tls[u] /\ running'[u] = running[u]
                         /\ u = t => tls'[u] = Activated(jobs[j]) /\ running'[u] = j
  BY <1>1 DEF Typed
<1>7. Authorized(Activated(jobs[j])) = planned[j]
  BY <1>1 DEF RecordsSuffice
<1>8. RunsAsItsOwner'
  BY <1>1, <1>3, <1>6, <1>7 DEF RunsAsItsOwner, Fields
<1> QED BY <1>1, <1>4, <1>5, <1>8
        DEF RecordsSuffice, PlannedOnSurface, HeavyIsOnHost, UsedWasPlanned, UnsubmittedIsUnused

LEMMA AskInv ==
    ASSUME Inv, NEW t \in Threads, NEW c \in Capabilities, Ask(t, c)
    PROVE  Inv'
<1> USE DEF Inv
<1>1. running[t] # None /\ UNCHANGED <<tls, jobs, planned, basis>>
  BY DEF Ask
<1>2. running[t] \in Jobs /\ jobs[running[t]] # None
  BY <1>1 DEF Typed, RunsAreRecorded
<1>3. Authorized(Fields(t)) = planned[running[t]]
  BY <1>1 DEF RunsAsItsOwner
<1>4. CASE c \in Authorized(Fields(t))
  <2>1. used' = [used EXCEPT ![running[t]] = @ \cup {c}] /\ running' = running
    BY <1>4 DEF Ask
  <2>2. c \in planned[running[t]] /\ c \in Full
    BY <1>2, <1>3, <1>4 DEF Typed
  <2>3. Typed'
    BY <1>1, <1>2, <2>1, <2>2 DEF Typed
  <2>4. \A i \in Jobs : /\ i # running[t] => used'[i] = used[i]
                        /\ i = running[t] => used'[i] = used[i] \cup {c}
    BY <1>2, <2>1 DEF Typed
  <2>5. UsedWasPlanned' /\ UnsubmittedIsUnused'
    BY <1>1, <1>2, <2>2, <2>4 DEF UsedWasPlanned, UnsubmittedIsUnused
  <2> QED BY <1>1, <2>1, <2>3, <2>5
          DEF RecordsSuffice, RunsAreRecorded, RunsAsItsOwner, PlannedOnSurface, HeavyIsOnHost, Fields
<1>5. CASE c \notin Authorized(Fields(t))
  <2>1. used' = used /\ running' = [running EXCEPT ![t] = None]
    BY <1>5 DEF Ask
  <2>2. Typed'
    BY <1>1, <2>1 DEF Typed
  <2>3. \A u \in Threads : running'[u] # None => running'[u] = running[u] /\ running[u] # None
    BY <2>1 DEF Typed
  <2>4. RunsAreRecorded' /\ RunsAsItsOwner'
    BY <1>1, <2>3 DEF RunsAreRecorded, RunsAsItsOwner, Fields
  <2> QED BY <1>1, <2>1, <2>2, <2>4
          DEF RecordsSuffice, PlannedOnSurface, HeavyIsOnHost, UsedWasPlanned, UnsubmittedIsUnused
<1> QED BY <1>4, <1>5

\* The end of a run and a restart only take runs and fields away.
LEMMA EndInv ==
    ASSUME Inv, UNCHANGED <<jobs, planned, basis, used>>, Typed',
           \A t \in Threads : running'[t] # None =>
               running'[t] = running[t] /\ tls'[t] = tls[t]
    PROVE  Inv'
BY DEF Inv, RecordsSuffice, RunsAreRecorded, RunsAsItsOwner, PlannedOnSurface, HeavyIsOnHost,
       UsedWasPlanned, UnsubmittedIsUnused, Fields

LEMMA NextInv == Inv /\ [Next]_vars => Inv'
<1> SUFFICES ASSUME Inv, [Next]_vars PROVE Inv'
  OBVIOUS
<1>1. ASSUME NEW t \in Threads, Explain(t) PROVE Inv'
  BY <1>1, ExplainInv
<1>2. ASSUME NEW t \in Threads, NEW j \in Jobs, NEW surface \in Surfaces,
             NEW confirmed \in BOOLEAN, NEW p \in Pairings \cup {None},
             Submit(t, j, surface, confirmed, FALSE, p)
      PROVE  Inv'
  BY <1>2, SubmitInv
<1>3. ASSUME NEW t \in Threads, NEW j \in Jobs, NEW surface \in Surfaces,
             CompanionCapture(t, j, surface)
      PROVE  Inv'
  BY <1>3, SubmitInv DEF CompanionCapture
<1>4. ASSUME NEW t \in Threads, NEW j \in Jobs, Run(t, j) PROVE Inv'
  BY <1>4, RunInv
<1>5. ASSUME NEW t \in Threads, NEW c \in Capabilities, Ask(t, c) PROVE Inv'
  BY <1>5, AskInv
<1>6. ASSUME NEW t \in Threads, EndRun(t) PROVE Inv'
  <2>1. /\ running' = [running EXCEPT ![t] = None]
        /\ UNCHANGED <<tls, jobs, planned, basis, used>>
    BY <1>6 DEF EndRun
  <2>2. Typed'
    BY <2>1 DEF Inv, Typed
  <2>3. \A u \in Threads : running'[u] # None => running'[u] = running[u] /\ tls'[u] = tls[u]
    BY <2>1 DEF Inv, Typed
  <2> QED BY <2>1, <2>2, <2>3, EndInv
<1>7. CASE Restart
  <2>1. /\ tls' = [t \in Threads |-> None] /\ running' = [t \in Threads |-> None]
        /\ UNCHANGED <<jobs, planned, basis, used>>
    BY <1>7 DEF Restart
  <2>2. Typed'
    BY <2>1 DEF Inv, Typed
  <2>3. \A u \in Threads : running'[u] # None => running'[u] = running[u] /\ tls'[u] = tls[u]
    BY <2>1
  <2> QED BY <2>1, <2>2, <2>3, EndInv
<1>8. ASSUME UNCHANGED <<tls, jobs, running, planned, basis, used>> PROVE Inv'
  <2>1. Typed'
    BY <1>8 DEF Inv, Typed
  <2> QED BY <1>8, <2>1, EndInv
<1>9. ASSUME NEW p \in Pairings, Confirm(p) \/ Expire(p) PROVE Inv'
  BY <1>8, <1>9 DEF Confirm, Expire
<1>10. CASE UNCHANGED vars
  BY <1>8, <1>10 DEF vars
<1> QED BY <1>1, <1>2, <1>3, <1>4, <1>5, <1>6, <1>7, <1>9, <1>10 DEF Next

-----------------------------------------------------------------------------
(* The theorems. *)

THEOREM InvHolds == Spec => []Inv
BY InitInv, NextInv, PTL DEF Spec

\* A run is authorized for what the request of its job was authorized for,
\* whatever the thread did before and across restarts: _activate_job finds the
\* owner in the record of the queue.
THEOREM OwnerKept == Spec => []RunsAsItsOwner
<1>1. Inv => RunsAsItsOwner
  BY DEF Inv
<1> QED BY <1>1, InvHolds, PTL

\* What a job has used that stands on its surface alone is within the profile of
\* the surface, and a job that has run yt-dlp is recorded as the host's, a
\* companion's capture too: "Restricted workers never inherit extra power."
THEOREM PowerNotInherited == Spec => []NoInheritedPower
<1>1. Inv => NoInheritedPower
  BY DEF Inv, NoInheritedPower, PlannedOnSurface, HeavyIsOnHost, UsedWasPlanned, UnsubmittedIsUnused
<1> QED BY <1>1, InvHolds, PTL

-----------------------------------------------------------------------------
(* What the model of Acquisition is made of. *)

\* What plan_acquisition can plan: no strategy twice.
Plans == {<<>>, <<"live">>, <<"http">>, <<"gallery">>, <<"ytdlp">>,
          <<"http", "ytdlp">>, <<"gallery", "ytdlp">>}

LEMMA Joined ==
  ASSUME NEW a, NEW b
  PROVE  /\ <<>> \o <<>> = <<>> /\ <<a>> \o <<>> = <<a>> /\ <<>> \o <<b>> = <<b>>
         /\ <<a>> \o <<b>> = <<a, b>>
         /\ Tail(<<a>>) = <<>> /\ Tail(<<a, b>>) = <<b>>
<1>1. <<>> \o <<>> = <<>>
  OBVIOUS
<1>2. <<a>> \o <<>> = <<a>> /\ <<>> \o <<b>> = <<b>>
  OBVIOUS
<1>3. <<a>> \o <<b>> = <<a, b>>
  <2>1. <<a>> \in Seq({a, b}) /\ <<b>> \in Seq({a, b})
    OBVIOUS
  <2>2. Len(<<a>> \o <<b>>) = 2 /\ <<a>> \o <<b>> \in Seq({a, b})
    BY <2>1
  <2>3. (<<a>> \o <<b>>)[1] = a /\ (<<a>> \o <<b>>)[2] = b
    BY <2>1
  <2> DEFINE ab == <<a>> \o <<b>>
  <2>4. ab \in Seq({a, b}) /\ Len(ab) = 2 /\ ab[1] = a /\ ab[2] = b
    BY <2>2, <2>3
  <2> HIDE DEF ab
  <2>5. ab = <<a, b>>
    BY <2>4
  <2> QED BY <2>5 DEF ab
<1>4. Tail(<<a>>) = <<>> /\ Tail(<<a, b>>) = <<b>>
  OBVIOUS
<1> QED BY <1>1, <1>2, <1>3, <1>4

LEMMA StrategiesArePlans ==
  ASSUME NEW c, NEW capabilities
  PROVE  Strategies(c, capabilities) \in Plans
<1> DEFINE may(strategy) == IF strategy \in capabilities THEN <<strategy>> ELSE <<>>
<1>1. CASE c.kind = "live_stream"
  <2>1. Strategies(c, capabilities) = may("live")
    BY <1>1 DEF Strategies
  <2> QED BY <2>1 DEF Plans
<1>2. CASE c.kind = "gallery"
  <2>1. Strategies(c, capabilities) = may("gallery") \o may("ytdlp")
    BY <1>2 DEF Strategies
  <2>2. \/ may("gallery") = <<>> /\ may("ytdlp") = <<>>
        \/ may("gallery") = <<>> /\ may("ytdlp") = <<"ytdlp">>
        \/ may("gallery") = <<"gallery">> /\ may("ytdlp") = <<>>
        \/ may("gallery") = <<"gallery">> /\ may("ytdlp") = <<"ytdlp">>
    OBVIOUS
  <2> HIDE DEF may
  <2>3. Strategies(c, capabilities) \in {<<>>, <<"ytdlp">>, <<"gallery">>, <<"gallery", "ytdlp">>}
    BY <2>1, <2>2, Joined
  <2> QED BY <2>3 DEF Plans
<1>3. CASE c.direct /\ c.kind \notin {"live_stream", "gallery", "page"}
  <2>1. Strategies(c, capabilities) = may("http") \o may("ytdlp")
    BY <1>3 DEF Strategies
  <2>2. \/ may("http") = <<>> /\ may("ytdlp") = <<>>
        \/ may("http") = <<>> /\ may("ytdlp") = <<"ytdlp">>
        \/ may("http") = <<"http">> /\ may("ytdlp") = <<>>
        \/ may("http") = <<"http">> /\ may("ytdlp") = <<"ytdlp">>
    OBVIOUS
  <2> HIDE DEF may
  <2>3. Strategies(c, capabilities) \in {<<>>, <<"ytdlp">>, <<"http">>, <<"http", "ytdlp">>}
    BY <2>1, <2>2, Joined
  <2> QED BY <2>3 DEF Plans
<1>4. CASE c.kind \notin {"live_stream", "gallery"} /\ (c.kind = "page" \/ ~c.direct)
  <2>1. Strategies(c, capabilities) = may("ytdlp")
    BY <1>4 DEF Strategies
  <2> QED BY <2>1 DEF Plans
<1> QED BY <1>1, <1>2, <1>3, <1>4

\* The strategies after the one that failed.
LEMMA TailOfPlan ==
  ASSUME NEW plan \in Plans, plan # <<>>
  PROVE  /\ Tail(plan) \in Plans
         /\ \A i \in DOMAIN Tail(plan) :
              Tail(plan)[i] # Head(plan) /\ \E j \in DOMAIN plan : plan[j] = Tail(plan)[i]
<1>1. CASE plan \in {<<"live">>, <<"http">>, <<"gallery">>, <<"ytdlp">>}
  <2>1. Tail(plan) = <<>>
    BY <1>1, Joined
  <2> QED BY <2>1 DEF Plans
<1>2. CASE plan \in {<<"http", "ytdlp">>, <<"gallery", "ytdlp">>}
  <2>1. Tail(plan) = <<"ytdlp">>
    BY <1>2, Joined
  <2>2. Head(plan) # "ytdlp" /\ 2 \in DOMAIN plan /\ plan[2] = "ytdlp"
    BY <1>2
  <2> QED BY <2>1, <2>2 DEF Plans
<1> QED BY <1>1, <1>2 DEF Plans

LEMMA HeadOfPlan ==
  ASSUME NEW plan \in Plans, plan # <<>>
  PROVE  1 \in DOMAIN plan /\ Head(plan) = plan[1]
BY DEF Plans

-----------------------------------------------------------------------------
(* Every set of numbers that is not empty has a least one, and what holds of *)
(* 0 and of the number after each of which it holds is so of all.            *)
Below == {ss \in Nat \X Nat : ss[1] < ss[2]}

LEMMA BelowWF == IsWellFoundedOn(Below, Nat)
BY NatLessThanWellFounded DEF OpToRel, Below

LEMMA Least ==
  ASSUME NEW T, T \subseteq Nat, T # {}
  PROVE  \E x \in T : \A y \in T : x <= y
<1>1. PICK x \in T : \A y \in T : ~(<<y, x>> \in Below)
  BY BelowWF, WFMin
<1>2. ASSUME NEW y \in T PROVE x <= y
  <2>1. <<y, x>> \in Nat \X Nat /\ x \in Nat /\ y \in Nat
    BY <1>1
  <2>2. <<y, x>> \notin Below
    BY <1>1
  <2>3. ~(<<y, x>>[1] < <<y, x>>[2])
    BY <2>1, <2>2 DEF Below
  <2> QED BY <2>1, <2>3
<1> QED BY <1>1, <1>2

LEMMA Induct ==
  ASSUME NEW S, 0 \in S, \A n \in Nat : n \in S => n + 1 \in S
  PROVE  \A n \in Nat : n \in S
<1> SUFFICES ASSUME NEW m \in Nat, m \notin S PROVE FALSE
  OBVIOUS
<1> DEFINE T == {n \in Nat : n \notin S}
<1>1. PICK x \in T : \A y \in T : x <= y
  <2>1. T \subseteq Nat /\ T # {}
    OBVIOUS
  <2> QED BY <2>1, Least
<1>2. x # 0 /\ x - 1 \in Nat /\ x - 1 \in S
  BY <1>1
<1> QED BY <1>2, <1>1

AtLeast(f, g) == f.height > g.height \/ (f.height = g.height /\ f.rate >= g.rate)

\* Of finitely many formats one is the best.
LEMMA HasBest ==
  ASSUME NEW U, IsFiniteSet(U), U # {}, U \subseteq Formats
  PROVE  \E f \in U : \A g \in U : AtLeast(f, g)
<1> DEFINE Good == {n \in Nat : \A T \in SUBSET U :
                      Cardinality(T) = n /\ T # {} => \E f \in T : \A g \in T : AtLeast(f, g)}
<1>0. \A f \in U : f.height \in Int /\ f.rate \in Int
  BY DEF Formats
<1>1. 0 \in Good
  BY FS_EmptySet, FS_Subset
<1>2. ASSUME NEW n \in Nat, n \in Good PROVE n + 1 \in Good
  <2> SUFFICES ASSUME NEW T \in SUBSET U, Cardinality(T) = n + 1, T # {}
               PROVE  \E f \in T : \A g \in T : AtLeast(f, g)
    OBVIOUS
  <2>1. PICK h \in T : TRUE
    OBVIOUS
  <2> DEFINE R == T \ {h}
  <2>2. Cardinality(R) = n
    <3>1. IsFiniteSet(T)
      BY FS_Subset
    <3>2. Cardinality(R) = Cardinality(T) - 1
      BY <3>1, <2>1, FS_RemoveElement
    <3> QED BY <3>2
  <2>3. CASE R = {}
    BY <1>0, <2>3 DEF AtLeast
  <2>4. CASE R # {}
    <3>1. PICK f \in R : \A g \in R : AtLeast(f, g)
      BY <1>2, <2>2, <2>4
    <3>2. AtLeast(f, h) \/ (AtLeast(h, f) /\ AtLeast(h, h))
      BY <1>0 DEF AtLeast
    <3>3. AtLeast(h, f) => \A g \in R : AtLeast(h, g)
      BY <1>0, <3>1 DEF AtLeast
    <3> QED BY <3>1, <3>2, <3>3
  <2> QED BY <2>3, <2>4
<1> HIDE DEF Good
<1>3. \A n \in Nat : n \in Good
  BY <1>1, <1>2, Induct
<1>4. Cardinality(U) \in Nat
  BY FS_CardinalityType
<1> QED BY <1>3, <1>4 DEF Good

LEMMA BestIsOne ==
  ASSUME NEW U, IsFiniteSet(U), U # {}, U \subseteq Formats
  PROVE  Best(U) \in U
BY HasBest DEF Best, AtLeast

\* What preferred_format_id asks for.
LEMMA PreferredKeeps ==
  ASSUME NEW alternatives, alternatives \subseteq Formats, IsFiniteSet(alternatives),
         NEW usable, usable = {f \in alternatives : ~f.drm}
  PROVE  /\ PreferredFormat(alternatives) \subseteq usable
         /\ (HasPicture(usable) /\ HasSound(usable)) \/ (\A f \in usable : f.video \/ f.audio) =>
              /\ HasPicture(usable) => HasPicture(PreferredFormat(alternatives))
              /\ HasSound(usable) => HasSound(PreferredFormat(alternatives))
<1> DEFINE combined == {f \in usable : f.video /\ f.audio}
           videos   == {f \in usable : f.video}
           audios   == {f \in usable : f.audio /\ ~f.video}
<1>1. \A U : U \subseteq usable /\ U # {} => Best(U) \in U
  BY FS_Subset, BestIsOne
<1>2. CASE combined # {}
  <2>1. PreferredFormat(alternatives) = {Best(combined)}
    BY <1>2 DEF PreferredFormat
  <2>2. Best(combined) \in combined
    BY <1>1, <1>2
  <2> QED BY <2>1, <2>2 DEF HasPicture, HasSound
<1>3. CASE combined = {} /\ videos # {} /\ audios # {}
  <2>1. PreferredFormat(alternatives) = {Best(videos), Best(audios)}
    BY <1>3 DEF PreferredFormat
  <2>2. Best(videos) \in videos /\ Best(audios) \in audios
    BY <1>1, <1>3
  <2> QED BY <2>1, <2>2 DEF HasPicture, HasSound
<1>4. CASE usable # {} /\ combined = {} /\ (videos = {} \/ audios = {})
  <2>1. PreferredFormat(alternatives) = {Best(usable)}
    BY <1>4 DEF PreferredFormat
  <2>2. Best(usable) \in usable
    BY <1>1, <1>4
  <2>3. ~(HasPicture(usable) /\ HasSound(usable))
    BY <1>4 DEF HasPicture, HasSound
  <2> QED BY <2>1, <2>2, <2>3 DEF HasPicture, HasSound
<1>5. CASE usable = {}
  <2>1. PreferredFormat(alternatives) = {}
    BY <1>5 DEF PreferredFormat
  <2> QED BY <2>1, <1>5 DEF HasPicture, HasSound
<1> QED BY <1>2, <1>3, <1>4, <1>5

-----------------------------------------------------------------------------
(* The invariant of Acquisition. *)

KindTyped ==
    /\ candidate \in Candidates
    /\ run \in Nat
    /\ at \in {"plan", "try", "register", "acquired", "failed"}
    /\ left \in Plans
    /\ at \in {"try", "register"} => left # <<>>
    /\ format \in {{}, PreferredFormat(candidate.alternatives)}

\* The strategy that has run, if it has, has written what is registered.
PathsAreDelivered ==
    at = "register" =>
      /\ paths # {}
      /\ \A n \in paths : /\ staging[n].by = Strategy /\ staging[n].run = run
                          /\ staging[n].what \in {"media", "encrypted"}
SourcesDelivered ==
    /\ sources # NoFiles => at \in {"register", "acquired", "failed"} /\ left # <<>>
    /\ SourcesAreDelivered

\* A strategy that failed is not left, and what is quarantined is of this run or
\* one before; encryption in this run has ended it.
FailuresAreOver ==
    /\ at = "plan" => failures = {}
    /\ \A new \in failures :
         /\ new # {} => new \cap quarantine # {}
         /\ \A x \in new : \A i \in DOMAIN left : x[2].by # left[i]
QuarantineIsPast ==
    \A a \in quarantine :
      /\ a[2].run \in Nat /\ a[2].run <= run
      /\ a[2].what = "encrypted" /\ a[2].run = run => at = "failed"

KindInv == KindTyped /\ PathsAreDelivered /\ SourcesDelivered /\ FailuresAreOver /\ QuarantineIsPast

LEMMA KindInitInv == KindInit => KindInv
<1> SUFFICES ASSUME KindInit PROVE KindInv
  OBVIOUS
<1> USE DEF KindInit
<1>1. KindTyped
  BY DEF KindTyped, Plans
<1>2. PathsAreDelivered /\ SourcesDelivered /\ FailuresAreOver /\ QuarantineIsPast
  BY DEF PathsAreDelivered, SourcesDelivered, SourcesAreDelivered, NoFiles, FailuresAreOver, QuarantineIsPast
<1> QED BY <1>1, <1>2 DEF KindInv

\* A strategy is over that has left no sources, and the next one is tried.
LEMMA FailKeeps ==
  ASSUME KindInv, at \in {"try", "register"}, NEW why, Fail(why),
         sources' = sources, sources = NoFiles,
         UNCHANGED <<candidate, format, run>>, quarantine \subseteq quarantine',
         \A a \in quarantine' \ quarantine : a[2].run = run /\ a[2].what # "encrypted",
         \A new \in failures' \ failures :
            /\ new # {} => new \cap quarantine' # {}
            /\ \A x \in new : x[2].by = Strategy
  PROVE  KindInv'
<1>1. left \in Plans /\ left # <<>> /\ left' = Tail(left) /\ at' \in {"failed", "try"}
      /\ (at' = "try" => left' # <<>>)
  BY DEF KindInv, KindTyped, Fail
<1>2. left' \in Plans /\ \A i \in DOMAIN left' :
           left'[i] # Strategy /\ \E j \in DOMAIN left : left[j] = left'[i]
  BY <1>1, TailOfPlan DEF Strategy
<1>3. KindTyped'
  BY <1>1, <1>2 DEF KindInv, KindTyped
<1>4. PathsAreDelivered' /\ SourcesDelivered'
  BY <1>1 DEF PathsAreDelivered, SourcesDelivered, SourcesAreDelivered, NoFiles
<1>5. FailuresAreOver'
  BY <1>1, <1>2 DEF KindInv, FailuresAreOver
<1>6. QuarantineIsPast'
  <2> SUFFICES ASSUME NEW a \in quarantine'
               PROVE  /\ a[2].run \in Nat /\ a[2].run <= run
                      /\ a[2].what = "encrypted" /\ a[2].run = run => at' = "failed"
    BY DEF QuarantineIsPast
  <2>1. CASE a \in quarantine
    BY <2>1 DEF KindInv, QuarantineIsPast
  <2>2. CASE a \notin quarantine
    BY <2>2 DEF KindInv, KindTyped
  <2> QED BY <2>1, <2>2
<1> QED BY <1>3, <1>4, <1>5, <1>6 DEF KindInv

\* A provider has run: what it created is its own, and so is what it quarantines.
LEMMA JudgeKeeps ==
  ASSUME KindInv, at = "try", NEW after, NEW created, NEW output, NEW exit \in {0, 1},
         Judge(after, created, output, exit), UNCHANGED <<candidate, format, run, sources>>,
         \A n \in DOMAIN after \ DOMAIN staging : after[n].by = Strategy,
         exit = 0 => \A n \in created : /\ after[n].by = Strategy /\ after[n].run = run
                                        /\ after[n].what \in {"media", "encrypted"},
         exit = 1 => /\ \A n \in output : after[n].run = run /\ after[n].what # "encrypted"
                     /\ DOMAIN after \ DOMAIN staging # {} =>
                          output \cap (DOMAIN after \ DOMAIN staging) # {}
  PROVE  KindInv'
<1>0. left # <<>> /\ sources = NoFiles
  BY DEF KindInv, KindTyped, SourcesDelivered
<1>1. CASE exit = 0 /\ created # {}
  <2>1. /\ staging' = after /\ paths' = created /\ at' = "register"
        /\ UNCHANGED <<left, failures, quarantine>>
    BY <1>1 DEF Judge
  <2>2. KindTyped'
    BY <1>0, <2>1 DEF KindInv, KindTyped
  <2>3. PathsAreDelivered'
    BY <1>1, <2>1 DEF PathsAreDelivered, Strategy
  <2>4. SourcesDelivered'
    BY <1>0, <2>1 DEF SourcesDelivered, SourcesAreDelivered, NoFiles
  <2>5. FailuresAreOver' /\ QuarantineIsPast'
    BY <2>1 DEF KindInv, FailuresAreOver, QuarantineIsPast
  <2> QED BY <2>2, <2>3, <2>4, <2>5 DEF KindInv
<1>2. CASE exit = 0 /\ created = {}
  <2>1. Fail("no files") /\ UNCHANGED <<failures, quarantine>>
    BY <1>2 DEF Judge
  <2> QED BY <1>0, <2>1, FailKeeps
<1>3. CASE exit = 1
  <2> DEFINE new == {<<n, after[n]>> : n \in DOMAIN after \ DOMAIN staging}
             out == {<<n, after[n]>> : n \in output}
  <2>1. /\ Fail("exited") /\ failures' = failures \cup {new}
        /\ quarantine' = IF output = {} THEN quarantine ELSE quarantine \cup out
    BY <1>3 DEF Judge, Quarantine
  <2>2. quarantine' = quarantine \cup out
    BY <2>1
  <2>3. \A a \in quarantine' \ quarantine : a[2].run = run /\ a[2].what # "encrypted"
    BY <1>3, <2>2
  <2>4. \A x \in new : x[2].by = Strategy
    OBVIOUS
  <2>5. ASSUME new # {} PROVE new \cap quarantine' # {}
    <3>1. PICK n \in output \cap (DOMAIN after \ DOMAIN staging) : TRUE
      BY <1>3, <2>5
    <3>2. <<n, after[n]>> \in new /\ <<n, after[n]>> \in out
      BY <3>1
    <3> QED BY <2>2, <3>2
  <2> HIDE DEF new, out
  <2> QED BY <1>0, <2>1, <2>2, <2>3, <2>4, <2>5, FailKeeps
<1> QED BY <1>1, <1>2, <1>3

LEMMA HttpKeeps == ASSUME KindInv, HttpDirect PROVE KindInv'
<1>1. at = "try" /\ UNCHANGED <<candidate, format, run, sources>>
  BY DEF HttpDirect, given
<1>2. PICK name \in Suffix, what \in {"media", "encrypted", "refusal"} :
        Judge(Over([n \in {name} |-> Content(what)], staging), {name}, {name}, IF what = "refusal" THEN 1 ELSE 0)
  BY DEF HttpDirect
<1> DEFINE after == Over([n \in {name} |-> Content(what)], staging)
           exit  == IF what = "refusal" THEN 1 ELSE 0
<1>3. /\ DOMAIN after = {name} \cup DOMAIN staging
      /\ after[name] = [by |-> Strategy, run |-> run, what |-> what]
  BY DEF Over, Content
<1>4. /\ Judge(after, {name}, {name}, exit) /\ exit \in {0, 1}
      /\ exit = 0 => what \in {"media", "encrypted"}
      /\ exit = 1 => what # "encrypted"
  BY <1>2
<1> HIDE DEF after, exit
<1>5. \A n \in DOMAIN after \ DOMAIN staging : after[n].by = Strategy
  BY <1>3
<1>6. \A n \in {name} : /\ after[n].by = Strategy /\ after[n].run = run /\ after[n].what = what
  BY <1>3
<1>7. DOMAIN after \ DOMAIN staging # {} => {name} \cap (DOMAIN after \ DOMAIN staging) # {}
  BY <1>3
<1> QED BY <1>1, <1>4, <1>5, <1>6, <1>7, JudgeKeeps

LEMMA ProgramKeeps == ASSUME KindInv, Program PROVE KindInv'
<1>1. at = "try" /\ UNCHANGED <<candidate, format, run, sources>>
  BY DEF Program, given
<1>2. PICK offer \in SUBSET ToSet(Names), exit \in {0, 1} :
        \E contents \in [offer \ DOMAIN staging ->
                           IF exit = 0 THEN {"media", "encrypted"} ELSE {"media", "partial"}] :
           LET written == [n \in offer \ DOMAIN staging |-> Content(contents[n])]
               after   == Over(written, staging)
               created == NewFiles(after)
           IN \E newest \in IF created = {} THEN {None} ELSE created :
                Judge(after, created, {newest} \ {None}, exit)
  BY DEF Program
<1>3. PICK contents \in [offer \ DOMAIN staging ->
                           IF exit = 0 THEN {"media", "encrypted"} ELSE {"media", "partial"}] :
           LET written == [n \in offer \ DOMAIN staging |-> Content(contents[n])]
               after   == Over(written, staging)
               created == NewFiles(after)
           IN \E newest \in IF created = {} THEN {None} ELSE created :
                Judge(after, created, {newest} \ {None}, exit)
  BY <1>2
<1> DEFINE written == [n \in offer \ DOMAIN staging |-> Content(contents[n])]
           after   == Over(written, staging)
           created == NewFiles(after)
<1>4. PICK newest \in IF created = {} THEN {None} ELSE created :
        Judge(after, created, {newest} \ {None}, exit)
  BY <1>3
<1>5. /\ created = offer \ DOMAIN staging /\ created = DOMAIN after \ DOMAIN staging
      /\ \A n \in created : after[n] = Content(contents[n])
  BY DEF NewFiles, Over
<1>6. \A n \in created : /\ after[n].by = Strategy /\ after[n].run = run
                         /\ after[n].what = contents[n]
  BY <1>5 DEF Content
<1>7. \A n \in created : exit = 0 => contents[n] \in {"media", "encrypted"}
  BY <1>5
<1>8. \A n \in created : exit = 1 => contents[n] # "encrypted"
  BY <1>5
<1>9. None \notin created
  BY <1>5, AcquisitionAssumption
<1> HIDE DEF after, created
<1>10. {newest} \ {None} \subseteq created /\ (created # {} => newest \in {newest} \ {None} /\ newest \in created)
  BY <1>9
<1> QED BY <1>1, <1>4, <1>5, <1>6, <1>7, <1>8, <1>10, JudgeKeeps

LEMMA RecordLiveKeeps == ASSUME KindInv, RecordLive PROVE KindInv'
<1>1. at = "try" /\ UNCHANGED <<candidate, format, run, sources>>
  BY DEF RecordLive, given
<1>2. PICK kept \in (SUBSET ToSet(Names)) \ {{}} :
        Judge(Over([n \in kept |-> Content("media")], staging), kept, {}, 0)
  BY DEF RecordLive
<1> DEFINE after == Over([n \in kept |-> Content("media")], staging)
<1>3. /\ DOMAIN after = kept \cup DOMAIN staging
      /\ \A n \in kept : after[n] = Content("media")
  BY DEF Over
<1>4. Judge(after, kept, {}, 0)
  BY <1>2
<1> HIDE DEF after
<1>5. \A n \in kept : /\ after[n].by = Strategy /\ after[n].run = run /\ after[n].what = "media"
  BY <1>3 DEF Content
<1> QED BY <1>1, <1>3, <1>4, <1>5, JudgeKeeps

LEMMA RegisterKeeps == ASSUME KindInv, Register PROVE KindInv'
<1>1. /\ at = "register" /\ left # <<>> /\ left \in Plans /\ paths # {} /\ run \in Nat
      /\ UNCHANGED <<candidate, format, run, staging, failures, left>>
  BY DEF Register, Store, given, KindInv, KindTyped, PathsAreDelivered
<1>2. PICK name \in paths :
        IF staging[name].what = "encrypted"
        THEN /\ quarantine' = quarantine \cup {<<name, staging[name]>>}
             /\ at' = "failed" /\ error' = "drm"
             /\ UNCHANGED <<left, paths, sources>>
        ELSE Store(name)
  BY DEF Register
<1>3. /\ staging[name].by = Strategy /\ staging[name].run = run
      /\ staging[name].what \in {"media", "encrypted"}
  BY <1>1, <1>2 DEF KindInv, PathsAreDelivered
<1>4. CASE staging[name].what = "encrypted"
  <2>1. /\ quarantine' = quarantine \cup {<<name, staging[name]>>} /\ at' = "failed"
        /\ UNCHANGED <<left, paths, sources>>
    BY <1>2, <1>4
  <2>2. KindTyped' /\ PathsAreDelivered'
    BY <1>1, <2>1 DEF KindInv, KindTyped, PathsAreDelivered
  <2>3. SourcesDelivered'
    BY <1>1, <2>1 DEF KindInv, SourcesDelivered, SourcesAreDelivered, Strategy
  <2>4. FailuresAreOver'
    BY <1>1, <2>1 DEF KindInv, FailuresAreOver
  <2>5. QuarantineIsPast'
    BY <1>1, <1>3, <2>1 DEF KindInv, QuarantineIsPast
  <2> QED BY <2>2, <2>3, <2>4, <2>5 DEF KindInv
<1>5. CASE staging[name].what = "media"
  <2>1. /\ sources' = Over([n \in {name} |-> staging[n]], sources)
        /\ paths' = paths \ {name}
        /\ at' = IF paths = {name} THEN "acquired" ELSE at
        /\ UNCHANGED <<left, error, quarantine>>
    BY <1>2, <1>5 DEF Store
  <2>2. KindTyped'
    BY <1>1, <2>1 DEF KindInv, KindTyped
  <2>3. PathsAreDelivered'
    BY <1>1, <2>1 DEF KindInv, PathsAreDelivered, Strategy
  <2>4. SourcesDelivered'
    <3>1. /\ DOMAIN sources' = {name} \cup DOMAIN sources
          /\ sources'[name] = staging[name]
          /\ \A n \in DOMAIN sources : n # name => sources'[n] = sources[n]
      BY <2>1 DEF Over
    <3>2. sources' # NoFiles
      BY <3>1 DEF NoFiles
    <3>3. \A n \in DOMAIN sources' : /\ sources'[n].what = "media" /\ sources'[n].run = run
                                     /\ sources'[n].by = Strategy
      BY <1>3, <1>5, <3>1 DEF KindInv, SourcesDelivered, SourcesAreDelivered
    <3> QED BY <1>1, <2>1, <3>2, <3>3 DEF SourcesDelivered, SourcesAreDelivered, Strategy
  <2>5. FailuresAreOver' /\ QuarantineIsPast'
    BY <1>1, <2>1 DEF KindInv, FailuresAreOver, QuarantineIsPast
  <2> QED BY <2>2, <2>3, <2>4, <2>5 DEF KindInv
<1> QED BY <1>3, <1>4, <1>5

\* Between two runs of the kind.
LEMMA AnewKeeps ==
  ASSUME KindInv, run' = run + 1, at' = "plan", left' = <<>>, sources' = NoFiles, failures' = {},
         format' = {}, UNCHANGED <<candidate, quarantine>>
  PROVE  KindInv'
<1>1. KindTyped'
  BY DEF KindInv, KindTyped, Plans
<1>2. PathsAreDelivered' /\ SourcesDelivered' /\ FailuresAreOver'
  BY DEF PathsAreDelivered, SourcesDelivered, SourcesAreDelivered, FailuresAreOver, NoFiles
<1>3. QuarantineIsPast'
  BY DEF KindInv, KindTyped, QuarantineIsPast
<1> QED BY <1>1, <1>2, <1>3 DEF KindInv

LEMMA KindNextInv == KindInv /\ [KindNext]_kindVars => KindInv'
<1> SUFFICES ASSUME KindInv, [KindNext]_kindVars PROVE KindInv'
  OBVIOUS
<1>1. CASE Plan
  <2>1. /\ at = "plan" /\ sources = NoFiles /\ UNCHANGED <<candidate, run, sources, failures, quarantine>>
        /\ at' \in {"failed", "try"} /\ left \in Plans
    BY <1>1 DEF Plan, given, KindInv, KindTyped, SourcesDelivered
  <2>2. left' \in Plans /\ (at' = "try" => left' # <<>>)
    BY <1>1, <2>1, StrategiesArePlans DEF Plan
  <2>3. format' \in {{}, PreferredFormat(candidate.alternatives)}
    BY <1>1 DEF Plan, KindInv, KindTyped
  <2>4. KindTyped'
    BY <2>1, <2>2, <2>3 DEF KindInv, KindTyped
  <2>5. PathsAreDelivered' /\ SourcesDelivered'
    BY <2>1 DEF PathsAreDelivered, SourcesDelivered, SourcesAreDelivered, NoFiles
  <2>6. FailuresAreOver'
    BY <2>1 DEF KindInv, FailuresAreOver
  <2>7. QuarantineIsPast'
    BY <2>1 DEF KindInv, QuarantineIsPast
  <2> QED BY <2>7, <2>4, <2>5, <2>6 DEF KindInv
<1>2. CASE Raise
  <2>1. /\ at = "try" /\ Fail(IF Strategy \in worker THEN "raised" ELSE "denied") /\ sources = NoFiles
        /\ UNCHANGED <<candidate, format, run, sources, failures, quarantine>>
    BY <1>2 DEF Raise, given, KindInv, SourcesDelivered
  <2> QED BY <2>1, FailKeeps
<1>3. CASE HttpDirect
  BY <1>3, HttpKeeps
<1>4. CASE Program
  BY <1>4, ProgramKeeps
<1>5. CASE RecordLive
  BY <1>5, RecordLiveKeeps
<1>6. CASE Register
  BY <1>6, RegisterKeeps
<1>7. CASE Stop
  BY <1>7, AnewKeeps DEF Stop, given
<1>8. CASE StopInProgram
  BY <1>8, AnewKeeps DEF StopInProgram, given
<1>9. CASE UNCHANGED kindVars
  BY <1>9 DEF kindVars, given, KindInv, KindTyped, PathsAreDelivered, SourcesDelivered,
              SourcesAreDelivered, FailuresAreOver, QuarantineIsPast, Strategy
<1> QED BY <1>1, <1>2, <1>3, <1>4, <1>5, <1>6, <1>7, <1>8, <1>9 DEF KindNext

\* A kind is acquired with what was asked for: whole media of one strategy of
\* this run, with the picture and the sound that were to be had, and nothing a
\* failed strategy has left, which is in quarantine (preferred_format_id,
\* execute, _acquire_remote), whatever is in the directory when a run begins.
THEOREM AcquisitionIsSound == KindSpec => []AcquiredIsSound
<1>1. KindInv => AcquiredIsSound
  <2> SUFFICES ASSUME KindInv PROVE AcquiredIsSound
    OBVIOUS
  <2>1. SourcesAreDelivered
    BY DEF KindInv, SourcesDelivered
  <2>2. FailedIsQuarantined
    <3> SUFFICES ASSUME NEW new \in failures, new # {}, NEW n \in DOMAIN sources,
                        <<n, sources[n]>> \in new
                 PROVE  FALSE
      BY DEF KindInv, FailuresAreOver, FailedIsQuarantined
    <3>1. left # <<>> /\ sources[n].by = Strategy
      BY DEF KindInv, SourcesDelivered, SourcesAreDelivered, NoFiles
    <3>2. 1 \in DOMAIN left /\ Strategy = left[1]
      BY <3>1, HeadOfPlan DEF KindInv, KindTyped, Strategy
    <3>3. <<n, sources[n]>>[2].by # left[1]
      BY <3>2 DEF KindInv, FailuresAreOver
    <3> QED BY <3>1, <3>2, <3>3
  <2>3. KeepsSound
    <3>1. candidate.alternatives \subseteq Formats /\ IsFiniteSet(candidate.alternatives)
      BY AcquisitionAssumption DEF KindInv, KindTyped
    <3>2. CASE format = {}
      BY <3>2 DEF KeepsSound
    <3>3. CASE format = PreferredFormat(candidate.alternatives)
      BY <3>1, <3>3, PreferredKeeps DEF KeepsSound
    <3> QED BY <3>2, <3>3 DEF KindInv, KindTyped
  <2> QED BY <2>1, <2>2, <2>3 DEF AcquiredIsSound
<1> QED BY <1>1, KindInitInv, KindNextInv, PTL DEF KindSpec

\* "Probe-discovered encryption is terminal": once a file of a run is found to be
\* encrypted, nothing more is written or registered in that run
\* (_register_acquired).
THEOREM EncryptionEndsTheKind == KindSpec => EncryptionIsTerminal
<1>1. KindInv /\ [KindNext]_kindVars =>
        [EncryptionFound /\ run' = run => staging' = staging /\ sources' = sources]_kindVars
  <2> SUFFICES ASSUME KindInv, KindNext, EncryptionFound
               PROVE  FALSE
    BY DEF kindVars
  <2>1. at = "failed"
    BY DEF KindInv, QuarantineIsPast, EncryptionFound
  <2> QED BY <2>1 DEF KindNext, Plan, Raise, HttpDirect, Program, RecordLive, Register, Stop, StopInProgram
<1> QED BY <1>1, KindInitInv, KindNextInv, PTL DEF KindSpec, EncryptionIsTerminal

-----------------------------------------------------------------------------
(* Discovery: sequences and what they hold. *)

LEMMA Ranges ==
  ASSUME NEW S, NEW s \in Seq(S)
  PROVE  /\ ToSet(s) \subseteq S
         /\ ToSet(s) = {} <=> s = <<>>
         /\ s # <<>> => /\ 1 \in DOMAIN s /\ Head(s) = s[1] /\ Head(s) \in ToSet(s)
                        /\ Tail(s) \in Seq(S)
                        /\ ToSet(s) = {Head(s)} \cup ToSet(Tail(s))
<1>1. DOMAIN s = 1..Len(s) /\ Len(s) \in Nat /\ \A i \in 1..Len(s) : s[i] \in S
  OBVIOUS
<1>2. ToSet(s) = {} <=> s = <<>>
  BY <1>1 DEF ToSet
<1>3. ASSUME s # <<>>
      PROVE  /\ 1 \in DOMAIN s /\ Head(s) = s[1] /\ Head(s) \in ToSet(s)
             /\ Tail(s) \in Seq(S)
             /\ ToSet(s) = {Head(s)} \cup ToSet(Tail(s))
  <2>1. 1 \in DOMAIN s /\ Head(s) = s[1] /\ Tail(s) \in Seq(S)
    BY <1>1, <1>3
  <2>2. Len(Tail(s)) = Len(s) - 1 /\ \A i \in 1..Len(s) - 1 : Tail(s)[i] = s[i + 1]
    BY <1>1, <1>3
  <2>3. DOMAIN Tail(s) = 1..Len(s) - 1
    BY <2>1, <2>2
  <2>4. ASSUME NEW x \in ToSet(s) PROVE x \in {s[1]} \cup ToSet(Tail(s))
    <3>1. PICK i \in 1..Len(s) : x = s[i]
      BY <1>1 DEF ToSet
    <3>2. CASE i = 1
      BY <3>1, <3>2
    <3>3. CASE i # 1
      <4>1. i - 1 \in 1..Len(s) - 1 /\ (i - 1) + 1 = i
        BY <1>1, <3>3
      <4>2. Tail(s)[i - 1] = x
        BY <2>2, <3>1, <4>1
      <4> QED BY <2>3, <4>1, <4>2 DEF ToSet
    <3> QED BY <3>2, <3>3
  <2>5. ASSUME NEW x \in ToSet(Tail(s)) PROVE x \in ToSet(s)
    <3>1. PICK i \in 1..Len(s) - 1 : x = Tail(s)[i]
      BY <2>3, <2>5 DEF ToSet
    <3>2. i + 1 \in 1..Len(s) /\ x = s[i + 1]
      BY <1>1, <2>2, <3>1
    <3> QED BY <1>1, <3>2 DEF ToSet
  <2>6. s[1] \in ToSet(s)
    BY <2>1 DEF ToSet
  <2> QED BY <2>1, <2>4, <2>5, <2>6
<1> QED BY <1>1, <1>2, <1>3 DEF ToSet

LEMMA JoinedRanges ==
  ASSUME NEW S, NEW s \in Seq(S), NEW t \in Seq(S)
  PROVE  s \o t \in Seq(S) /\ ToSet(s \o t) = ToSet(s) \cup ToSet(t)
<1>1. /\ DOMAIN s = 1..Len(s) /\ Len(s) \in Nat /\ DOMAIN t = 1..Len(t) /\ Len(t) \in Nat
      /\ s \o t \in Seq(S) /\ Len(s \o t) = Len(s) + Len(t)
  OBVIOUS
<1>2. /\ DOMAIN (s \o t) = 1..Len(s) + Len(t)
      /\ \A i \in 1..Len(s) + Len(t) : (s \o t)[i] = IF i <= Len(s) THEN s[i] ELSE t[i - Len(s)]
  BY <1>1
<1>3. ASSUME NEW x \in ToSet(s \o t) PROVE x \in ToSet(s) \cup ToSet(t)
  <2>1. PICK i \in 1..Len(s) + Len(t) : x = (s \o t)[i]
    BY <1>2 DEF ToSet
  <2>2. CASE i <= Len(s)
    BY <1>1, <1>2, <2>1, <2>2 DEF ToSet
  <2>3. CASE ~(i <= Len(s))
    <3>1. i - Len(s) \in 1..Len(t) /\ x = t[i - Len(s)]
      BY <1>1, <1>2, <2>1, <2>3
    <3> QED BY <1>1, <3>1 DEF ToSet
  <2> QED BY <2>2, <2>3
<1>4. ASSUME NEW x \in ToSet(s) PROVE x \in ToSet(s \o t)
  <2>1. PICK i \in 1..Len(s) : x = s[i]
    BY <1>1 DEF ToSet
  <2>2. i \in 1..Len(s) + Len(t) /\ i <= Len(s)
    BY <1>1
  <2> QED BY <1>2, <2>1, <2>2 DEF ToSet
<1>5. ASSUME NEW x \in ToSet(t) PROVE x \in ToSet(s \o t)
  <2>1. PICK i \in 1..Len(t) : x = t[i]
    BY <1>1 DEF ToSet
  <2>2. i + Len(s) \in 1..Len(s) + Len(t) /\ ~(i + Len(s) <= Len(s)) /\ (i + Len(s)) - Len(s) = i
    BY <1>1
  <2>3. (s \o t)[i + Len(s)] = x
    BY <1>2, <2>1, <2>2
  <2> QED BY <1>2, <2>2, <2>3 DEF ToSet
<1> QED BY <1>1, <1>3, <1>4, <1>5

LEMMA AppendedRanges ==
  ASSUME NEW S, NEW s \in Seq(S), NEW x \in S
  PROVE  /\ Append(s, x) \in Seq(S) /\ Append(s, x) # <<>>
         /\ ToSet(Append(s, x)) = ToSet(s) \cup {x}
         /\ Head(Append(s, x)) = IF s = <<>> THEN x ELSE Head(s)
<1>1. /\ DOMAIN s = 1..Len(s) /\ Len(s) \in Nat /\ Append(s, x) \in Seq(S)
      /\ Len(Append(s, x)) = Len(s) + 1 /\ DOMAIN Append(s, x) = 1..Len(s) + 1
      /\ \A i \in 1..Len(s) : Append(s, x)[i] = s[i]
      /\ Append(s, x)[Len(s) + 1] = x
  OBVIOUS
<1>2. ToSet(Append(s, x)) \subseteq ToSet(s) \cup {x}
  <2> SUFFICES ASSUME NEW y \in ToSet(Append(s, x)), y # x PROVE y \in ToSet(s)
    OBVIOUS
  <2>1. PICK i \in 1..Len(s) + 1 : y = Append(s, x)[i]
    BY <1>1 DEF ToSet
  <2>2. i \in 1..Len(s)
    BY <1>1, <2>1
  <2> QED BY <1>1, <2>1, <2>2 DEF ToSet
<1>3. ToSet(s) \subseteq ToSet(Append(s, x))
  BY <1>1 DEF ToSet
<1>4. x \in ToSet(Append(s, x))
  <2>1. Len(s) + 1 \in DOMAIN Append(s, x)
    BY <1>1
  <2> QED BY <1>1, <2>1 DEF ToSet
<1>5. Head(Append(s, x)) = IF s = <<>> THEN x ELSE Head(s)
  BY <1>1
<1> QED BY <1>1, <1>2, <1>3, <1>4, <1>5

\* Among keeps what is in the set, and the first of it is first.
FirstIn(items, set, i) == items[i] \in set /\ \A j \in 1..i - 1 : items[j] \notin set

LEMMA AmongHolds ==
  ASSUME NEW S, NEW items \in Seq(S), NEW set
  PROVE  /\ Among(items, set) \in Seq(S)
         /\ ToSet(Among(items, set)) = ToSet(items) \cap set
         /\ \A i \in DOMAIN items : FirstIn(items, set, i) =>
              Among(items, set) # <<>> /\ Head(Among(items, set)) = items[i]
<1> DEFINE N == Len(items)
           Next1(f, n) == IF n = 0 THEN <<>>
                          ELSE IF items[n] \in set THEN Append(f[n-1], items[n]) ELSE f[n-1]
           Upto(f, m) == f = [n \in 0..m |-> Next1(f, n)]
<1>1. N \in Nat /\ DOMAIN items = 1..N /\ \A i \in 1..N : items[i] \in S
  OBVIOUS
<1>2. \A m \in Nat : \E f : Upto(f, m)
  <2> DEFINE Ms == {m \in Nat : \E f : Upto(f, m)}
  <2>1. 0 \in Ms
    <3> DEFINE g == [n \in 0..0 |-> <<>>]
    <3>1. Upto(g, 0)
      OBVIOUS
    <3> QED BY <3>1, Zenon
  <2>2. ASSUME NEW m \in Nat, m \in Ms PROVE m + 1 \in Ms
    <3>1. PICK f : Upto(f, m)
      BY <2>2
    <3> DEFINE g == [n \in 0..m + 1 |-> IF n <= m THEN f[n] ELSE Next1(f, n)]
    <3>2. \A n \in 0..m : f[n] = Next1(f, n)
      <4> HIDE DEF Next1
      <4> QED BY <3>1
    <3>3. \A n \in 0..m : g[n] = f[n]
      <4> HIDE DEF Next1
      <4> QED OBVIOUS
    <3>4. g[m + 1] = Next1(f, m + 1)
      <4> HIDE DEF Next1
      <4> QED OBVIOUS
    <3>5. \A n \in 0..m + 1 : Next1(g, n) = Next1(f, n)
      <4> HIDE DEF g
      <4> QED BY <3>3
    <3> HIDE DEF Next1
    <3>6. \A n \in 0..m + 1 : g[n] = Next1(g, n)
      <4> HIDE DEF g
      <4> QED BY <3>2, <3>3, <3>4, <3>5
    <3>7. g = [n \in 0..m + 1 |-> Next1(g, n)]
      <4>1. g = [n \in 0..m + 1 |-> g[n]]
        OBVIOUS
      <4> HIDE DEF g
      <4> QED BY <3>6, <4>1
    <3> HIDE DEF g
    <3>8. \E h : Upto(h, m + 1)
      BY <3>7, Zenon
    <3> HIDE DEF Upto
    <3> QED BY <3>8
  <2> HIDE DEF Ms
  <2>3. \A m \in Nat : m \in Ms
    BY <2>1, <2>2, Induct
  <2> QED BY <2>3 DEF Ms
<1> DEFINE F == CHOOSE f : Upto(f, N)
<1>3. Upto(F, N)
  BY <1>1, <1>2, Zenon
<1>4. Among(items, set) = F[N]
  BY Zenon DEF Among
<1> HIDE DEF F
<1>5. /\ F[0] = <<>>
      /\ \A n \in 1..N : F[n] = IF items[n] \in set THEN Append(F[n-1], items[n]) ELSE F[n-1]
  <2>1. \A n \in 0..N : F[n] = Next1(F, n)
    <3> HIDE DEF Next1
    <3> QED BY <1>3
  <2> QED BY <1>1, <2>1
<1> DEFINE Good(m) ==
      /\ F[m] \in Seq(S)
      /\ ToSet(F[m]) = {items[i] : i \in 1..m} \cap set
      /\ \A i \in 1..m : FirstIn(items, set, i) => F[m] # <<>> /\ Head(F[m]) = items[i]
           Goods == {m \in Nat : m <= N => Good(m)}
<1>6. 0 \in Goods
  <2>1. F[0] = <<>> /\ <<>> \in Seq(S) /\ ToSet(<<>>) = {} /\ 1..0 = {}
    BY <1>5 DEF ToSet
  <2>2. {items[i] : i \in 1..0} = {}
    BY <2>1
  <2> QED BY <2>1, <2>2
<1>7. ASSUME NEW m \in Nat, m \in Goods PROVE m + 1 \in Goods
  <2> SUFFICES ASSUME m + 1 <= N PROVE Good(m + 1)
    OBVIOUS
  <2>1. Good(m) /\ m + 1 \in 1..N /\ (m + 1) - 1 = m
    BY <1>1, <1>7
  <2>2. items[m + 1] \in S
    BY <1>1, <2>1
  <2>3. F[m + 1] = IF items[m + 1] \in set THEN Append(F[m], items[m + 1]) ELSE F[m]
    BY <1>5, <2>1
  <2>4. {items[i] : i \in 1..m + 1} = {items[i] : i \in 1..m} \cup {items[m + 1]}
    <3>1. 1..m + 1 = (1..m) \cup {m + 1}
      OBVIOUS
    <3> QED BY <3>1
  <2>5. CASE items[m + 1] \in set
    <3>1. /\ F[m + 1] \in Seq(S) /\ F[m + 1] # <<>>
          /\ ToSet(F[m + 1]) = ToSet(F[m]) \cup {items[m + 1]}
          /\ Head(F[m + 1]) = IF F[m] = <<>> THEN items[m + 1] ELSE Head(F[m])
      BY <2>1, <2>2, <2>3, <2>5, AppendedRanges
    <3>2. ToSet(F[m + 1]) = {items[i] : i \in 1..m + 1} \cap set
      BY <2>1, <2>4, <2>5, <3>1
    <3>3. ASSUME NEW i \in 1..m + 1, FirstIn(items, set, i) PROVE Head(F[m + 1]) = items[i]
      <4>1. CASE i \in 1..m
        BY <2>1, <3>1, <3>3, <4>1
      <4>2. CASE i = m + 1
        <5>1. \A j \in 1..m : items[j] \notin set
          BY <3>3, <4>2 DEF FirstIn
        <5>2. ToSet(F[m]) = {}
          BY <2>1, <5>1
        <5>3. F[m] = <<>>
          BY <2>1, <5>2, Ranges
        <5> QED BY <3>1, <4>2, <5>3
      <4> QED BY <4>1, <4>2
    <3> QED BY <3>1, <3>2, <3>3
  <2>6. CASE items[m + 1] \notin set
    <3>1. F[m + 1] = F[m]
      BY <2>3, <2>6
    <3>2. ToSet(F[m + 1]) = {items[i] : i \in 1..m + 1} \cap set
      BY <2>1, <2>4, <2>6, <3>1
    <3>3. ASSUME NEW i \in 1..m + 1, FirstIn(items, set, i) PROVE i \in 1..m
      BY <2>6, <3>3 DEF FirstIn
    <3> QED BY <2>1, <3>1, <3>2, <3>3
  <2> QED BY <2>5, <2>6
<1> HIDE DEF Goods, Good
<1>8. N \in Goods
  BY <1>1, <1>6, <1>7, Induct
<1>9. Good(N)
  BY <1>1, <1>8 DEF Goods
<1> QED BY <1>1, <1>4, <1>9 DEF Good, ToSet

-----------------------------------------------------------------------------
(* Discovery: the choice of one candidate of a kind. *)

FoundType == [url : Locators, kind : ToSet(Kinds), drm : BOOLEAN]

LEMMA EveryKind ==
  ToSet(Kinds) = {"video", "live_stream", "audio", "gallery", "image", "document", "subtitle",
                  "unknown", "page"}
<1>1. Len(Kinds) = 9 /\ DOMAIN Kinds = 1..9
  BY DEF Kinds
<1>2. 1..9 = {1, 2, 3, 4, 5, 6, 7, 8, 9}
  OBVIOUS
<1>3. ToSet(Kinds) = {Kinds[1], Kinds[2], Kinds[3], Kinds[4], Kinds[5], Kinds[6], Kinds[7],
                      Kinds[8], Kinds[9]}
  BY <1>1, <1>2 DEF ToSet
<1>4. /\ Kinds[1] = "video" /\ Kinds[2] = "live_stream" /\ Kinds[3] = "audio"
      /\ Kinds[4] = "gallery" /\ Kinds[5] = "image" /\ Kinds[6] = "document"
      /\ Kinds[7] = "subtitle" /\ Kinds[8] = "unknown" /\ Kinds[9] = "page"
  BY DEF Kinds
<1> QED BY <1>3, <1>4

LEMMA KindsAreASequence == Kinds \in Seq(ToSet(Kinds))
<1> DEFINE S == ToSet(Kinds)
<1>1. {"video", "live_stream", "audio", "gallery", "image", "document", "subtitle", "unknown", "page"}
      \subseteq S
  BY EveryKind
<1> HIDE DEF S
<1>2. Kinds \in Seq(S)
  BY <1>1 DEF Kinds
<1> QED BY <1>2 DEF S

\* The first of a kind is one of it, and clear where one of the kind is clear.
LEMMA FirstOfKind ==
  ASSUME NEW S, NEW candidates \in Seq(S), NEW kind,
         \E c \in ToSet(candidates) : c.kind = kind
  PROVE  /\ FirstOf(kind, candidates) \in ToSet(candidates)
         /\ FirstOf(kind, candidates).kind = kind
         /\ FirstOf(kind, candidates).drm =>
              \A c \in ToSet(candidates) : c.kind = kind => c.drm
<1> DEFINE all  == OfKind(candidates, {kind})
           pool == IF Clear(all) = <<>> THEN all ELSE Clear(all)
           first == IF kind = "live_stream" /\ Named(pool) # <<>> THEN Head(Named(pool)) ELSE Head(pool)
<1>1. FirstOf(kind, candidates) = first
  BY DEF FirstOf
<1>2. /\ all \in Seq(S)
      /\ ToSet(all) = {c \in ToSet(candidates) : c.kind = kind}
  BY AmongHolds DEF OfKind
<1> HIDE DEF all
<1>3. all # <<>>
  <2>1. ToSet(all) # {}
    BY <1>2
  <2> QED BY <1>2, <2>1, Ranges
<1>4. Clear(all) \in Seq(S) /\ ToSet(Clear(all)) = {c \in ToSet(all) : ~c.drm}
  BY <1>2, AmongHolds DEF Clear
<1>5. pool \in Seq(S) /\ pool # <<>> /\ ToSet(pool) \subseteq ToSet(all)
  BY <1>2, <1>3, <1>4
<1>6. \A c \in ToSet(pool) : c.drm => \A d \in ToSet(all) : d.drm
  BY <1>2, <1>4, Ranges
<1> HIDE DEF pool
<1>7. Named(pool) \in Seq(S) /\ ToSet(Named(pool)) \subseteq ToSet(pool)
  BY <1>5, AmongHolds DEF Named
<1>8. first \in ToSet(pool)
  <2>1. Head(pool) \in ToSet(pool)
    BY <1>5, Ranges
  <2>2. Named(pool) # <<>> => Head(Named(pool)) \in ToSet(Named(pool))
    BY <1>7, Ranges
  <2> QED BY <1>7, <2>1, <2>2
<1> HIDE DEF first
<1> QED BY <1>1, <1>2, <1>5, <1>6, <1>8

\* Where there are only pages, the first clear one.
LEMMA FirstPage ==
  ASSUME NEW S, NEW candidates \in Seq(S), candidates # <<>>,
         \A c \in ToSet(candidates) : c.kind = "page"
  PROVE  \E d \in ToSet(candidates) :
           /\ Preferred(candidates) = <<d>>
           /\ d.drm => \A c \in ToSet(candidates) : c.drm
<1> DEFINE pool == IF Clear(candidates) = <<>> THEN candidates ELSE Clear(candidates)
           IsBest(i) == \A j \in 1..Len(pool) :
                          \/ Rank(pool[i].kind) < Rank(pool[j].kind)
                          \/ Rank(pool[i].kind) = Rank(pool[j].kind) /\ i <= j
           best == CHOOSE i \in 1..Len(pool) : IsBest(i)
<1>1. Preferred(candidates) = <<pool[best]>>
  BY Zenon DEF Preferred
<1>2. Clear(candidates) \in Seq(S) /\ ToSet(Clear(candidates)) = {c \in ToSet(candidates) : ~c.drm}
  BY AmongHolds DEF Clear
<1>3. pool \in Seq(S) /\ pool # <<>> /\ ToSet(pool) \subseteq ToSet(candidates)
  BY <1>2
<1>4. \A c \in ToSet(pool) : c.drm => \A d \in ToSet(candidates) : d.drm
  BY <1>2, Ranges
<1> HIDE DEF pool
<1>5. Len(pool) \in Nat /\ 1 \in 1..Len(pool) /\ DOMAIN pool = 1..Len(pool)
  BY <1>3
<1>6. \A i \in 1..Len(pool) : pool[i] \in ToSet(pool) /\ pool[i].kind = "page"
  BY <1>3, <1>5 DEF ToSet
<1>7. IsBest(1)
  BY <1>5, <1>6
<1> HIDE DEF IsBest
<1>8. best \in 1..Len(pool)
  BY <1>5, <1>7, Zenon
<1> HIDE DEF best
<1> QED BY <1>1, <1>3, <1>4, <1>6, <1>8

\* Of every kind something is chosen, and clear where something is.
LEMMA ChoiceHolds ==
  ASSUME NEW candidates \in Seq(FoundType), candidates # <<>>
  PROVE  LET all == ToSet(candidates)
             picked == {PreferredByKind(candidates)[i] : i \in 1..Len(PreferredByKind(candidates))}
         IN  /\ \A d \in picked : d.drm => \A c \in all : c.kind = d.kind => c.drm
             /\ \A c \in all : c.kind # "page" => \E d \in picked : SameKind(d, c.kind)
<1> DEFINE all    == ToSet(candidates)
           kinds  == {candidates[i].kind : i \in 1..Len(candidates)} \ {"page"}
           kept   == IF "gallery" \in kinds THEN kinds \ {"image"} ELSE kinds
           ranked == Among(Kinds, kept)
           choice == [i \in 1..Len(ranked) |-> FirstOf(ranked[i], candidates)]
           picked == {PreferredByKind(candidates)[i] : i \in 1..Len(PreferredByKind(candidates))}
<1>1. PreferredByKind(candidates) = IF kinds = {} THEN Preferred(candidates) ELSE choice
  BY DEF PreferredByKind
<1> HIDE DEF ranked, choice
<1>2. /\ DOMAIN candidates = 1..Len(candidates)
      /\ kinds = {c.kind : c \in all} \ {"page"}
      /\ \A c \in all : c.kind \in ToSet(Kinds)
  <2>1. DOMAIN candidates = 1..Len(candidates)
    OBVIOUS
  <2>2. all = {candidates[i] : i \in 1..Len(candidates)}
    BY <2>1 DEF ToSet
  <2>3. {candidates[i].kind : i \in 1..Len(candidates)} = {c.kind : c \in all}
    BY <2>2
  <2>4. all \subseteq FoundType
    BY Ranges
  <2>5. \A c \in all : c.kind \in ToSet(Kinds)
    <3> HIDE DEF all
    <3> QED BY <2>4 DEF FoundType
  <2> QED BY <2>1, <2>3, <2>5
<1>3. CASE kinds = {}
  <2>1. \A c \in all : c.kind = "page"
    BY <1>2, <1>3
  <2>2. PICK d \in all : /\ Preferred(candidates) = <<d>>
                         /\ d.drm => \A c \in all : c.drm
    BY <2>1, FirstPage
  <2>3. PreferredByKind(candidates) = <<d>>
    BY <1>1, <1>3, <2>2
  <2>4. picked = {d}
    BY <2>3
  <2> QED BY <2>1, <2>2, <2>4
<1>4. CASE kinds # {}
  <2> HIDE DEF kinds
  <2> USE DEF ranked, choice
  <2>1. ranked \in Seq(ToSet(Kinds)) /\ ToSet(ranked) = kept
    <3>1. kept \subseteq ToSet(Kinds)
      <4>1. kinds \subseteq ToSet(Kinds)
        BY <1>2
      <4> QED BY <4>1
    <3> HIDE DEF kept
    <3>2. /\ Among(Kinds, kept) \in Seq(ToSet(Kinds))
          /\ ToSet(Among(Kinds, kept)) = ToSet(Kinds) \cap kept
      BY AmongHolds, KindsAreASequence
    <3> QED BY <3>1, <3>2
  <2> HIDE DEF ranked
  <2>2. DOMAIN ranked = 1..Len(ranked) /\ Len(ranked) \in Nat
    BY <2>1
  <2>3. PreferredByKind(candidates) = choice
    BY <1>1, <1>4
  <2>4. Len(choice) = Len(ranked) /\ \A i \in 1..Len(ranked) : choice[i] = FirstOf(ranked[i], candidates)
    BY <2>2
  <2> HIDE DEF choice
  <2>5. picked = {FirstOf(kind, candidates) : kind \in kept}
    <3>1. picked = {FirstOf(ranked[i], candidates) : i \in 1..Len(ranked)}
      BY <2>3, <2>4
    <3>2. kept = {ranked[i] : i \in 1..Len(ranked)}
      BY <2>1, <2>2 DEF ToSet
    <3> HIDE DEF picked, kept
    <3> QED BY <3>1, <3>2
  <2>6. kept \subseteq kinds /\ \A kind \in kinds \ kept : kind = "image" /\ "gallery" \in kept
    OBVIOUS
  <2>7. ASSUME NEW kind \in kept PROVE \E c \in all : c.kind = kind
    BY <1>2, <2>6
  <2> HIDE DEF picked, kept
  <2>8. \A kind \in kept : /\ FirstOf(kind, candidates).kind = kind
                           /\ FirstOf(kind, candidates).drm => \A c \in all : c.kind = kind => c.drm
    BY <2>7, FirstOfKind
  <2>9. \A d \in picked : d.drm => \A c \in all : c.kind = d.kind => c.drm
    BY <2>5, <2>8
  <2>10. ASSUME NEW c \in all, c.kind # "page" PROVE \E d \in picked : SameKind(d, c.kind)
    <3>1. c.kind \in kinds
      BY <1>2, <2>10
    <3>2. CASE c.kind \in kept
      BY <2>5, <2>8, <3>2 DEF SameKind
    <3>3. CASE c.kind \notin kept
      <4>1. c.kind = "image" /\ FirstOf("gallery", candidates) \in picked
            /\ FirstOf("gallery", candidates).kind = "gallery"
        BY <2>5, <2>6, <2>8, <3>1, <3>3
      <4> QED BY <4>1 DEF SameKind
    <3> QED BY <3>2, <3>3
  <2> QED BY <2>9, <2>10 DEF picked
<1> QED BY <1>3, <1>4

-----------------------------------------------------------------------------
(* Discovery: the invariant. *)

Mentions == [url : Locators, kind : ToSet(Kinds), by : {"element", "property", "browser", "block"}]

PageTyped ==
  /\ sample \in Sample /\ page \in Locators /\ marked \in BOOLEAN
  /\ step \in {"fetch", "parse", "seed", "urls", "jsonld", "found", "done", "failed"}
  /\ inside \in [picture : BOOLEAN, video : BOOLEAN, audio : BOOLEAN, object : Int]
  /\ open \in Seq(Containers \cup {"object"})
  /\ urls \in Seq(Namings) /\ evidence \in Seq(Namings) /\ blocks \in Seq(Members)
  /\ found \in Seq(FoundType)
  /\ said \subseteq Mentions

\* The parser's flags say what is open, and of two open containers the inner one
\* is a picture in a video or an audio.
Nesting ==
  /\ inside.picture <=> "picture" \in ToSet(open)
  /\ inside.video <=> "video" \in ToSet(open)
  /\ inside.audio <=> "audio" \in ToSet(open)
  /\ \A i, j \in DOMAIN open :
       i < j /\ open[i] \in Containers /\ open[j] \in Containers =>
         open[i] = "picture" /\ open[j] # "picture"

\* What is begun, and when.
Order ==
  /\ step \in {"fetch", "jsonld", "found", "done"} => urls = <<>>
  /\ step \in {"fetch", "parse", "seed"} => seen = {} /\ found = <<>>
  /\ step = "found" => found # <<>>
  /\ step # "done" => chosen = <<>>

\* What is said of media is still to be read, or seen.
Media(m) == m.url.usable /\ ~m.url.script /\ KindOrGuess(m.url, m.kind) # None
Waiting(m) == m.by \in {"element", "property"} /\ Mention(m.url, m.kind) \in ToSet(urls)
SaidIsHeard ==
  /\ \A m \in said : Media(m) => Waiting(m) \/ m.url \in seen
  /\ \A u \in ToSet(urls) : \E m \in said : m.url = u.url /\ m.kind = u.kind

\* What is seen is found, as a kind it was said to be.
Serves(c, url) == /\ c.url = url
                  /\ \/ c.kind \in KindsOf(url)
                     \/ c.kind = "page" /\ FirstNamedAsPage(url)
SeenIsFound == \A url \in seen : \E c \in ToSet(found) : Serves(c, url)

MarkedIsKept == step \in {"urls", "jsonld"} /\ marked => \A c \in ToSet(found) : c.drm

\* What was found is chosen from.
ChosenHolds ==
  step = "done" =>
    /\ ClearIsPreferred
    /\ \A c \in ToSet(found) : c.kind # "page" => \E d \in Chosen : SameKind(d, c.kind)

PageInv ==
  /\ PageTyped /\ Nesting /\ Order /\ SaidIsHeard /\ SeenIsFound /\ MarkedIsKept /\ ChosenHolds

-----------------------------------------------------------------------------
(* Discovery: the kinds. *)

LEMMA LocatorParts ==
  ASSUME NEW url \in Locators
  PROVE  /\ url.suffix \in ToSet(Kinds) /\ url.suffix # "unknown"
         /\ url.script \in BOOLEAN /\ url.usable \in BOOLEAN /\ url.marked \in BOOLEAN
BY DiscoveryAssumption

LEMMA KindsAreKinds ==
  ASSUME NEW url \in Locators, NEW kind \in ToSet(Kinds)
  PROVE  /\ KindOrGuess(url, kind) # None =>
              KindOrGuess(url, kind) \in ToSet(Kinds) /\ KindOrGuess(url, kind) # "page"
         /\ KindOrGuess(url, kind) = None => url.suffix = "page"
         /\ KindOfEvidence(url, kind) \in ToSet(Kinds)
         /\ KindOfEvidence(url, kind) = IF KindOrGuess(url, kind) = None THEN "page"
                                        ELSE KindOrGuess(url, kind)
<1>1. url.suffix \in ToSet(Kinds) /\ "subtitle" \in ToSet(Kinds) /\ None \notin ToSet(Kinds)
  BY LocatorParts, EveryKind, DiscoveryAssumption
<1>2. CASE kind = "subtitle"
  BY <1>1, <1>2 DEF KindOrGuess, KindOfEvidence
<1>3. CASE kind # "subtitle" /\ url.suffix # "page"
  BY <1>1, <1>3 DEF KindOrGuess, KindOfEvidence
<1>4. CASE kind \in {"unknown", "page"} /\ url.suffix = "page"
  <2>1. KindOrGuess(url, kind) = None
    BY <1>4 DEF KindOrGuess
  <2> QED BY <1>1, <1>4, <2>1 DEF KindOfEvidence
<1>5. CASE kind \notin {"subtitle", "unknown", "page"} /\ url.suffix = "page"
  <2>1. KindOrGuess(url, kind) = kind
    BY <1>5 DEF KindOrGuess
  <2> QED BY <1>1, <1>5, <2>1 DEF KindOfEvidence
<1> QED BY <1>2, <1>3, <1>4, <1>5

\* What a block says is read as it says it.
LEMMA BlockKinds ==
  ASSUME NEW url \in Locators, NEW type
  PROVE  /\ KindOfBlock(url, type) \in ToSet(Kinds)
         /\ KindOfBlock(url, type) = "page" => KindOrGuess(url, "page") = None
         /\ KindOfBlock(url, type) # "page" =>
              KindOrGuess(url, KindOfBlock(url, type)) = KindOfBlock(url, type)
<1>1. url.suffix \in ToSet(Kinds) /\ url.suffix # "unknown"
      /\ {"video", "audio", "image", "page"} \subseteq ToSet(Kinds)
  BY LocatorParts, EveryKind
<1>2. CASE url.suffix # "page"
  <2>1. KindOfBlock(url, type) = url.suffix
    BY <1>2 DEF KindOfBlock
  <2>2. KindOrGuess(url, url.suffix) = url.suffix
    BY <1>2 DEF KindOrGuess
  <2> QED BY <1>1, <1>2, <2>1, <2>2
<1>3. CASE url.suffix = "page"
  <2>1. KindOfBlock(url, type) \in {"video", "audio", "image", "page"}
    BY <1>3 DEF KindOfBlock
  <2>2. \A kind \in {"video", "audio", "image"} : KindOrGuess(url, kind) = kind
    BY <1>3 DEF KindOrGuess
  <2>3. KindOrGuess(url, "page") = None
    BY <1>3 DEF KindOrGuess
  <2> QED BY <1>1, <2>1, <2>2, <2>3
<1> QED BY <1>2, <1>3

\* What the browser says of a page that is read.
LEMMA SeedsHold ==
  ASSUME NEW items \in Seq(Namings)
  PROVE  /\ Seeds(items) \in Seq(FoundType)
         /\ \A c \in ToSet(Seeds(items)) : \E e \in ToSet(items) :
              /\ e.url.usable /\ ~e.url.script
              /\ c = Candidate(e.url, KindOfEvidence(e.url, e.kind), e.url.marked)
         /\ \A e \in ToSet(items) : e.url.usable /\ ~e.url.script =>
              \E c \in ToSet(Seeds(items)) : c.url = e.url
<1> DEFINE kept == Among(items, {e \in ToSet(items) : e.url.usable /\ ~e.url.script})
           Seeded(e) == Candidate(e.url, KindOfEvidence(e.url, e.kind), e.url.marked)
<1>1. kept \in Seq(Namings) /\ ToSet(kept) = {e \in ToSet(items) : e.url.usable /\ ~e.url.script}
  BY AmongHolds
<1> HIDE DEF kept
<1>2. Len(kept) \in Nat /\ DOMAIN kept = 1..Len(kept) /\ \A i \in 1..Len(kept) : kept[i] \in Namings
  BY <1>1
<1>3. Seeds(items) = [i \in 1..Len(kept) |-> Seeded(kept[i])]
  BY Zenon DEF Seeds, kept
<1>4. \A e \in Namings : Seeded(e) \in FoundType /\ Seeded(e).url = e.url
  BY KindsAreKinds, LocatorParts DEF Namings, FoundType, Candidate
<1> HIDE DEF Seeded
<1>5. DOMAIN Seeds(items) = 1..Len(kept) /\ \A i \in 1..Len(kept) : Seeds(items)[i] = Seeded(kept[i])
  BY <1>3
<1>6. Seeds(items) \in Seq(FoundType)
  BY <1>2, <1>3, <1>4
<1>7. ToSet(Seeds(items)) = {Seeded(e) : e \in ToSet(kept)}
  BY <1>2, <1>5 DEF ToSet
<1>8. ToSet(items) \subseteq Namings
  BY Ranges
<1> QED BY <1>1, <1>4, <1>6, <1>7, <1>8 DEF Seeded

\* The yt-dlp manifest becomes candidates.
LEMMA ManifestHolds ==
  ASSUME NEW items \in Seq(Entries)
  PROVE  FromManifest(items) \in Seq(FoundType)
<1> DEFINE usable == Among(items, {f \in ToSet(items) : f.url.usable})
           Kind(f) == CASE f.live \/ f.url.suffix = "live_stream" -> "live_stream"
                        [] ~f.live /\ f.url.suffix = "page" -> "video"
                        [] OTHER -> f.url.suffix
<1>1. usable \in Seq(Entries)
  BY AmongHolds
<1> HIDE DEF usable
<1>2. Len(usable) \in Nat /\ \A i \in 1..Len(usable) : usable[i] \in Entries
  BY <1>1
<1>3. FromManifest(items) = [i \in 1..Len(usable) |->
                               Candidate(usable[i].url, Kind(usable[i]), usable[i].drm)]
  BY DEF FromManifest, usable
<1>4. \A f \in Entries : Kind(f) \in ToSet(Kinds)
  <2> SUFFICES ASSUME NEW f \in Entries PROVE Kind(f) \in ToSet(Kinds)
    OBVIOUS
  <2>1. f.url.suffix \in ToSet(Kinds) /\ {"live_stream", "video"} \subseteq ToSet(Kinds)
    BY LocatorParts, EveryKind DEF Entries
  <2>2. Kind(f) \in {"live_stream", "video", f.url.suffix}
    OBVIOUS
  <2> QED BY <2>1, <2>2
<1> HIDE DEF Kind
<1>5. \A f \in Entries : Candidate(f.url, Kind(f), f.drm) \in FoundType
  BY <1>4 DEF Candidate, FoundType, Entries
<1>6. \A i \in 1..Len(usable) : Candidate(usable[i].url, Kind(usable[i]), usable[i].drm) \in FoundType
  BY <1>2, <1>5
<1> QED BY <1>2, <1>3, <1>6

-----------------------------------------------------------------------------
(* Discovery: the parser. *)

LEMMA SampleParts ==
  ASSUME sample \in Sample
  PROVE  /\ sample.pages \subseteq Locators /\ sample.elements \subseteq Tags
         /\ sample.evidence \subseteq Seq(Namings) /\ sample.properties \subseteq Seq(Namings)
         /\ sample.blocks \subseteq Seq(Members) /\ sample.formats \subseteq Seq(Entries)
BY DEF Sample

LEMMA PageInitHolds == PageInit => PageInv
<1> SUFFICES ASSUME PageInit PROVE PageInv
  OBVIOUS
<1>1. sample \in Sample
  BY DiscoveryAssumption DEF PageInit
<1>2. PageTyped
  BY <1>1, SampleParts DEF PageInit, PageTyped, Outside
<1>3. ToSet(open) = {} /\ ToSet(found) = {} /\ DOMAIN open = {}
  BY DEF PageInit, ToSet
<1>4. Nesting
  BY <1>3 DEF PageInit, Nesting, Outside
<1>5. Order /\ SaidIsHeard /\ SeenIsFound /\ MarkedIsKept /\ ChosenHolds
  BY DEF PageInit, ToSet, Order, SaidIsHeard, SeenIsFound, MarkedIsKept, ChosenHolds
<1> QED BY <1>2, <1>4, <1>5 DEF PageInv

\* In nested containers a source has the kind of the innermost.
LEMMA MeantIsRead ==
  ASSUME PageTyped, Nesting, NEW tag \in {"source", "img"}, NEW mime
  PROVE  Meant(tag, mime) = ElementKind(tag, mime)
<1>1. CASE mime # None
  BY <1>1 DEF Meant, ElementKind
<1>2. CASE mime = None /\ tag # "source"
  BY <1>2 DEF Meant, ElementKind
<1>3. CASE mime = None /\ tag = "source"
  <2> DEFINE around == Among(open, Containers)
  <2>1. /\ around \in Seq(Containers \cup {"object"})
        /\ ToSet(around) = ToSet(open) \cap Containers
        /\ \A i \in DOMAIN open : FirstIn(open, Containers, i) =>
             around # <<>> /\ Head(around) = open[i]
    BY AmongHolds DEF PageTyped
  <2>2. Meant(tag, mime) = IF around = <<>> THEN "unknown" ELSE KindOfTag[Head(around)]
    BY <1>3 DEF Meant
  <2> HIDE DEF around
  <2>3. DOMAIN open = 1..Len(open) /\ Len(open) \in Nat /\ ToSet(open) = {open[i] : i \in DOMAIN open}
    BY DEF PageTyped, ToSet
  <2>4. CASE inside.picture
    <3>1. PICK i \in DOMAIN open : open[i] = "picture"
      BY <2>3, <2>4 DEF Nesting
    <3>2. \A j \in 1..i - 1 : open[j] \notin Containers
      BY <2>3, <3>1 DEF Nesting, Containers
    <3>3. around # <<>> /\ Head(around) = "picture"
      BY <2>1, <3>1, <3>2 DEF FirstIn, Containers
    <3>4. Meant(tag, mime) = "image"
      BY <2>2, <3>3 DEF KindOfTag
    <3>5. ElementKind(tag, mime) = "image"
      BY <1>3, <2>4 DEF ElementKind
    <3> QED BY <3>4, <3>5
  <2>5. CASE ~inside.picture /\ inside.audio
    <3>1. PICK i \in DOMAIN open : open[i] = "audio"
      BY <2>3, <2>5 DEF Nesting
    <3>2. \A j \in 1..i - 1 : open[j] \notin Containers
      BY <2>3, <2>5, <3>1 DEF Nesting, Containers
    <3>3. around # <<>> /\ Head(around) = "audio"
      BY <2>1, <3>1, <3>2 DEF FirstIn, Containers
    <3>4. Meant(tag, mime) = "audio"
      BY <2>2, <3>3 DEF KindOfTag
    <3>5. ElementKind(tag, mime) = "audio"
      BY <1>3, <2>5 DEF ElementKind
    <3> QED BY <3>4, <3>5
  <2>6. CASE ~inside.picture /\ ~inside.audio /\ inside.video
    <3>1. PICK i \in DOMAIN open : open[i] = "video"
      BY <2>3, <2>6 DEF Nesting
    <3>2. \A j \in 1..i - 1 : open[j] \notin Containers
      BY <2>3, <2>6, <3>1 DEF Nesting, Containers
    <3>3. around # <<>> /\ Head(around) = "video"
      BY <2>1, <3>1, <3>2 DEF FirstIn, Containers
    <3>4. Meant(tag, mime) = "video"
      BY <2>2, <3>3 DEF KindOfTag
    <3>5. ElementKind(tag, mime) = "video"
      BY <1>3, <2>6 DEF ElementKind
    <3> QED BY <3>4, <3>5
  <2>7. CASE ~inside.picture /\ ~inside.audio /\ ~inside.video
    <3>1. ToSet(around) = {}
      BY <2>1, <2>7 DEF Nesting, Containers
    <3>2. around = <<>>
      BY <2>1, <3>1, Ranges
    <3>3. ElementKind(tag, mime) = "unknown"
      BY <1>3, <2>7 DEF ElementKind
    <3> QED BY <2>2, <3>2, <3>3
  <2> QED BY <2>4, <2>5, <2>6, <2>7
<1> QED BY <1>1, <1>2, <1>3

LEMMA KindsOfElements ==
  ASSUME PageTyped, NEW tag \in Containers \cup {"source", "img"}, NEW mime \in ToSet(Kinds) \cup {None}
  PROVE  ElementKind(tag, mime) \in ToSet(Kinds)
<1>1. {"image", "video", "audio", "unknown"} \subseteq ToSet(Kinds)
  BY EveryKind
<1>2. CASE mime # None
  BY <1>2 DEF ElementKind
<1>3. CASE mime = None /\ tag # "source"
  <2>1. ElementKind(tag, mime) = KindOfTag[tag]
    BY <1>3 DEF ElementKind
  <2>2. KindOfTag[tag] \in {"image", "video", "audio"}
    BY <1>3 DEF KindOfTag, Containers
  <2> QED BY <1>1, <2>1, <2>2
<1>4. CASE mime = None /\ tag = "source"
  BY <1>1, <1>4 DEF ElementKind
<1> QED BY <1>2, <1>3, <1>4

\* What an element of the page leaves to be read.
LEMMA ParseKeeps ==
  ASSUME PageInv, step = "parse", UNCHANGED <<job, step, evidence, blocks, seen, found, chosen>>,
         open' \in Seq(Containers \cup {"object"}),
         inside' \in [picture : BOOLEAN, video : BOOLEAN, audio : BOOLEAN, object : Int],
         Nesting',
         \/ UNCHANGED <<urls, said>>
         \/ \E url \in Locators, kind \in ToSet(Kinds) : Says(url, kind, kind)
  PROVE  PageInv'
<1>1. /\ sample' = sample /\ page' = page /\ marked' = marked /\ step' = step /\ evidence' = evidence
      /\ blocks' = blocks /\ seen' = seen /\ found' = found /\ chosen' = chosen
  BY DEF job
<1>2. PageTyped /\ seen = {} /\ found = <<>> /\ chosen = <<>> /\ SaidIsHeard
  BY DEF PageInv, Order
<1>3. /\ urls' \in Seq(Namings) /\ said' \subseteq Mentions
      /\ SaidIsHeard'
  <2>1. CASE UNCHANGED <<urls, said>>
    BY <1>1, <1>2, <2>1 DEF PageTyped, SaidIsHeard, Media, Waiting
  <2>2. ASSUME NEW url \in Locators, NEW kind \in ToSet(Kinds), Says(url, kind, kind)
        PROVE  /\ urls' \in Seq(Namings) /\ said' \subseteq Mentions
               /\ SaidIsHeard'
    <3> DEFINE new == [url |-> url, kind |-> kind, by |-> "element"]
    <3>1. Mention(url, kind) \in Namings /\ new \in Mentions
      BY DEF Mention, Namings, Mentions
    <3>2. urls' = Append(urls, Mention(url, kind)) /\ said' = said \cup {new}
      <4>1. Said({Mention(url, kind)}, "element") = {new}
        BY DEF Said, Mention
      <4> QED BY <2>2, <4>1 DEF Says
    <3>3. urls \in Seq(Namings) /\ said \subseteq Mentions
      BY <1>2 DEF PageTyped
    <3>4. urls' \in Seq(Namings) /\ ToSet(urls') = ToSet(urls) \cup {Mention(url, kind)}
      BY <3>1, <3>2, <3>3, AppendedRanges
    <3>5. \A m \in said : Media(m) => Waiting(m)
      BY <1>2 DEF SaidIsHeard
    <3>6. \A m \in said : Waiting(m) => Waiting(m)'
      BY <3>4 DEF Waiting
    <3>7. Waiting(new)'
      BY <3>4 DEF Waiting
    <3>8. \A u \in ToSet(urls') : \E m \in said' : m.url = u.url /\ m.kind = u.kind
      <4>1. \A u \in ToSet(urls) : \E m \in said : m.url = u.url /\ m.kind = u.kind
        BY <1>2 DEF SaidIsHeard
      <4>2. new.url = Mention(url, kind).url /\ new.kind = Mention(url, kind).kind
        BY DEF Mention
      <4> QED BY <3>2, <3>4, <4>1, <4>2
    <3>9. SaidIsHeard'
      BY <3>2, <3>5, <3>6, <3>7, <3>8 DEF SaidIsHeard, Media
    <3> QED BY <3>1, <3>2, <3>3, <3>4, <3>9
  <2> QED BY <2>1, <2>2
<1>4. PageTyped'
  BY <1>1, <1>2, <1>3 DEF PageTyped
<1>5. Order' /\ SeenIsFound' /\ MarkedIsKept' /\ ChosenHolds'
  BY <1>1, <1>2 DEF PageInv, Order, SeenIsFound, MarkedIsKept, ChosenHolds
<1> QED BY <1>3, <1>4, <1>5 DEF PageInv

LEMMA OpenKeepsNesting ==
  ASSUME PageTyped, Nesting, NEW tag \in Containers \cup {"object"},
         open' = <<tag>> \o open,
         tag \in {"video", "audio"} => ToSet(open) \cap Containers = {},
         tag = "picture" => "picture" \notin ToSet(open),
         inside' = IF tag = "object" THEN [inside EXCEPT !.object = @ + 1]
                                     ELSE [inside EXCEPT ![tag] = TRUE]
  PROVE  /\ open' \in Seq(Containers \cup {"object"})
         /\ inside' \in [picture : BOOLEAN, video : BOOLEAN, audio : BOOLEAN, object : Int]
         /\ Nesting'
<1>1. /\ open \in Seq(Containers \cup {"object"})
      /\ inside \in [picture : BOOLEAN, video : BOOLEAN, audio : BOOLEAN, object : Int]
  BY DEF PageTyped
<1>2. /\ open' \in Seq(Containers \cup {"object"}) /\ ToSet(open') = {tag} \cup ToSet(open)
  <2>1. <<tag>> \in Seq(Containers \cup {"object"}) /\ ToSet(<<tag>>) = {tag}
    BY DEF ToSet
  <2> DEFINE one == <<tag>>
             Boxes == Containers \cup {"object"}
  <2>2. /\ one \in Seq(Boxes) /\ ToSet(one) = {tag} /\ open' = one \o open
        /\ open \in Seq(Boxes)
    BY <1>1, <2>1
  <2> HIDE DEF one, Boxes
  <2>3. one \o open \in Seq(Boxes) /\ ToSet(one \o open) = ToSet(one) \cup ToSet(open)
    BY ONLY <2>2, JoinedRanges
  <2>4. open' \in Seq(Boxes) /\ ToSet(open') = {tag} \cup ToSet(open)
    BY <2>2, <2>3
  <2> QED BY <2>4 DEF Boxes
<1>3. /\ inside' \in [picture : BOOLEAN, video : BOOLEAN, audio : BOOLEAN, object : Int]
      /\ inside'.picture = (inside.picture \/ tag = "picture")
      /\ inside'.video = (inside.video \/ tag = "video")
      /\ inside'.audio = (inside.audio \/ tag = "audio")
  <2>1. CASE tag = "object"
    BY <1>1, <2>1
  <2>2. CASE tag = "picture"
    BY <1>1, <2>2
  <2>3. CASE tag = "video"
    BY <1>1, <2>3
  <2>4. CASE tag = "audio"
    BY <1>1, <2>4
  <2> QED BY <2>1, <2>2, <2>3, <2>4 DEF Containers
<1>4. ASSUME NEW i \in DOMAIN open', NEW j \in DOMAIN open', i < j,
             open'[i] \in Containers, open'[j] \in Containers
      PROVE  open'[i] = "picture" /\ open'[j] # "picture"
  <2>1. /\ Len(open) \in Nat /\ DOMAIN open = 1..Len(open) /\ DOMAIN open' = 1..Len(open) + 1
        /\ \A k \in 2..Len(open) + 1 : open'[k] = open[k - 1]
        /\ open'[1] = tag
    BY <1>1
  <2>2. j - 1 \in DOMAIN open /\ open'[j] = open[j - 1] /\ open[j - 1] \in ToSet(open)
    BY <1>4, <2>1 DEF ToSet
  <2>3. CASE i = 1
    BY <1>4, <2>1, <2>2, <2>3 DEF Containers
  <2>4. CASE i # 1
    <3>1. i - 1 \in DOMAIN open /\ i - 1 < j - 1 /\ open'[i] = open[i - 1]
      BY <1>4, <2>1, <2>4
    <3> QED BY <1>4, <2>2, <3>1 DEF Nesting
  <2> QED BY <2>3, <2>4
<1>5. Nesting'
  BY <1>2, <1>3, <1>4 DEF Nesting
<1> QED BY <1>2, <1>3, <1>5

LEMMA CloseKeepsNesting ==
  ASSUME PageTyped, Nesting, open # <<>>, open' = Tail(open),
         inside' = IF Head(open) = "object" THEN [inside EXCEPT !.object = @ - 1]
                                            ELSE [inside EXCEPT ![Head(open)] = FALSE]
  PROVE  /\ open' \in Seq(Containers \cup {"object"})
         /\ inside' \in [picture : BOOLEAN, video : BOOLEAN, audio : BOOLEAN, object : Int]
         /\ Nesting'
<1>1. /\ open \in Seq(Containers \cup {"object"})
      /\ inside \in [picture : BOOLEAN, video : BOOLEAN, audio : BOOLEAN, object : Int]
  BY DEF PageTyped
<1> DEFINE tag == Head(open)
<1>2. /\ open' \in Seq(Containers \cup {"object"})
      /\ ToSet(open) = {tag} \cup ToSet(open')
      /\ tag \in Containers \cup {"object"} /\ tag = open[1]
  <2>1. /\ ToSet(open) \subseteq Containers \cup {"object"}
        /\ Head(open) = open[1] /\ Head(open) \in ToSet(open)
        /\ Tail(open) \in Seq(Containers \cup {"object"})
        /\ ToSet(open) = {Head(open)} \cup ToSet(Tail(open))
    BY <1>1, Ranges
  <2> QED BY <2>1
<1>3. /\ Len(open) \in Nat /\ DOMAIN open = 1..Len(open) /\ DOMAIN open' = 1..Len(open) - 1
      /\ \A k \in 1..Len(open) - 1 : open'[k] = open[k + 1]
  BY <1>1
<1>4. tag \in Containers => tag \notin ToSet(open')
  <2> SUFFICES ASSUME tag \in Containers, tag \in ToSet(open') PROVE FALSE
    OBVIOUS
  <2>1. PICK k \in 1..Len(open) - 1 : open[k + 1] = tag
    BY <1>3 DEF ToSet
  <2>2. 1 \in DOMAIN open /\ k + 1 \in DOMAIN open /\ 1 < k + 1
    BY <1>3
  <2> QED BY <1>2, <2>1, <2>2 DEF Nesting
<1> HIDE DEF tag
<1>5. inside' = IF tag = "object" THEN [inside EXCEPT !.object = @ - 1]
                                  ELSE [inside EXCEPT ![tag] = FALSE]
  BY DEF tag
<1>6. /\ inside' \in [picture : BOOLEAN, video : BOOLEAN, audio : BOOLEAN, object : Int]
      /\ inside'.picture = (inside.picture /\ tag # "picture")
      /\ inside'.video = (inside.video /\ tag # "video")
      /\ inside'.audio = (inside.audio /\ tag # "audio")
  <2>1. CASE tag = "object"
    <3>1. inside' = [inside EXCEPT !.object = @ - 1]
      BY <1>5, <2>1
    <3>2. inside.object - 1 \in Int
      BY <1>1
    <3>3. inside' \in [picture : BOOLEAN, video : BOOLEAN, audio : BOOLEAN, object : Int]
      BY <1>1, <3>1, <3>2
    <3>4. inside'.picture = inside.picture /\ inside'.video = inside.video /\ inside'.audio = inside.audio
      BY <1>1, <3>1
    <3> QED BY <1>1, <2>1, <3>3, <3>4
  <2>2. CASE tag = "picture"
    BY <1>1, <1>5, <2>2
  <2>3. CASE tag = "video"
    BY <1>1, <1>5, <2>3
  <2>4. CASE tag = "audio"
    BY <1>1, <1>5, <2>4
  <2> QED BY <1>2, <2>1, <2>2, <2>3, <2>4 DEF Containers
<1>7. ASSUME NEW i \in DOMAIN open', NEW j \in DOMAIN open', i < j,
             open'[i] \in Containers, open'[j] \in Containers
      PROVE  open'[i] = "picture" /\ open'[j] # "picture"
  <2>1. /\ i + 1 \in DOMAIN open /\ j + 1 \in DOMAIN open /\ i + 1 < j + 1
        /\ open'[i] = open[i + 1] /\ open'[j] = open[j + 1]
    BY <1>3, <1>7
  <2> QED BY <1>7, <2>1 DEF Nesting
<1>8. Nesting'
  BY <1>2, <1>4, <1>6, <1>7 DEF Nesting, Containers
<1> QED BY <1>2, <1>6, <1>8

LEMMA ElementKeeps ==
  ASSUME PageInv, NEW element \in sample.elements, Element(element)
  PROVE  PageInv'
<1> DEFINE Boxes == Containers \cup {"object"}
           Flags == [picture : BOOLEAN, video : BOOLEAN, audio : BOOLEAN, object : Int]
           mimes == ToSet(Kinds) \cup {None}
           Keeps == \/ UNCHANGED <<urls, said>>
                    \/ \E url \in Locators, kind \in ToSet(Kinds) : Says(url, kind, kind)
<1>1. PageTyped /\ Nesting /\ open \in Seq(Boxes) /\ inside \in Flags
  BY DEF PageInv, PageTyped
<1>2. /\ \/ element.tag \in Boxes
         \/ element.tag \in {"source", "img", "track", "a", "iframe", "param", "link", "itemprop", "close"}
      /\ element.tag \in Boxes =>
           element.url \in Locators \cup {None} /\ element.mime \in mimes
      /\ element.tag \in {"source", "img", "track", "a", "iframe", "param", "link", "itemprop"} =>
           element.url \in Locators
      /\ element.tag \in {"source", "img", "link"} => element.mime \in mimes
  <2>1. element \in Tags
    BY <1>1, SampleParts DEF PageTyped
  <2> HIDE DEF mimes
  <2>2. \/ element \in [tag : Boxes, url : Locators \cup {None}, mime : mimes, attr : {"src", "poster"}]
        \/ element \in [tag : {"source", "img", "track", "a", "iframe", "param"}, url : Locators,
                        mime : mimes]
        \/ element \in [tag : {"link"}, url : Locators, mime : mimes, preload : BOOLEAN,
                        as : {"audio", "image", "video", "track", None}]
        \/ element \in [tag : {"itemprop"}, url : Locators, attr : {"contentUrl", "caption"}]
        \/ element \in [tag : {"close"}]
    BY <2>1 DEF Tags, mimes
  <2> QED BY <2>2 DEF Containers
<1>3. \A kind \in {"video", "image", "audio", "subtitle", "unknown"} : kind \in ToSet(Kinds)
  BY EveryKind
<1>4. ASSUME Parse(element)
      PROVE  step = "parse" /\ UNCHANGED <<job, step, evidence, blocks, seen, found, chosen>>
  BY <1>4 DEF Parse
<1>5. ASSUME Parse(element), UNCHANGED <<inside, open>>, Keeps PROVE PageInv'
  <2>1. Nesting'
    BY <1>1, <1>5 DEF Nesting
  <2>2. open' \in Seq(Boxes) /\ inside' \in Flags
    BY <1>1, <1>5
  <2> QED BY <1>4, <1>5, <2>1, <2>2, ParseKeeps
<1>6. CASE OpenElement(element)
  <2>1. /\ open' \in Seq(Boxes) /\ inside' \in Flags /\ Nesting'
    BY <1>1, <1>6, OpenKeepsNesting DEF OpenElement
  <2>2. element.tag \in Boxes /\ Parse(element)
    BY <1>6 DEF OpenElement
  <2> DEFINE kind == CASE element.tag = "object"  -> "video"
                       [] element.attr = "poster" -> "image"
                       [] OTHER                   -> ElementKind(element.tag, element.mime)
  <2>3. IF element.url = None THEN UNCHANGED <<urls, said>> ELSE Says(element.url, kind, kind)
    BY <1>6 DEF OpenElement
  <2>4. kind \in ToSet(Kinds)
    <3>1. element.tag \in Containers => ElementKind(element.tag, element.mime) \in ToSet(Kinds)
      BY <1>1, <1>2, KindsOfElements
    <3>2. CASE element.tag = "object" \/ element.attr = "poster"
      <4>1. kind \in {"video", "image"}
        BY <3>2
      <4> QED BY <1>3, <4>1
    <3>3. CASE ~(element.tag = "object" \/ element.attr = "poster")
      <4>1. kind = ElementKind(element.tag, element.mime)
        BY <3>3
      <4> QED BY <2>2, <3>1, <3>3, <4>1
    <3> QED BY <3>2, <3>3
  <2> HIDE DEF kind
  <2>5. Keeps
    BY <1>2, <2>2, <2>3, <2>4
  <2> QED BY <1>4, <2>1, <2>2, <2>5, ParseKeeps
<1>7. CASE CloseElement(element)
  <2>1. /\ open' \in Seq(Boxes) /\ inside' \in Flags /\ Nesting'
    BY <1>1, <1>7, CloseKeepsNesting DEF CloseElement
  <2>2. Parse(element) /\ Keeps
    BY <1>7 DEF CloseElement
  <2> QED BY <1>4, <2>1, <2>2, ParseKeeps
<1>8. CASE MediaElement(element)
  <2> DEFINE kind == ElementKind(element.tag, element.mime)
  <2>1. /\ element.tag \in {"source", "img"} /\ Parse(element) /\ UNCHANGED <<inside, open>>
        /\ Says(element.url, kind, Meant(element.tag, element.mime))
    BY <1>8 DEF MediaElement
  <2>2. Meant(element.tag, element.mime) = kind
    BY <1>1, <2>1, MeantIsRead
  <2>3. kind \in ToSet(Kinds)
    BY <1>1, <1>2, <2>1, KindsOfElements
  <2> HIDE DEF kind
  <2>4. Keeps
    BY <1>2, <2>1, <2>2, <2>3
  <2> QED BY <1>5, <2>1, <2>4
<1>9. CASE OtherElement(element)
  <2> DEFINE kind == CASE element.tag = "track" -> "subtitle"
                       [] element.tag = "a"     -> "unknown"
                       [] OTHER                 -> "video"
  <2>1. /\ element.tag \in {"track", "a", "iframe", "param"} /\ Parse(element)
        /\ UNCHANGED <<inside, open>> /\ Says(element.url, kind, kind)
    BY <1>9 DEF OtherElement
  <2>2. kind \in ToSet(Kinds)
    <3>1. kind \in {"subtitle", "unknown", "video"}
      OBVIOUS
    <3> QED BY <1>3, <3>1
  <2> HIDE DEF kind
  <2>3. Keeps
    BY <1>2, <2>1, <2>2
  <2> QED BY <1>5, <2>1, <2>3
<1>10. CASE LinkElement(element)
  <2>1. /\ element.tag = "link" /\ Parse(element) /\ UNCHANGED <<inside, open>>
        /\ \/ Says(element.url, LinkKind(element), LinkKind(element))
           \/ UNCHANGED <<urls, said>>
    BY <1>10 DEF LinkElement
  <2>2. LinkKind(element) \in ToSet(Kinds)
    BY <1>2, <1>3, <2>1 DEF LinkKind
  <2>3. Keeps
    BY <1>2, <2>1, <2>2
  <2> QED BY <1>5, <2>1, <2>3
<1>11. CASE ItemElement(element)
  <2> DEFINE kind == CASE element.attr = "contentUrl" -> "video"
                       [] element.attr = "caption" /\ CaptionLocator(element.url) -> "subtitle"
                       [] OTHER -> None
  <2>1. /\ element.tag = "itemprop" /\ Parse(element) /\ UNCHANGED <<inside, open>>
        /\ IF kind = None THEN UNCHANGED <<urls, said>> ELSE Says(element.url, kind, kind)
    BY <1>11 DEF ItemElement
  <2>2. kind # None => kind \in ToSet(Kinds)
    <3>1. kind \in {"video", "subtitle", None}
      OBVIOUS
    <3> QED BY <1>3, <3>1
  <2> HIDE DEF kind
  <2>3. Keeps
    BY <1>2, <2>1, <2>2
  <2> QED BY <1>5, <2>1, <2>3
<1> QED BY <1>6, <1>7, <1>8, <1>9, <1>10, <1>11 DEF Element

-----------------------------------------------------------------------------
(* Discovery: what is read becomes candidates. *)

\* A candidate goes on serving its locator when blocks say more.
LEMMA MoreIsSaid ==
  ASSUME said \subseteq said', \A m \in said' : m \in said \/ m.by = "block"
  PROVE  \A c, url : Serves(c, url) => Serves(c, url)'
<1> SUFFICES ASSUME NEW c, NEW url, Serves(c, url) PROVE Serves(c, url)'
  OBVIOUS
<1>1. KindsOf(url) \subseteq KindsOf(url)'
  BY DEF KindsOf
<1>2. FirstNamedAsPage(url) => FirstNamedAsPage(url)'
  BY DEF FirstNamedAsPage
<1> QED BY <1>1, <1>2 DEF Serves

LEMMA SaidKinds ==
  ASSUME NEW m \in said, KindOrGuess(m.url, m.kind) # None
  PROVE  KindOrGuess(m.url, m.kind) \in KindsOf(m.url)
BY DEF KindsOf

\* One more locator is read, and may become a candidate.
LEMMA ReadKeeps ==
  ASSUME PageInv, step \in {"urls", "jsonld"}, step' \in {"urls", "jsonld"},
         UNCHANGED <<job, parserVars, evidence, chosen>>,
         urls' \in Seq(Namings), blocks' \in Seq(Members), step' = "jsonld" => urls' = <<>>,
         said' \subseteq Mentions, said \subseteq said', \A m \in said' : m \in said \/ m.by = "block",
         SaidIsHeard',
         \/ UNCHANGED <<seen, found>>
         \/ \E url \in Locators, kind \in ToSet(Kinds) :
              /\ Add(url, kind)
              /\ \/ kind \in KindsOf(url)'
                 \/ kind = "page" /\ FirstNamedAsPage(url)'
  PROVE  PageInv'
<1>1. /\ sample' = sample /\ page' = page /\ marked' = marked /\ inside' = inside /\ open' = open
      /\ evidence' = evidence /\ chosen' = chosen
  BY DEF job, parserVars
<1>2. PageTyped /\ Nesting /\ chosen = <<>> /\ SeenIsFound /\ MarkedIsKept
  BY DEF PageInv, Order
<1>3. \A c, url : Serves(c, url) => Serves(c, url)'
  BY MoreIsSaid
<1>4. /\ found' \in Seq(FoundType) /\ SeenIsFound'
      /\ marked => \A c \in ToSet(found') : c.drm
  <2>1. found \in Seq(FoundType) /\ (marked => \A c \in ToSet(found) : c.drm)
    BY <1>2 DEF PageTyped, MarkedIsKept
  <2>2. CASE UNCHANGED <<seen, found>>
    BY <1>2, <1>3, <2>1, <2>2 DEF SeenIsFound
  <2>3. ASSUME NEW url \in Locators, NEW kind \in ToSet(Kinds),
               Add(url, kind),
               \/ kind \in KindsOf(url)'
               \/ kind = "page" /\ FirstNamedAsPage(url)'
        PROVE  /\ found' \in Seq(FoundType) /\ SeenIsFound'
               /\ marked => \A c \in ToSet(found') : c.drm
    <3>1. PICK c : /\ c = Candidate(url, kind, url.marked \/ marked)
                   /\ found' = Append(found, c) /\ seen' = seen \cup {url}
      BY <2>3 DEF Add
    <3>2. url.marked \in BOOLEAN /\ marked \in BOOLEAN
      BY <1>2, LocatorParts DEF PageTyped
    <3>3. c \in FoundType /\ c.url = url /\ c.kind = kind /\ (marked => c.drm)
      BY <3>1, <3>2 DEF Candidate, FoundType
    <3>4. Serves(c, url)'
      BY <2>3, <3>3 DEF Serves
    <3>5. found' \in Seq(FoundType) /\ ToSet(found') = ToSet(found) \cup {c}
      BY <2>1, <3>1, <3>3, AppendedRanges
    <3>6. SeenIsFound'
      <4>1. \A u \in seen : \E d \in ToSet(found) : Serves(d, u)'
        BY <1>2, <1>3 DEF SeenIsFound
      <4>2. \A u \in seen \cup {url} : \E d \in ToSet(found) \cup {c} : Serves(d, u)'
        BY <3>4, <4>1
      <4>3. \A u \in seen' : \E d \in ToSet(found)' : Serves(d, u)'
        BY <3>1, <3>5, <4>2
      <4> QED BY <4>3, Zenon DEF SeenIsFound
    <3> QED BY <2>1, <3>3, <3>5, <3>6
  <2> QED BY <2>2, <2>3
<1>5. PageTyped'
  BY <1>1, <1>2, <1>4 DEF PageTyped
<1>6. Nesting' /\ Order' /\ MarkedIsKept' /\ ChosenHolds'
  BY <1>1, <1>2, <1>4 DEF Nesting, Order, MarkedIsKept, ChosenHolds
<1> QED BY <1>4, <1>5, <1>6 DEF PageInv

LEMMA ReadUrlKeeps ==
  ASSUME PageInv, ReadUrl
  PROVE  PageInv'
<1>0. PICK m : m = Head(urls)
  OBVIOUS
<1> DEFINE kind == KindOrGuess(m.url, m.kind)
<1>1. PageTyped /\ SaidIsHeard
  BY DEF PageInv
<1>2. /\ step = "urls" /\ urls # <<>> /\ urls' = Tail(urls)
      /\ UNCHANGED <<job, step, parserVars, evidence, blocks, chosen, said>>
      /\ IF m.url.usable /\ m.url \notin seen /\ ~m.url.script /\ kind # None
         THEN Add(m.url, kind) ELSE UNCHANGED <<seen, found>>
  BY <1>0 DEF ReadUrl
<1>3. /\ urls' \in Seq(Namings) /\ m \in Namings /\ m \in ToSet(urls)
      /\ ToSet(urls) = {m} \cup ToSet(urls')
  <2>1. urls \in Seq(Namings)
    BY <1>1 DEF PageTyped
  <2> QED BY <1>0, <1>2, <2>1, Ranges
<1>4. m.url \in Locators /\ m.kind \in ToSet(Kinds) /\ m = Mention(m.url, m.kind)
  BY <1>3 DEF Namings, Mention
<1>5. kind # None => kind \in ToSet(Kinds)
  BY <1>4, KindsAreKinds
<1>6. \E n \in said : n.url = m.url /\ n.kind = m.kind
  BY <1>1, <1>3 DEF SaidIsHeard
<1>7. seen \subseteq seen'
  BY <1>2 DEF Add
<1>8. SaidIsHeard'
  <2>1. ASSUME NEW n \in said, Media(n), Waiting(n) PROVE Waiting(n)' \/ n.url \in seen'
    <3>1. Mention(n.url, n.kind) = m \/ Mention(n.url, n.kind) \in ToSet(urls')
      BY <1>3, <2>1 DEF Waiting
    <3>2. CASE Mention(n.url, n.kind) \in ToSet(urls')
      BY <2>1, <3>2 DEF Waiting
    <3>3. CASE Mention(n.url, n.kind) = m
      <4>1. n.url = m.url /\ n.kind = m.kind
        BY <1>4, <3>3 DEF Mention
      <4>2. m.url.usable /\ ~m.url.script /\ kind # None
        BY <2>1, <4>1 DEF Media
      <4>3. m.url \in seen'
        BY <1>2, <4>2 DEF Add
      <4> QED BY <4>1, <4>3
    <3> QED BY <3>1, <3>2, <3>3
  <2>2. said' = said
    BY <1>2
  <2>3. \A u \in ToSet(urls') : \E n \in said : n.url = u.url /\ n.kind = u.kind
    BY <1>1, <1>3 DEF SaidIsHeard
  <2>4. \A n \in said : Media(n) => Waiting(n) \/ n.url \in seen
    BY <1>1 DEF SaidIsHeard
  <2> QED BY <1>7, <2>1, <2>2, <2>3, <2>4 DEF SaidIsHeard, Media
<1>9. kind # None => kind \in KindsOf(m.url)'
  <2>1. kind # None => kind \in KindsOf(m.url)
    BY <1>6, SaidKinds
  <2>2. KindsOf(m.url)' = KindsOf(m.url)
    BY <1>2 DEF KindsOf
  <2> QED BY <2>1, <2>2
<1>10. \/ UNCHANGED <<seen, found>>
       \/ \E url \in Locators, k \in ToSet(Kinds) :
            /\ Add(url, k)
            /\ \/ k \in KindsOf(url)'
               \/ k = "page" /\ FirstNamedAsPage(url)'
  <2>1. CASE ~(m.url.usable /\ m.url \notin seen /\ ~m.url.script /\ kind # None)
    BY <1>2, <2>1
  <2>2. CASE m.url.usable /\ m.url \notin seen /\ ~m.url.script /\ kind # None
    <3> HIDE DEF kind
    <3>1. Add(m.url, kind) /\ m.url \in Locators /\ kind \in ToSet(Kinds) /\ kind \in KindsOf(m.url)'
      BY <1>2, <1>4, <1>5, <1>9, <2>2
    <3> QED BY <3>1
  <2> QED BY <2>1, <2>2
<1>11. said' = said /\ said \subseteq Mentions /\ blocks' = blocks /\ blocks \in Seq(Members) /\ step' = "urls"
  BY <1>1, <1>2 DEF PageTyped
<1> QED BY <1>2, <1>3, <1>8, <1>10, <1>11, ReadKeeps

LEMMA ReadBlockKeeps ==
  ASSUME PageInv, ReadBlock
  PROVE  PageInv'
<1>0. PICK b : b = Head(blocks)
  OBVIOUS
<1> DEFINE kind == IF b.key = "caption" THEN "subtitle" ELSE KindOfBlock(b.url, b.type)
           read == /\ b.key = "caption" => CaptionLocator(b.url)
                   /\ b.key = "url" => kind # "page"
           new  == [url |-> b.url, kind |-> kind, by |-> "block"]
           added == read /\ b.url.usable /\ b.url \notin seen /\ ~b.url.script
<1>1. PageTyped /\ SaidIsHeard /\ Order
  BY DEF PageInv
<1>2. /\ step \in {"urls", "jsonld"} /\ urls = <<>> /\ blocks # <<>>
      /\ step' = "jsonld" /\ blocks' = Tail(blocks)
      /\ UNCHANGED <<job, parserVars, urls, evidence, chosen>>
      /\ said' = IF read THEN said \cup Said({Mention(b.url, kind)}, "block") ELSE said
      /\ IF added THEN Add(b.url, kind) ELSE UNCHANGED <<seen, found>>
  BY <1>0 DEF ReadBlock
<1>3. /\ blocks' \in Seq(Members) /\ b \in Members /\ b.url \in Locators
  <2>1. blocks \in Seq(Members)
    BY <1>1 DEF PageTyped
  <2>2. b \in ToSet(blocks) /\ ToSet(blocks) \subseteq Members /\ Tail(blocks) \in Seq(Members)
    BY <1>0, <1>2, <2>1, Ranges
  <2> QED BY <1>2, <2>2 DEF Members
<1>4. /\ kind \in ToSet(Kinds)
      /\ kind = "page" => KindOrGuess(b.url, kind) = None
      /\ kind # "page" => KindOrGuess(b.url, kind) = kind
  <2>1. "subtitle" \in ToSet(Kinds) /\ KindOrGuess(b.url, "subtitle") = "subtitle"
    BY EveryKind DEF KindOrGuess
  <2> QED BY <1>3, <2>1, BlockKinds
<1>5. None \notin ToSet(Kinds)
  BY DiscoveryAssumption
<1>6. Said({Mention(b.url, kind)}, "block") = {new}
  BY DEF Said, Mention
<1>7. new \in Mentions
  BY <1>3, <1>4 DEF Mentions
<1> HIDE DEF kind, read
<1>8. /\ said' \subseteq Mentions /\ said \subseteq said' /\ \A m \in said' : m \in said \/ m.by = "block"
  <2>1. said \subseteq Mentions /\ new.by = "block"
    BY <1>1 DEF PageTyped
  <2> HIDE DEF new
  <2>2. CASE read
    <3>1. said' = said \cup {new}
      BY <1>2, <1>6, <2>2
    <3> QED BY <1>7, <2>1, <3>1
  <2>3. CASE ~read
    <3>1. said' = said
      BY <1>2, <2>3
    <3> QED BY <2>1, <3>1
  <2> QED BY <2>2, <2>3
<1>9. \A m \in said : Media(m) => m.url \in seen
  <2>1. ToSet(urls) = {}
    BY <1>2 DEF ToSet
  <2> QED BY <1>1, <2>1 DEF SaidIsHeard, Waiting
<1>10. seen \subseteq seen' /\ (added => b.url \in seen')
  BY <1>2 DEF Add
<1>11. SaidIsHeard'
  <2>1. \A m \in said' : Media(m) => m.url \in seen'
    <3>1. CASE read
      <4>1. said' = said \cup {new}
        BY <1>2, <1>6, <3>1
      <4>2. Media(new) => new.url \in seen'
        BY <1>10, <3>1 DEF Media
      <4> QED BY <1>9, <1>10, <4>1, <4>2
    <3>2. CASE ~read
      BY <1>2, <1>9, <1>10, <3>2
    <3> QED BY <3>1, <3>2
  <2>2. ToSet(urls') = {}
    BY <1>2 DEF ToSet
  <2> QED BY <2>1, <2>2 DEF SaidIsHeard, Media
<1>12. ASSUME added
       PROVE  \/ kind \in KindsOf(b.url)'
              \/ kind = "page" /\ FirstNamedAsPage(b.url)'
  <2>1. said' = said \cup {new}
    BY <1>2, <1>6, <1>12
  <2>2. CASE kind # "page"
    <3>1. new \in said' /\ new.url = b.url /\ KindOrGuess(b.url, new.kind) = kind /\ kind # None
      BY <1>4, <1>5, <2>1, <2>2
    <3>2. kind \in KindsOf(b.url)'
      BY <3>1 DEF KindsOf
    <3> QED BY <3>2
  <2>3. CASE kind = "page"
    <3>1. new \in said' /\ new.url = b.url /\ KindOrGuess(b.url, new.kind) = None /\ new.by = "block"
      BY <1>4, <2>1, <2>3
    <3>2. \A n \in said' : n.url = b.url /\ KindOrGuess(b.url, n.kind) # None => n.by = "block"
      BY <1>9, <1>12, <2>1, <3>1 DEF Media
    <3>3. FirstNamedAsPage(b.url)'
      BY <3>1, <3>2 DEF FirstNamedAsPage
    <3> QED BY <2>3, <3>3
  <2> QED BY <2>2, <2>3
<1>13. \/ UNCHANGED <<seen, found>>
       \/ \E url \in Locators, k \in ToSet(Kinds) :
            /\ Add(url, k)
            /\ \/ k \in KindsOf(url)'
               \/ k = "page" /\ FirstNamedAsPage(url)'
  <2>1. CASE added
    <3>1. Add(b.url, kind) /\ b.url \in Locators /\ kind \in ToSet(Kinds)
      BY <1>2, <1>3, <1>4, <2>1
    <3> QED BY <1>12, <2>1, <3>1
  <2>2. CASE ~added
    BY <1>2, <2>2
  <2> QED BY <2>1, <2>2
<1>14. urls' \in Seq(Namings) /\ urls' = <<>>
  BY <1>1, <1>2 DEF PageTyped
<1> QED BY <1>2, <1>3, <1>8, <1>11, <1>13, <1>14, ReadKeeps

LEMMA EndDocumentKeeps ==
  ASSUME PageInv, EndDocument
  PROVE  PageInv'
<1>1. PICK properties \in sample.properties :
        /\ urls' = urls \o properties
        /\ said' = said \cup Said(ToSet(properties), "property")
  BY DEF EndDocument
<1>2. /\ step = "parse" /\ step' = "seed"
      /\ sample' = sample /\ page' = page /\ marked' = marked /\ inside' = inside /\ open' = open
      /\ UNCHANGED <<evidence, blocks, seen, found, chosen>>
  BY DEF EndDocument, job, parserVars
<1>3. PageTyped /\ Nesting /\ SaidIsHeard /\ seen = {} /\ found = <<>> /\ chosen = <<>>
  BY <1>2 DEF PageInv, Order
<1>4. urls \in Seq(Namings) /\ properties \in Seq(Namings)
  BY <1>3, SampleParts DEF PageTyped
<1>5. urls' \in Seq(Namings) /\ ToSet(urls') = ToSet(urls) \cup ToSet(properties)
  BY <1>1, <1>4, JoinedRanges
<1>6. ToSet(properties) \subseteq Namings
  BY <1>4, Ranges
<1>7. \A p \in Namings : /\ [url |-> p.url, kind |-> p.kind, by |-> "property"] \in Mentions
                         /\ Mention(p.url, p.kind) = p
  BY DEF Namings, Mentions, Mention
<1>8. said' \subseteq Mentions
  BY <1>1, <1>3, <1>6, <1>7 DEF Said, PageTyped
<1>9. SaidIsHeard'
  <2>1. \A m \in said : Media(m) => Waiting(m)
    BY <1>3 DEF SaidIsHeard
  <2>2. \A m \in said : Waiting(m) => Waiting(m)'
    BY <1>5 DEF Waiting
  <2>3. \A m \in Said(ToSet(properties), "property") : Waiting(m)'
    BY <1>5, <1>6, <1>7 DEF Waiting, Said
  <2>4. \A m \in said' : Media(m) => Waiting(m)'
    BY <1>1, <2>1, <2>2, <2>3
  <2>5. \A u \in ToSet(properties) : \E m \in Said(ToSet(properties), "property") :
          m.url = u.url /\ m.kind = u.kind
    <3> SUFFICES ASSUME NEW u \in ToSet(properties)
                 PROVE  \E m \in Said(ToSet(properties), "property") : m.url = u.url /\ m.kind = u.kind
      OBVIOUS
    <3>1. [url |-> u.url, kind |-> u.kind, by |-> "property"] \in Said(ToSet(properties), "property")
      BY DEF Said
    <3> QED BY <3>1
  <2>6. \A u \in ToSet(urls) : \E m \in said : m.url = u.url /\ m.kind = u.kind
    BY <1>3 DEF SaidIsHeard
  <2>7. \A u \in ToSet(urls') : \E m \in said' : m.url = u.url /\ m.kind = u.kind
    BY <1>1, <1>5, <2>5, <2>6
  <2> QED BY <2>4, <2>7 DEF SaidIsHeard, Media
<1>10. PageTyped'
  BY <1>2, <1>3, <1>5, <1>8 DEF PageTyped
<1>11. Nesting' /\ Order' /\ SeenIsFound' /\ MarkedIsKept' /\ ChosenHolds'
  BY <1>2, <1>3 DEF Nesting, Order, SeenIsFound, MarkedIsKept, ChosenHolds
<1> QED BY <1>9, <1>10, <1>11 DEF PageInv

LEMMA SeedKeeps ==
  ASSUME PageInv, Seed
  PROVE  PageInv'
<1>0. PICK seeds : seeds = Seeds(evidence)
  OBVIOUS
<1> DEFINE Marked(c) == [c EXCEPT !.drm = @ \/ marked]
           says == Said(ToSet(evidence), "browser")
<1>1. /\ step = "seed" /\ step' = "urls"
      /\ found' = [i \in 1..Len(seeds) |-> Marked(seeds[i])]
      /\ seen' = {seeds[i].url : i \in 1..Len(seeds)}
      /\ said' = said \cup says /\ evidence' = <<>>
      /\ sample' = sample /\ page' = page /\ marked' = marked /\ inside' = inside /\ open' = open
      /\ UNCHANGED <<urls, blocks, chosen>>
  BY <1>0 DEF Seed, job, parserVars
<1>2. PageTyped /\ Nesting /\ SaidIsHeard /\ seen = {} /\ chosen = <<>> /\ marked \in BOOLEAN
  BY <1>1 DEF PageInv, Order, PageTyped
<1>3. /\ seeds \in Seq(FoundType)
      /\ \A c \in ToSet(seeds) : \E e \in ToSet(evidence) :
           /\ e.url.usable /\ ~e.url.script
           /\ c = Candidate(e.url, KindOfEvidence(e.url, e.kind), e.url.marked)
      /\ \A e \in ToSet(evidence) : e.url.usable /\ ~e.url.script =>
           \E c \in ToSet(seeds) : c.url = e.url
  BY <1>0, <1>2, SeedsHold DEF PageTyped
<1>4. ToSet(evidence) \subseteq Namings
  BY <1>2, Ranges DEF PageTyped
<1>5. \A c \in FoundType : /\ Marked(c) \in FoundType /\ Marked(c).url = c.url /\ Marked(c).kind = c.kind
                           /\ marked => Marked(c).drm
  BY <1>2 DEF FoundType
<1> HIDE DEF Marked
<1>6. Len(seeds) \in Nat /\ DOMAIN seeds = 1..Len(seeds) /\ \A i \in 1..Len(seeds) : seeds[i] \in FoundType
  BY <1>3
<1>7. /\ found' \in Seq(FoundType)
      /\ DOMAIN found' = 1..Len(seeds) /\ \A i \in 1..Len(seeds) : found'[i] = Marked(seeds[i])
  BY <1>1, <1>5, <1>6
<1>8. ToSet(found') = {Marked(c) : c \in ToSet(seeds)} /\ seen' = {c.url : c \in ToSet(seeds)}
  BY <1>1, <1>6, <1>7 DEF ToSet
<1>9. ToSet(seeds) \subseteq FoundType
  BY <1>3, Ranges
<1>10. /\ \A m \in says : \E e \in ToSet(evidence) : m.url = e.url /\ m.kind = e.kind /\ m.by = "browser"
       /\ \A e \in ToSet(evidence) : \E m \in says : m.url = e.url /\ m.kind = e.kind /\ m.by = "browser"
       /\ says \subseteq Mentions
  <2>1. \A e \in ToSet(evidence) : [url |-> e.url, kind |-> e.kind, by |-> "browser"] \in says
    BY DEF Said
  <2>2. \A e \in Namings : [url |-> e.url, kind |-> e.kind, by |-> "browser"] \in Mentions
    BY DEF Namings, Mentions
  <2>3. \A m \in says : \E e \in ToSet(evidence) : m = [url |-> e.url, kind |-> e.kind, by |-> "browser"]
    BY DEF Said
  <2> DEFINE Spoken(e) == [url |-> e.url, kind |-> e.kind, by |-> "browser"]
  <2>4. \A e : Spoken(e).url = e.url /\ Spoken(e).kind = e.kind /\ Spoken(e).by = "browser"
    OBVIOUS
  <2>5. /\ \A e \in ToSet(evidence) : Spoken(e) \in says /\ Spoken(e) \in Mentions
        /\ \A m \in says : \E e \in ToSet(evidence) : m = Spoken(e)
    BY <1>4, <2>1, <2>2, <2>3
  <2> HIDE DEF says, Spoken
  <2>6. \A m \in says : \E e \in ToSet(evidence) : m.url = e.url /\ m.kind = e.kind /\ m.by = "browser"
    BY <2>4, <2>5
  <2>7. \A e \in ToSet(evidence) : \E m \in says : m.url = e.url /\ m.kind = e.kind /\ m.by = "browser"
    BY <2>4, <2>5
  <2>8. says \subseteq Mentions
    BY <2>5
  <2> QED BY <2>6, <2>7, <2>8
<1> HIDE DEF says
<1>11. SaidIsHeard'
  <2>1. \A m \in said : Media(m) => Waiting(m)
    BY <1>2 DEF SaidIsHeard
  <2>2. \A m \in says : Media(m) => m.url \in seen'
    BY <1>3, <1>8, <1>10 DEF Media
  <2>3. \A m \in said : Waiting(m) => Waiting(m)'
    BY <1>1 DEF Waiting
  <2>4. \A u \in ToSet(urls') : \E m \in said' : m.url = u.url /\ m.kind = u.kind
    BY <1>1, <1>2 DEF SaidIsHeard
  <2>5. \A m \in said' : Media(m) => Waiting(m)' \/ m.url \in seen'
    BY <1>1, <2>1, <2>2, <2>3
  <2> QED BY <2>4, <2>5 DEF SaidIsHeard, Media
<1>12. SeenIsFound'
  <2>1. ASSUME NEW c \in ToSet(seeds), NEW d, d = Marked(c) PROVE Serves(d, c.url)'
    <3>0. d.url = c.url /\ d.kind = c.kind
      BY <1>5, <1>9, <2>1
    <3>1. PICK e \in ToSet(evidence) : c = Candidate(e.url, KindOfEvidence(e.url, e.kind), e.url.marked)
      BY <1>3
    <3>2. c.url = e.url /\ c.kind = KindOfEvidence(e.url, e.kind) /\ e.url \in Locators /\ e.kind \in ToSet(Kinds)
      BY <1>4, <3>1 DEF Candidate, Namings
    <3>3. PICK m \in says : m.url = e.url /\ m.kind = e.kind /\ m.by = "browser"
      BY <1>10
    <3>4. m \in said'
      BY <1>1
    <3>5. CASE KindOrGuess(e.url, e.kind) = None
      <4>1. c.kind = "page"
        BY <3>2, <3>5, KindsAreKinds
      <4>2. FirstNamedAsPage(c.url)'
        BY <3>2, <3>3, <3>4, <3>5 DEF FirstNamedAsPage
      <4> QED BY <3>0, <4>1, <4>2 DEF Serves
    <3>6. CASE KindOrGuess(e.url, e.kind) # None
      <4>1. c.kind = KindOrGuess(e.url, e.kind)
        BY <3>2, <3>6, KindsAreKinds
      <4>2. c.kind \in KindsOf(c.url)'
        BY <3>2, <3>3, <3>4, <3>6, <4>1 DEF KindsOf
      <4> QED BY <3>0, <4>2 DEF Serves
    <3> QED BY <3>5, <3>6
  <2>2. ASSUME NEW u \in seen' PROVE \E d \in ToSet(found)' : Serves(d, u)'
    <3>1. PICK c \in ToSet(seeds) : c.url = u
      BY <1>8
    <3>2. PICK d : d = Marked(c)
      OBVIOUS
    <3>3. d \in ToSet(found)'
      BY <1>8, <3>2
    <3>4. Serves(d, u)'
      BY <2>1, <3>1, <3>2
    <3> QED BY <3>3, <3>4
  <2> QED BY <2>2, Zenon DEF SeenIsFound
<1>13. MarkedIsKept'
  BY <1>1, <1>5, <1>8, <1>9 DEF MarkedIsKept
<1>14. PageTyped'
  BY <1>1, <1>2, <1>7, <1>10 DEF PageTyped
<1>15. Nesting' /\ Order' /\ ChosenHolds'
  BY <1>1, <1>2 DEF Nesting, Order, ChosenHolds
<1> QED BY <1>11, <1>12, <1>13, <1>14, <1>15 DEF PageInv

\* More is found, and nothing else is said.
LEMMA FoundKeeps ==
  ASSUME PageTyped, Nesting, SaidIsHeard, SeenIsFound, chosen = <<>>, urls = <<>>,
         step' = "found", found' \in Seq(FoundType), found' # <<>>, ToSet(found) \subseteq ToSet(found'),
         sample' = sample, page' = page, marked' = marked, inside' = inside, open' = open,
         UNCHANGED <<urls, evidence, blocks, seen, chosen, said>>
  PROVE  PageInv'
<1>1. PageTyped' /\ Nesting' /\ SaidIsHeard' /\ Order' /\ MarkedIsKept' /\ ChosenHolds'
  BY DEF PageTyped, Nesting, SaidIsHeard, Media, Waiting, Order, MarkedIsKept, ChosenHolds
<1>2. SeenIsFound'
  BY DEF SeenIsFound, Serves, KindsOf, FirstNamedAsPage
<1> QED BY <1>1, <1>2 DEF PageInv

LEMMA EndPageKeeps ==
  ASSUME PageInv, EndPage
  PROVE  PageInv'
<1> DEFINE whole == IF found = <<>> THEN <<Candidate(page, "page", marked)>> ELSE found
           gallery == Candidate(page, "gallery", marked)
<1>1. /\ step \in {"urls", "jsonld"} /\ step' = "found"
      /\ found' = whole \/ found' = Append(whole, gallery)
      /\ sample' = sample /\ page' = page /\ marked' = marked /\ inside' = inside /\ open' = open
      /\ UNCHANGED <<urls, evidence, blocks, seen, chosen, said>> /\ urls = <<>>
  BY DEF EndPage, job, parserVars
<1>2. PageTyped /\ Nesting /\ SaidIsHeard /\ SeenIsFound /\ chosen = <<>>
  BY <1>1 DEF PageInv, Order
<1>3. \A kind \in {"page", "gallery"} : Candidate(page, kind, marked) \in FoundType
  BY <1>2, EveryKind DEF PageTyped, Candidate, FoundType
<1>4. whole \in Seq(FoundType) /\ whole # <<>> /\ ToSet(found) \subseteq ToSet(whole)
  <2>1. found = <<>> => ToSet(found) = {}
    BY DEF ToSet
  <2> QED BY <1>2, <1>3, <2>1 DEF PageTyped
<1> HIDE DEF whole, gallery
<1>5. found' \in Seq(FoundType) /\ found' # <<>> /\ ToSet(found) \subseteq ToSet(found')
  <2>1. gallery \in FoundType
    BY <1>3 DEF gallery
  <2>2. Append(whole, gallery) \in Seq(FoundType) /\ Append(whole, gallery) # <<>>
        /\ ToSet(Append(whole, gallery)) = ToSet(whole) \cup {gallery}
    BY <1>4, <2>1, AppendedRanges
  <2> QED BY <1>1, <1>4, <2>2
<1> QED BY <1>1, <1>2, <1>5, FoundKeeps

\* A locator that is not read as a page.
LEMMA NoPageKeeps ==
  ASSUME PageInv, NoPage
  PROVE  PageInv'
<1>1. /\ step = "fetch" /\ step' = "found"
      /\ sample' = sample /\ page' = page /\ marked' = marked /\ inside' = inside /\ open' = open
      /\ UNCHANGED <<urls, evidence, blocks, seen, chosen, said>>
  BY DEF NoPage, job, parserVars
<1>2. PageTyped /\ Nesting /\ SaidIsHeard /\ SeenIsFound /\ chosen = <<>> /\ urls = <<>> /\ found = <<>>
  BY <1>1 DEF PageInv, Order
<1>3. /\ page \in Locators /\ page.suffix \in ToSet(Kinds) /\ page.marked \in BOOLEAN /\ marked \in BOOLEAN
      /\ {"unknown", "live_stream"} \subseteq ToSet(Kinds)
  BY <1>2, LocatorParts, EveryKind DEF PageTyped
<1>4. \A kind \in ToSet(Kinds), drm \in BOOLEAN : Candidate(page, kind, drm) \in FoundType
  BY <1>3 DEF Candidate, FoundType
<1>5. \E kind \in ToSet(Kinds), drm \in BOOLEAN :
        \/ found' = <<Candidate(page, kind, drm)>>
        \/ found' = <<Candidate(page, kind, drm)>> \o Seeds(evidence)
  BY <1>3 DEF NoPage
<1>6. PICK c \in FoundType : found' = <<c>> \/ found' = <<c>> \o Seeds(evidence)
  BY <1>4, <1>5
<1>7. <<c>> \in Seq(FoundType) /\ Seeds(evidence) \in Seq(FoundType)
  BY <1>2, SeedsHold DEF PageTyped
<1>8. found' \in Seq(FoundType) /\ found' # <<>>
  <2>1. ASSUME NEW t \in Seq(FoundType) PROVE <<c>> \o t \in Seq(FoundType) /\ <<c>> \o t # <<>>
    <3>1. Len(<<c>> \o t) = 1 + Len(t) /\ Len(t) \in Nat /\ <<c>> \o t \in Seq(FoundType)
      BY <1>7
    <3> QED BY <3>1
  <2>2. <<c>> # <<>>
    OBVIOUS
  <2> QED BY <1>6, <1>7, <2>1, <2>2
<1>9. ToSet(found) = {}
  BY <1>2 DEF ToSet
<1> QED BY <1>1, <1>2, <1>8, <1>9, FoundKeeps

LEMMA ChooseKeeps ==
  ASSUME PageInv, Choose
  PROVE  PageInv'
<1>1. PICK items \in sample.formats \cup {<<>>} :
        /\ found' = found \o FromManifest(items)
        /\ chosen' = PreferredByKind(found')
  BY DEF Choose
<1>2. /\ step = "found" /\ step' = "done"
      /\ sample' = sample /\ page' = page /\ marked' = marked /\ inside' = inside /\ open' = open
      /\ UNCHANGED <<urls, evidence, blocks, seen, said>>
  BY DEF Choose, job, parserVars
<1>3. PageTyped /\ Nesting /\ SaidIsHeard /\ SeenIsFound /\ urls = <<>> /\ found # <<>>
  BY <1>2 DEF PageInv, Order
<1>4. found \in Seq(FoundType) /\ FromManifest(items) \in Seq(FoundType)
  <2>1. items \in Seq(Entries)
    <3>1. sample.formats \subseteq Seq(Entries)
      BY <1>3, SampleParts DEF PageTyped
    <3>2. <<>> \in Seq(Entries)
      OBVIOUS
    <3> QED BY <3>1, <3>2
  <2> QED BY <1>3, <2>1, ManifestHolds DEF PageTyped
<1>5. found' \in Seq(FoundType) /\ ToSet(found') = ToSet(found) \cup ToSet(FromManifest(items))
  BY <1>1, <1>4, JoinedRanges
<1>6. found' # <<>>
  BY <1>1, <1>3, <1>4
<1>7. PICK all : all = found'
  OBVIOUS
<1>8. all \in Seq(FoundType) /\ all # <<>> /\ chosen' = PreferredByKind(all)
  BY <1>1, <1>5, <1>6, <1>7
<1>9. Chosen' = {PreferredByKind(all)[i] : i \in 1..Len(PreferredByKind(all))}
  BY <1>8 DEF Chosen
<1>10. /\ \A d \in Chosen' : d.drm => \A c \in ToSet(all) : c.kind = d.kind => c.drm
       /\ \A c \in ToSet(all) : c.kind # "page" => \E d \in Chosen' : SameKind(d, c.kind)
  BY <1>8, <1>9, ChoiceHolds
<1>11. Found' = ToSet(found)'
  <2>1. DOMAIN all = 1..Len(all)
    BY <1>8
  <2> QED BY <1>7, <2>1 DEF Found, ToSet
<1>12. ChosenHolds'
  <2>1. ClearIsPreferred'
    BY <1>7, <1>10, <1>11 DEF ClearIsPreferred
  <2>2. \A c \in ToSet(found)' : c.kind # "page" => \E d \in Chosen' : SameKind(d, c.kind)
    BY <1>7, <1>10
  <2> QED BY <2>1, <2>2 DEF ChosenHolds, SameKind
<1>13. SeenIsFound'
  BY <1>2, <1>3, <1>5 DEF SeenIsFound, Serves, KindsOf, FirstNamedAsPage
<1>14. PageTyped' /\ Nesting' /\ SaidIsHeard' /\ Order'
  BY <1>2, <1>3, <1>5 DEF PageTyped, Nesting, SaidIsHeard, Media, Waiting, Order
<1>15. MarkedIsKept'
  BY <1>2 DEF MarkedIsKept
<1> QED BY <1>12, <1>13, <1>14, <1>15 DEF PageInv

\* A step of the task that reads nothing.
LEMMA WaitKeeps ==
  ASSUME PageInv, FetchFailed \/ BeginPage \/ UNCHANGED pageVars
  PROVE  PageInv'
<1>1. /\ \/ step = "fetch" /\ step' \in {"failed", "parse"}
         \/ step' = step
      /\ sample' = sample /\ page' = page /\ marked' = marked /\ inside' = inside /\ open' = open
      /\ UNCHANGED <<urls, evidence, blocks, seen, found, chosen, said>>
  BY DEF FetchFailed, BeginPage, pageVars, job, parserVars
<1>2. PageTyped /\ Nesting /\ SaidIsHeard /\ SeenIsFound /\ Order /\ MarkedIsKept /\ ChosenHolds
  BY DEF PageInv
<1>3. PageTyped' /\ Nesting' /\ SaidIsHeard' /\ Order'
  BY <1>1, <1>2 DEF PageTyped, Nesting, SaidIsHeard, Media, Waiting, Order
<1>4. SeenIsFound'
  BY <1>1, <1>2 DEF SeenIsFound, Serves, KindsOf, FirstNamedAsPage
<1>5. MarkedIsKept'
  BY <1>1, <1>2 DEF MarkedIsKept
<1>6. ChosenHolds'
  BY <1>1, <1>2 DEF ChosenHolds, ClearIsPreferred, Chosen, Found, SameKind
<1> QED BY <1>3, <1>4, <1>5, <1>6 DEF PageInv

\* The page, what its author says, what the browser saw and what is found from
\* them stay consistent, on every page of every sample.
THEOREM PageInvHolds == PageSpec => []PageInv
<1>1. ASSUME PageInv, [PageNext]_pageVars PROVE PageInv'
  <2>1. CASE NoPage
    BY <1>1, <2>1, NoPageKeeps
  <2>2. CASE FetchFailed \/ BeginPage \/ UNCHANGED pageVars
    BY <1>1, <2>2, WaitKeeps
  <2>3. ASSUME NEW element \in sample.elements, Element(element) PROVE PageInv'
    BY <1>1, <2>3, ElementKeeps
  <2>4. CASE EndDocument
    BY <1>1, <2>4, EndDocumentKeeps
  <2>5. CASE Seed
    BY <1>1, <2>5, SeedKeeps
  <2>6. CASE ReadUrl
    BY <1>1, <2>6, ReadUrlKeeps
  <2>7. CASE ReadBlock
    BY <1>1, <2>7, ReadBlockKeeps
  <2>8. CASE EndPage
    BY <1>1, <2>8, EndPageKeeps
  <2>9. CASE Choose
    BY <1>1, <2>9, ChooseKeeps
  <2> QED BY <1>1, <2>1, <2>2, <2>3, <2>4, <2>5, <2>6, <2>7, <2>8, <2>9 DEF PageNext
<1> QED BY <1>1, PageInitHolds, PTL DEF PageSpec

\* On every page, whatever is said of it and in whatever order, a locator that
\* is given a kind is found as one of its kinds and something of that kind is
\* chosen, unless it was first named without one (_candidates_from_html,
\* preferred_by_kind).
THEOREM KindsKept == PageSpec => []KindsAreKept
<1>1. ASSUME PageInv PROVE KindsAreKept
  <2> SUFFICES ASSUME step = "done", NEW m \in said,
                      m.url.usable, ~m.url.script, KindsOf(m.url) # {}
               PROVE  \E c \in Found :
                        /\ c.url = m.url
                        /\ \/ c.kind \in KindsOf(m.url) /\ \E d \in Chosen : SameKind(d, c.kind)
                           \/ c.kind = "page" /\ FirstNamedAsPage(m.url)
    BY DEF KindsAreKept
  <2>1. PageTyped /\ urls = <<>> /\ SaidIsHeard /\ SeenIsFound
        /\ \A c \in ToSet(found) : c.kind # "page" => \E d \in Chosen : SameKind(d, c.kind)
    BY <1>1 DEF PageInv, Order, ChosenHolds
  <2>2. PICK n \in said : n.url = m.url /\ KindOrGuess(n.url, n.kind) # None
    BY DEF KindsOf
  <2>3. m.url \in seen
    <3>1. ToSet(urls) = {}
      BY <2>1 DEF ToSet
    <3>2. Media(n)
      BY <2>2 DEF Media
    <3> QED BY <2>1, <2>2, <3>1, <3>2 DEF SaidIsHeard, Waiting
  <2>4. PICK c \in ToSet(found) : Serves(c, m.url)
    BY <2>1, <2>3 DEF SeenIsFound
  <2>5. ToSet(found) = Found
    <3>1. DOMAIN found = 1..Len(found)
      BY <2>1 DEF PageTyped
    <3> QED BY <3>1 DEF Found, ToSet
  <2>6. "page" \notin KindsOf(m.url)
    <3> SUFFICES ASSUME NEW k \in said, k.url = m.url, KindOrGuess(m.url, k.kind) # None
                 PROVE  KindOrGuess(m.url, k.kind) # "page"
      BY DEF KindsOf
    <3>1. k.url \in Locators /\ k.kind \in ToSet(Kinds)
      BY <2>1 DEF PageTyped, Mentions
    <3> QED BY <3>1, KindsAreKinds
  <2> QED BY <2>1, <2>4, <2>5, <2>6 DEF Serves
<1> QED BY <1>1, PageInvHolds, PTL

\* The signals of a page stay on every candidate found on it, and what is
\* chosen is clear wherever something of its kind is (discover,
\* preferred_by_kind).
THEOREM SignalsReach == PageSpec => []SignalsCount
<1>1. ASSUME PageInv PROVE SignalsCount
  <2>1. Found = ToSet(found)
    <3>1. DOMAIN found = 1..Len(found)
      BY <1>1 DEF PageInv, PageTyped
    <3> QED BY <3>1 DEF Found, ToSet
  <2>2. SignalsStay
    BY <1>1, <2>1 DEF PageInv, MarkedIsKept, SignalsStay
  <2>3. ClearIsPreferred
    <3>1. CASE step = "done"
      BY <1>1, <3>1 DEF PageInv, ChosenHolds
    <3>2. CASE step # "done"
      <4>1. Chosen = {}
        BY <1>1, <3>2 DEF PageInv, Order, Chosen
      <4> QED BY <4>1 DEF ClearIsPreferred
    <3> QED BY <3>1, <3>2
  <2> QED BY <2>2, <2>3 DEF SignalsCount
<1> QED BY <1>1, PageInvHolds, PTL
=============================================================================
