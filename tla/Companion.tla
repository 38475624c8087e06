----------------------------- MODULE Companion ------------------------------
(***************************************************************************)
(* Companion messages on their way to the worker (ContinuityBridge.swift). *)
(*                                                                         *)
(* The Apple TV sends each message to the saved Mac relay itself; what     *)
(* fails goes into a queue kept in UserDefaults.  Its root view and every  *)
(* App Intent make a transport of their own, with its own copy of that     *)
(* queue.  The watch hands its messages to its iPhone, which forwards each *)
(* of them in a task of its own.  The delegate on the Mac collects what it *)
(* receives and, with autoForward, forwards it in batches.                 *)
(***************************************************************************)
EXTENDS Integers, Sequences, SequencesExt, FiniteSets

CONSTANTS TVMessages,     \* messages the user sends on the Apple TV
          WatchMessages,  \* messages the user sends on the watch
          MacMessages,    \* messages the delegate on the Mac receives
          Transports,     \* instances of the Apple TV's transport
          MaxRestarts     \* bound on restarts of a transport

Messages == TVMessages \cup WatchMessages \cup MacMessages

\* A message is one that a user sends once, from one device.
ASSUME MessagesAssumption ==
    /\ TVMessages \cap WatchMessages = {} /\ TVMessages \cap MacMessages = {}
    /\ WatchMessages \cap MacMessages = {}

VARIABLES unsent,    \* messages the user has not sent yet
          calls,     \* requests to the Mac relay: [transport, message]
          pending,   \* fallback.relay.pending of each transport
          saved,     \* the queue in UserDefaults
          failed,    \* messages whose send threw on the Apple TV
          wire,      \* messages transferUserInfo has queued for the iPhone
          tasks,     \* messages the iPhone is forwarding
          relay,     \* the delegate's relay on the Mac
          batches,   \* batches being forwarded on the Mac
          reported,  \* messages whose failure was reported to their sender
          handled,   \* how often the worker was given each message
          restarts

tv == <<calls, pending, saved, failed, restarts>>
phone == <<wire, tasks>>
mac == <<relay, batches>>
relayVars == <<unsent, tv, phone, mac, reported, handled>>

RelayInit ==
    /\ unsent = Messages
    /\ calls = {} /\ failed = {} /\ saved = <<>> /\ restarts = 0
    /\ pending = [t \in Transports |-> <<>>]
    /\ wire = <<>> /\ tasks = {}
    /\ relay = <<>> /\ batches = {}
    /\ reported = {}
    /\ handled = [m \in Messages |-> 0]

Handle(m) == handled' = [handled EXCEPT ![m] = @ + 1]

-----------------------------------------------------------------------------
(* WebMediaDLLocalNetworkCompanionTransport *)
Send(t, m) ==
    /\ m \in unsent \cap TVMessages
    /\ unsent' = unsent \ {m}
    /\ calls' = calls \cup {[transport |-> t, message |-> m]}
    /\ UNCHANGED <<pending, saved, failed, restarts, phone, mac, reported, handled>>

Answered(c) ==
    /\ c \in calls
    /\ calls' = calls \ {c}
    /\ Handle(c.message)
    /\ UNCHANGED <<unsent, pending, saved, failed, restarts, phone, mac, reported>>

\* The queue in UserDefaults is read only by a transport that holds nothing.
\* Mutant: a transport never reads what an earlier one has saved.
KeptUnread(t, m) == Append(pending[t], m)
Kept(t, m) == Append(IF pending[t] = <<>> THEN saved ELSE pending[t], m)

\* The call throws: the worker may have been given the message or not.
Failed(c) ==
    LET queue == Kept(c.transport, c.message)
    IN /\ c \in calls
       /\ calls' = calls \ {c}
       /\ pending' = [pending EXCEPT ![c.transport] = queue]
       /\ saved' = queue
       /\ failed' = failed \cup {c.message}
       /\ reported' = reported \cup {c.message}
       /\ Handle(c.message) \/ UNCHANGED handled
       /\ UNCHANGED <<unsent, restarts, phone, mac>>

\* The app is killed or the intent is over, and a new transport is made; a
\* request under way may have reached the worker.
Restart(t) ==
    /\ restarts < MaxRestarts
    /\ restarts' = restarts + 1
    /\ calls' = {c \in calls : c.transport # t}
    /\ pending' = [pending EXCEPT ![t] = <<>>]
    /\ \E got \in SUBSET {c.message : c \in calls \ calls'} :
          handled' = [m \in Messages |-> handled[m] + (IF m \in got THEN 1 ELSE 0)]
    /\ UNCHANGED <<unsent, saved, failed, phone, mac, reported>>

-----------------------------------------------------------------------------
(* WebMediaDLWatchConnectivityTransport, and onReceivedMessage on the iPhone *)
Transfer(m) ==
    /\ m \in unsent \cap WatchMessages
    /\ unsent' = unsent \ {m}
    /\ wire' = Append(wire, m)
    /\ UNCHANGED <<tv, tasks, mac, reported, handled>>

Received ==
    /\ wire # <<>>
    /\ wire' = Tail(wire)
    /\ tasks' = tasks \cup {Head(wire)}
    /\ UNCHANGED <<unsent, tv, mac, reported, handled>>

\* A forward that throws is shown on the iPhone and the message is gone.
\* Mutant: a forward that throws is tried again.
ForwardAgain(m) ==
    /\ m \in tasks
    /\ \/ Handle(m) /\ UNCHANGED reported /\ tasks' = tasks \ {m}
       \/ reported' = reported \cup {m} /\ UNCHANGED tasks
          /\ (IF handled[m] < 2 THEN Handle(m) ELSE UNCHANGED handled)
    /\ UNCHANGED <<unsent, tv, wire, mac>>
Forward(m) ==
    /\ m \in tasks
    /\ tasks' = tasks \ {m}
    /\ \/ Handle(m) /\ UNCHANGED reported
       \/ reported' = reported \cup {m} /\ (Handle(m) \/ UNCHANGED handled)
    /\ UNCHANGED <<unsent, tv, wire, mac>>

-----------------------------------------------------------------------------
(* WebMediaDLMacWatchConnectivityDelegate with autoForward: the whole relay  *)
(* becomes one batch, and a call that throws ends the batch.                 *)
Collect(m) ==
    /\ m \in unsent \cap MacMessages
    /\ unsent' = unsent \ {m}
    /\ relay' = Append(relay, m)
    /\ UNCHANGED <<tv, phone, batches, reported, handled>>

Batch ==
    /\ relay # <<>>
    /\ batches' = batches \cup {relay}
    /\ relay' = <<>>
    /\ UNCHANGED <<unsent, tv, phone, reported, handled>>

Rest(b) == IF Len(b) = 1 THEN {} ELSE {Tail(b)}

ForwardBatch(b) ==
    /\ b \in batches
    /\ UNCHANGED relay
    /\ \/ /\ Handle(Head(b))
          /\ batches' = (batches \ {b}) \cup Rest(b)
          /\ UNCHANGED reported
       \/ /\ batches' = batches \ {b}
          /\ reported' = reported \cup {Head(b)}
          /\ Handle(Head(b)) \/ UNCHANGED handled
    /\ UNCHANGED <<unsent, tv, phone>>

-----------------------------------------------------------------------------
RelayNext ==
    \/ \E t \in Transports : Restart(t) \/ \E m \in TVMessages : Send(t, m)
    \/ \E c \in calls : Answered(c) \/ Failed(c)
    \/ \E m \in Messages : Transfer(m) \/ Forward(m) \/ Collect(m)
    \/ Received \/ Batch
    \/ \E b \in batches : ForwardBatch(b)

RelaySpec == RelayInit /\ [][RelayNext]_relayVars

\* No message is given to the worker twice: whatever fails on the way, a
\* pause or a capture is never repeated (no transport sends a message again).
HandledOnce == \A m \in Messages : handled[m] <= 1

\* A message whose send threw on the Apple TV is in the saved queue, once, as
\* long as the app has one transport at a time.
QueuedIsKept ==
    (\A t, u \in Transports : t = u) => \A m \in failed : Cardinality({i \in 1..Len(saved) : saved[i] = m}) = 1

\* A send that threw may have reached the worker: the message is neither
\* repeated nor forgotten, over restarts of the app (send, append, pending).
FailedSendIsKept == HandledOnce /\ QueuedIsKept
=============================================================================
