------------------------------- MODULE MCMedia -------------------------------
(***************************************************************************)
(* Small instances of JobOwner, Discovery and Acquisition for TLC: for     *)
(* whom a thread runs a job, what a job finds, and how one candidate is    *)
(* acquired.  They share no state; a behaviour is about one of three       *)
(* settings: "owner", "page", of nested or of mixed elements, and          *)
(* "candidate".                                                            *)
(***************************************************************************)
EXTENDS JobOwner, Discovery, Acquisition, TLC

INSTANCE SampleMedia

VARIABLE setting

\* The candidates to acquire.
Offers == OfEveryKind \cup OfRenditions

\* Threads are alike, and so are jobs.
Same == Permutations(Threads) \cup Permutations(Jobs)

allVars == <<setting, vars, pageVars, kindVars>>

\* A setting begins with its own first states; the other parts rest.
PageRests == /\ sample = None /\ page = None /\ step = "rest" /\ marked = FALSE
             /\ inside = Outside /\ urls = <<>>
             /\ evidence = <<>> /\ blocks = <<>> /\ seen = {} /\ found = <<>> /\ chosen = <<>>
             /\ open = <<>> /\ said = {} /\ elements = 0
KindRests == /\ candidate = Offered("page", FALSE, FALSE, {}) /\ profile = {} /\ worker = {} /\ format = {}
             /\ run = 1 /\ at = "rest" /\ left = <<>> /\ staging = <<>> /\ paths = {} /\ sources = <<>>
             /\ error = None /\ failures = {} /\ quarantine = {}
MediaInit ==
  /\ Init
  /\ \/ setting = "owner" /\ PageRests /\ KindRests
     \/ setting = "page" /\ PageInit /\ KindRests
     \/ setting = "candidate" /\ PageRests /\ KindInit

Own     == setting = "owner" /\ Next /\ UNCHANGED <<setting, pageVars, kindVars>>
Read    == setting = "page" /\ PageNext /\ UNCHANGED <<setting, vars, kindVars>>
Acquire == setting = "candidate" /\ KindNext /\ UNCHANGED <<setting, vars, pageVars>>

MediaSpec == MediaInit /\ [][Own \/ Read \/ Acquire]_allVars
=============================================================================
