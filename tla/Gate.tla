-------------------------------- MODULE Gate --------------------------------
(***************************************************************************)
(* The embedder gate of plugmem-host (embedder.rs) between the verbs of a  *)
(* Database, a reembed, and providers that come and go.                    *)
(*                                                                         *)
(* A verb that wants a vector takes the provider out of the gate's slot,   *)
(* checks the vector space it would produce, calls it without any lock,    *)
(* tells the gate how that went and only then takes the state lock.        *)
(* Between any two of these steps the provider may be suspended, resumed   *)
(* or replaced, and a reembed may move the database to another space.      *)
(*                                                                         *)
(* A provider is named by its vector space.  A deadline is the ticks left  *)
(* until it: only differences of the clock matter.                         *)
(***************************************************************************)
EXTENDS Naturals

CONSTANTS
  Writers,   \* threads that remember (or revise: the same path)
  Readers,   \* threads that recall
  Spaces,    \* providers, by the vector space they produce
  Given,     \* the space of a vector the caller brought, not a provider's
  NoSpace,   \* no provider; no recorded space; no vector
  Policies,  \* EmbedErrorPolicy: "Fail", "Degrade"
  Retries,   \* EmbedRetry: "Backoff", "Fixed", "Manual"
  First,     \* ticks of the first wait
  MaxWait,   \* ticks the doubling stops at
  MaxFails   \* where `failures` saturates (u32::MAX in the code)

ASSUME GateAssumption == /\ First \in Nat \ {0} /\ MaxWait \in Nat /\ First <= MaxWait
                         /\ MaxFails \in Nat \ {0}
                         /\ NoSpace \notin Spaces /\ Given \notin Spaces
                         /\ NoSpace # Given

VARIABLES
  policy, retry,  \* EmbedderGate::policy and ::retry
  provider,       \* EmbedderSlot::provider
  suspended,      \* ::suspended_until: "no", "until" a deadline, "indefinitely"
  left,           \* ticks to the deadline, when there is one
  failures,       \* ::failures
  space,          \* the vector space the engine has recorded
  pool,           \* the spaces of the vectors it stores
  reembed,        \* the reembed under way, if any
  calls,          \* the verbs under way
  decided         \* history: suspended by a caller, and not resumed since

slotVars   == <<provider, suspended, left, failures>>
engineVars == <<space, pool>>
gateVars == <<policy, retry, slotVars, engineVars, reembed, calls, decided>>

Callers == Writers \cup Readers

CallPC    == {"idle", "check", "calling", "apply"}
ReembedPC == {"idle", "chosen", "frozen", "built", "published"}

\* vec: the space of the provider chosen, then of the vector in hand.  stale:
\* history, the stored vectors have changed space since it was checked.
Call == [pc : CallPC, vec : Spaces \cup {NoSpace}, stale : BOOLEAN]

NoCall    == [pc |-> "idle", vec |-> NoSpace, stale |-> FALSE]
NoReembed == [pc |-> "idle", target |-> NoSpace, install |-> FALSE]

-----------------------------------------------------------------------------
(* The slot.                                                               *)

\* EmbedRetry::wait after n >= 1 failures; never called for "Manual".
Wait(n) == IF retry = "Fixed" \/ n = 1 THEN First
           ELSE IF First * 2^(n - 1) <= MaxWait THEN First * 2^(n - 1)
           ELSE MaxWait

OneMore == IF failures < MaxFails THEN failures + 1 ELSE MaxFails

Due    == suspended = "until" /\ left = 0
Usable == provider # NoSpace /\ (suspended = "no" \/ Due)

\* A bug HalfOpen must not have: a deadline that has passed is not cleared.
HalfOpenNever == UNCHANGED <<suspended, left>>

\* usable: whoever finds the deadline passed clears it.
HalfOpen == /\ suspended' = IF Due THEN "no" ELSE suspended
            /\ UNCHANGED left

\* A bug NoteFailure must not have: a suspension, explicit or not, overwritten.
NoteFailureAlways ==
  /\ failures' = OneMore
  /\ IF retry = "Manual" THEN suspended' = "indefinitely" /\ left' = 0
     ELSE suspended' = "until" /\ left' = Wait(failures')
  /\ UNCHANGED provider

\* note_failure: what is suspended already stays as it is.
NoteFailure ==
  /\ failures' = OneMore
  /\ CASE suspended # "no"  -> UNCHANGED <<suspended, left>>
       [] retry = "Manual"  -> suspended' = "indefinitely" /\ UNCHANGED left
       [] OTHER             -> suspended' = "until" /\ left' = Wait(failures')
  /\ UNCHANGED provider

Suspend == /\ suspended' = "indefinitely" /\ left' = 0
           /\ decided' = TRUE
           /\ UNCHANGED <<policy, retry, provider, failures, engineVars, reembed, calls>>

Resume == /\ suspended' = "no" /\ left' = 0
          /\ decided' = FALSE
          /\ UNCHANGED <<policy, retry, provider, failures, engineVars, reembed, calls>>

\* EmbedderGate::state goes through the half-open step too.
ReadState == /\ Due
             /\ HalfOpen
             /\ UNCHANGED <<policy, retry, provider, failures, engineVars, reembed, calls, decided>>

Tick == /\ left > 0
        /\ left' = left - 1
        /\ UNCHANGED <<policy, retry, provider, suspended, failures, engineVars, reembed,
                       calls, decided>>

-----------------------------------------------------------------------------
(* The verbs: remember, revise, remember_many, and recall.                 *)

At(c, p) == calls' = [calls EXCEPT ![c].pc = p]
Done(c)  == calls' = [calls EXCEPT ![c] = NoCall]

\* History: what the calls that passed their check find when they apply.
Overtaken(s) == [c \in Callers |-> [calls[c] EXCEPT
                   !.stale = @ \/ (calls[c].pc \notin {"idle", "check"} /\ calls[c].vec # s)]]

\* usable: the provider to call, or nothing and the verb goes on without.
Ask(c) ==
  /\ calls[c].pc = "idle"
  /\ calls' = [calls EXCEPT ![c] =
                 IF Usable THEN [NoCall EXCEPT !.pc = "check", !.vec = provider]
                 ELSE [NoCall EXCEPT !.pc = "apply"]]
  /\ HalfOpen
  /\ UNCHANGED <<policy, retry, provider, failures, engineVars, reembed, decided>>

\* A bug SpaceFits must not have: the recorded space not looked at.
SpaceFitsAlways(s) == TRUE

\* Database::check_vector_space returns Ok.
SpaceFits(s) == space = s \/ pool = {}

\* A mismatch fails the verb under either policy.
Check(c) ==
  /\ calls[c].pc = "check"
  /\ IF SpaceFits(calls[c].vec) THEN At(c, "calling") ELSE Done(c)
  /\ UNCHANGED <<policy, retry, slotVars, engineVars, reembed, decided>>

\* The round trip answered: note_success.
Succeed(c) ==
  /\ calls[c].pc = "calling"
  /\ failures' = 0
  /\ At(c, "apply")
  /\ UNCHANGED <<policy, retry, provider, suspended, left, engineVars, reembed, decided>>

\* It did not (a refusal, a timeout, vectors of another shape): degrade, by which
\* the verb fails or goes on without the vector.
Fail(c) ==
  /\ calls[c].pc = "calling"
  /\ IF policy = "Fail" THEN Done(c) /\ UNCHANGED slotVars
     ELSE calls' = [calls EXCEPT ![c].pc = "apply", ![c].vec = NoSpace] /\ NoteFailure
  /\ UNCHANGED <<policy, retry, engineVars, reembed, decided>>

\* A bug Claims must not have: the vector stored on the strength of Check.
ClaimsUnchecked(s) == TRUE

\* claim_vector_space under the write guard.
Claims(s) == space = s \/ pool = {}

Remember(c) ==
  /\ calls[c].pc = "apply"
  /\ LET s == calls[c].vec
         busy == reembed.pc \notin {"idle", "chosen", "published"}
     IN IF busy \/ s = NoSpace \/ ~Claims(s) THEN UNCHANGED engineVars /\ Done(c)
        ELSE /\ space' = s /\ pool' = pool \cup {s}
             /\ calls' = [Overtaken(s) EXCEPT ![c] = NoCall]
  /\ UNCHANGED <<policy, retry, slotVars, reembed, decided>>

\* recall_into under the read guard.
Recall(c) ==
  /\ calls[c].pc = "apply"
  /\ Done(c)
  /\ UNCHANGED <<policy, retry, slotVars, engineVars, reembed, decided>>

\* A remember with the caller's own vector claims nothing; forgets and a
\* maintenance pass may leave no vector at all.
OwnVectors ==
  /\ reembed.pc \in {"idle", "chosen", "published"}
  /\ pool' \in {pool \cup {Given}, {}}
  /\ UNCHANGED <<policy, retry, slotVars, space, reembed, calls, decided>>

-----------------------------------------------------------------------------
(* Reembed.                                                                *)

\* reembed wants the gate's own provider, usable now; reembed_with brings one.
ChooseTarget ==
  /\ reembed.pc = "idle"
  /\ \/ /\ Usable
        /\ HalfOpen
        /\ reembed' = [pc |-> "chosen", target |-> provider, install |-> FALSE]
     \/ /\ \E s \in Spaces : reembed' = [pc |-> "chosen", target |-> s, install |-> TRUE]
        /\ UNCHANGED <<suspended, left>>
  /\ UNCHANGED <<policy, retry, provider, failures, engineVars, calls, decided>>

ReembedAt(p) == reembed' = [reembed EXCEPT !.pc = p]

\* The barrier goes up, the state lock is let go.
Freeze ==
  /\ reembed.pc = "chosen"
  /\ ReembedAt("frozen")
  /\ UNCHANGED <<policy, retry, slotVars, engineVars, calls, decided>>

\* The target answers for every fact, past the gate.
Build ==
  /\ reembed.pc = "frozen"
  /\ ReembedAt("built")
  /\ UNCHANGED <<policy, retry, slotVars, engineVars, calls, decided>>

\* commit_detached_snapshot and open_engine: every vector is the target's, and
\* facts that had none may have one now.
Publish ==
  /\ reembed.pc = "built"
  /\ space' = reembed.target
  /\ pool' \in {{reembed.target}} \cup (IF pool = {} THEN {{}} ELSE {})
  /\ IF reembed.install THEN ReembedAt("published") ELSE reembed' = NoReembed
  /\ calls' = Overtaken(reembed.target)
  /\ UNCHANGED <<policy, retry, slotVars, decided>>

\* An answer or the publication failed: the barrier comes down, nothing changed.
Abandon ==
  /\ reembed.pc \in {"frozen", "built"}
  /\ reembed' = NoReembed
  /\ UNCHANGED <<policy, retry, slotVars, engineVars, calls, decided>>

\* EmbedderGate::install, after the state lock is free again; it lifts an
\* explicit suspension too.
Install ==
  /\ reembed.pc = "published"
  /\ provider' = reembed.target
  /\ suspended' = "no" /\ left' = 0 /\ failures' = 0
  /\ decided' = FALSE
  /\ reembed' = NoReembed
  /\ UNCHANGED <<policy, retry, engineVars, calls>>

-----------------------------------------------------------------------------
\* A database opens with any provider, or none, whatever its vectors' space is.
GateInit ==
  /\ policy \in Policies /\ retry \in Retries
  /\ provider \in Spaces \cup {NoSpace}
  /\ suspended = "no" /\ left = 0 /\ failures = 0
  /\ space \in Spaces \cup {NoSpace}
  /\ pool \in {{}, IF space = NoSpace THEN {Given} ELSE {space}}
  /\ reembed = NoReembed
  /\ calls = [c \in Callers |-> NoCall]
  /\ decided = FALSE

Step(c) == Check(c) \/ Succeed(c) \/ Fail(c)
Verb    == \/ \E c \in Callers : Ask(c) \/ Step(c)
           \/ \E c \in Writers : Remember(c)
           \/ \E c \in Readers : Recall(c)
Reembed == ChooseTarget \/ Freeze \/ Build \/ Publish \/ Abandon \/ Install

GateNext == Verb \/ Suspend \/ Resume \/ ReadState \/ Tick \/ OwnVectors \/ Reembed

\* Time passes, and a verb under way is a running thread whose round trip has a
\* timeout.  Nobody is obliged to call a verb.
GateFairness == /\ WF_gateVars(Tick)
                /\ \A c \in Callers : WF_gateVars(Step(c))
                /\ \A c \in Writers : WF_gateVars(Remember(c))
                /\ \A c \in Readers : WF_gateVars(Recall(c))

GateSpec == GateInit /\ [][GateNext]_gateVars /\ GateFairness

-----------------------------------------------------------------------------
(* Properties.                                                             *)

\* The type of the variables, and a reembed under way has a provider to go to.
GateTypeOK ==
  /\ policy \in Policies /\ retry \in Retries
  /\ provider \in Spaces \cup {NoSpace}
  /\ suspended \in {"no", "until", "indefinitely"}
  /\ failures \in 0..MaxFails
  /\ space \in Spaces \cup {NoSpace}
  /\ pool \subseteq Spaces \cup {Given}
  /\ reembed \in [pc : ReembedPC, target : Spaces \cup {NoSpace}, install : BOOLEAN]
  /\ reembed.pc # "idle" => reembed.target \in Spaces
  /\ calls \in [Callers -> Call]
  /\ decided \in BOOLEAN

\* "An explicit suspension outranks a failure's timer" (embedder.rs:311-312): until
\* the caller resumes it, or installs another provider, no clock and no late
\* failure of a call that was under way makes the provider usable again.
DecisionHolds == decided => suspended = "indefinitely"

\* A provider's vectors are stored beside vectors of the same space only, though
\* the space was checked before the round trip and a reembed ended during it
\* (06-host.md: "storing it would mix two spaces in one index").
StoredInOneSpace == pool \cap Spaces \subseteq {space}

\* A recall compares its vector with stored vectors of its own space; a mismatch
\* "fails, loudly" (plugmem-host/README.md:599).  Excepted is a recall during whose
\* round trip a reembed or the first remember moved the database to another
\* space: the engine does not look again.
RecallsInSpace ==
  [][\A c \in Readers :
       Recall(c) /\ calls[c].vec # NoSpace /\ ~calls[c].stale
         => pool \cap Spaces \subseteq {calls[c].vec}]_gateVars

\* A degraded database comes back by itself: once no call fails, if verbs go on
\* asking for vectors and nobody suspends it for good, the provider is suspended no
\* more ("the retry rides on the next call", embedder.rs:287-288).
ComesBack ==
  /\ <>[][\A c \in Callers : ~Fail(c)]_gateVars
  /\ <>[](suspended # "indefinitely")
  /\ []<><<\E c \in Callers : Ask(c)>>_gateVars
  => <>[](suspended = "no")
=============================================================================
