----------------------------- MODULE HostProofs -----------------------------
(***************************************************************************)
(* What holds of the pieces of the host for any number of whoever uses     *)
(* them: the embedder's gate, the pool of open databases, the tasks of the *)
(* Node binding, and the passes of maintenance.                            *)
(*                                                                         *)
(* Of the gate, DecisionHolds and StoredInOneSpace are inductive beside    *)
(* the types.  RecallsInSpace is not: a recall checks its space two steps  *)
(* before it compares, so the invariant (CallsFit) says of every call      *)
(* between its check and its end that the stored vectors still fit it,     *)
(* unless they have changed space since.                                   *)
(*                                                                         *)
(* That a lease's entry stays (PinHolds) rests on the counts: an entry is  *)
(* evicted, swept or released when its count is zero, so the count must be *)
(* exactly that of the leases on it, those half dropped included.          *)
(***************************************************************************)
EXTENDS Gate, Workspace, NodeHandle, Maintenance, SequenceTheorems, FiniteSetTheorems, TLAPS

(* The gate.                                                               *)

Fits(s) == pool \cap Spaces \subseteq {s}

CallsFit ==
  \A c \in Callers :
    calls[c].pc \in {"calling", "apply"} /\ calls[c].vec # NoSpace /\ ~calls[c].stale
      => Fits(calls[c].vec)

GateInv == GateTypeOK /\ DecisionHolds /\ StoredInOneSpace /\ CallsFit

-----------------------------------------------------------------------------
(* Steps.                                                                  *)

\* The gate opens in the invariant.
LEMMA GateStarts == GateInit => GateInv
<1> SUFFICES ASSUME GateInit PROVE GateInv
  OBVIOUS
<1> USE GateAssumption DEF GateInit
<1>1. NoCall \in Call
  BY DEF NoCall, Call, CallPC
<1>2. GateTypeOK
  <2>1. calls \in [Callers -> Call]
    BY <1>1
  <2>2. /\ reembed \in [pc : ReembedPC, target : Spaces \cup {NoSpace}, install : BOOLEAN]
        /\ reembed.pc = "idle"
    BY DEF NoReembed, ReembedPC
  <2>3. pool \subseteq Spaces \cup {Given}
    OBVIOUS
  <2>4. /\ policy \in Policies /\ retry \in Retries
        /\ provider \in Spaces \cup {NoSpace} /\ space \in Spaces \cup {NoSpace}
        /\ suspended \in {"no", "until", "indefinitely"} /\ failures \in 0..MaxFails
    OBVIOUS
  <2>5. decided \in BOOLEAN
    OBVIOUS
  <2> HIDE DEF GateInit
  <2> QED
    BY <2>1, <2>2, <2>3, <2>4, <2>5 DEF GateTypeOK
<1>3. StoredInOneSpace
  BY DEF StoredInOneSpace
<1>4. DecisionHolds /\ CallsFit
  BY DEF DecisionHolds, CallsFit, NoCall
<1> QED
  BY <1>2, <1>3, <1>4 DEF GateInv

\* The half-open step touches nothing a caller decided.
LEMMA HalfOpenKeeps ==
  ASSUME GateInv, HalfOpen
  PROVE  /\ suspended' \in {"no", "until", "indefinitely"}
         /\ suspended = "indefinitely" => suspended' = "indefinitely"
BY DEF GateInv, GateTypeOK, HalfOpen, Due

\* A failure that arrives late does not overwrite it either.
LEMMA FailureKeeps ==
  ASSUME GateInv, NoteFailure
  PROVE  /\ suspended' \in {"no", "until", "indefinitely"}
         /\ suspended = "indefinitely" => suspended' = "indefinitely"
         /\ failures' \in 0..MaxFails
         /\ provider' = provider
<1>1. suspended \in {"no", "until", "indefinitely"} /\ failures \in 0..MaxFails
  BY DEF GateInv, GateTypeOK
<1>2. failures' \in 0..MaxFails
  BY <1>1, GateAssumption DEF NoteFailure, OneMore
<1>3. CASE suspended # "no"
  BY <1>1, <1>2, <1>3 DEF NoteFailure
<1>4. CASE suspended = "no" /\ retry = "Manual"
  BY <1>1, <1>2, <1>4 DEF NoteFailure
<1>5. CASE suspended = "no" /\ retry # "Manual"
  BY <1>1, <1>2, <1>5 DEF NoteFailure
<1> QED
  BY <1>3, <1>4, <1>5

\* A step that leaves the engine alone and moves no call to where a vector is
\* compared, but with no vector or from where it had the same one.
Harmless(c) ==
  \/ calls'[c] = calls[c]
  \/ calls'[c].pc \in {"idle", "check"}
  \/ calls'[c].vec = NoSpace
  \/ /\ calls[c].pc = "calling"
     /\ calls'[c].vec = calls[c].vec /\ calls'[c].stale = calls[c].stale

\* Such a step breaks neither invariant about the stored vectors.
LEMMA EngineAlone ==
  ASSUME GateInv, UNCHANGED engineVars, \A c \in Callers : Harmless(c)
  PROVE  StoredInOneSpace' /\ CallsFit'
<1>1. StoredInOneSpace'
  BY DEF GateInv, StoredInOneSpace, engineVars
<1>2. ASSUME NEW c \in Callers,
             calls'[c].pc \in {"calling", "apply"}, calls'[c].vec # NoSpace, ~calls'[c].stale
      PROVE  pool' \cap Spaces \subseteq {calls'[c].vec}
  <2>1. Fits(calls'[c].vec)
    BY <1>2 DEF GateInv, CallsFit, Harmless
  <2> QED
    BY <2>1 DEF Fits, engineVars
<1> QED
  BY <1>1, <1>2 DEF CallsFit, Fits

\* A call that moves on keeps its type.
LEMMA CallMoves ==
  ASSUME calls \in [Callers -> Call], NEW c \in Callers, NEW p \in CallPC
  PROVE  [calls EXCEPT ![c].pc = p] \in [Callers -> Call]
<1>1. [calls[c] EXCEPT !.pc = p] \in Call
  BY DEF Call
<1> QED
  BY <1>1

\* So does one that ends.
LEMMA CallEnds ==
  ASSUME calls \in [Callers -> Call], NEW c \in Callers
  PROVE  [calls EXCEPT ![c] = NoCall] \in [Callers -> Call]
<1>1. NoCall \in Call
  BY DEF NoCall, Call, CallPC
<1> QED
  BY <1>1

\* The steps of a verb that leave the engine alone.
LEMMA VerbStep ==
  ASSUME GateInv, NEW c \in Callers, Ask(c) \/ Step(c) \/ Recall(c)
  PROVE  GateInv'
<1> USE DEF GateInv
<1>0. calls \in [Callers -> Call] /\ calls[c] \in Call
  BY DEF GateTypeOK
<1>1. CASE Ask(c)
  <2> DEFINE next == IF Usable THEN [NoCall EXCEPT !.pc = "check", !.vec = provider]
                     ELSE [NoCall EXCEPT !.pc = "apply"]
  <2>1. calls' = [calls EXCEPT ![c] = next] /\ HalfOpen
    BY <1>1 DEF Ask
  <2>2. next \in Call /\ (next.pc = "check" \/ next.vec = NoSpace)
    BY DEF NoCall, Call, CallPC, GateTypeOK
  <2>3. calls' \in [Callers -> Call]
    BY <1>0, <2>1, <2>2
  <2>4. \A d \in Callers : Harmless(d)
    BY <1>0, <2>1, <2>2 DEF Harmless
  <2>5. StoredInOneSpace' /\ CallsFit'
    BY <1>1, <2>4, EngineAlone DEF Ask
  <2>6. GateTypeOK'
    BY <1>1, <2>1, <2>3, HalfOpenKeeps DEF Ask, GateTypeOK, engineVars
  <2>7. DecisionHolds'
    BY <1>1, <2>1, HalfOpenKeeps DEF Ask, DecisionHolds
  <2> QED
    BY <2>5, <2>6, <2>7
<1>2. CASE Check(c)
  <2>1. calls' \in [Callers -> Call]
    <3>1. CASE SpaceFits(calls[c].vec)
      BY <1>0, <1>2, <3>1, CallMoves DEF Check, At, CallPC
    <3>2. CASE ~SpaceFits(calls[c].vec)
      BY <1>0, <1>2, <3>2, CallEnds DEF Check, Done
    <3> QED
      BY <3>1, <3>2
  <2>2. GateTypeOK' /\ DecisionHolds' /\ StoredInOneSpace'
    BY <1>2, <2>1 DEF Check, GateTypeOK, DecisionHolds, StoredInOneSpace, slotVars, engineVars
  <2>3. ASSUME NEW d \in Callers,
               calls'[d].pc \in {"calling", "apply"}, calls'[d].vec # NoSpace, ~calls'[d].stale
        PROVE  Fits(calls'[d].vec)
    <3>1. CASE d # c
      BY <1>0, <1>2, <2>3, <3>1 DEF Check, At, Done, CallsFit
    <3>2. CASE d = c
      <4>1. SpaceFits(calls[c].vec) /\ calls'[c].vec = calls[c].vec
        BY <1>0, <1>2, <2>3, <3>2 DEF Check, At, Done, NoCall, Call
      <4> QED
        BY <3>2, <4>1 DEF SpaceFits, Fits, StoredInOneSpace
    <3> QED
      BY <3>1, <3>2
  <2>4. CallsFit'
    BY <1>2, <2>3 DEF CallsFit, Fits, Check, engineVars
  <2> QED
    BY <2>2, <2>4
<1>3. CASE Succeed(c)
  <2>1. calls' \in [Callers -> Call]
    BY <1>0, <1>3 DEF Succeed, At, Call, CallPC
  <2>2. \A d \in Callers : Harmless(d)
    BY <1>0, <1>3 DEF Succeed, At, Harmless, Call
  <2>3. GateTypeOK' /\ DecisionHolds'
    BY <1>3, <2>1, GateAssumption DEF Succeed, GateTypeOK, DecisionHolds, engineVars
  <2> QED
    BY <1>3, <2>2, <2>3, EngineAlone DEF Succeed
<1>4. CASE Fail(c)
  <2>1. calls' \in [Callers -> Call]
    <3>1. CASE policy = "Fail"
      BY <1>0, <1>4, <3>1, CallEnds DEF Fail, Done
    <3>2. CASE policy # "Fail"
      <4>1. calls' = [calls EXCEPT ![c] = [calls[c] EXCEPT !.pc = "apply", !.vec = NoSpace]]
        BY <1>0, <1>4, <3>2 DEF Fail
      <4>2. [calls[c] EXCEPT !.pc = "apply", !.vec = NoSpace] \in Call
        BY <1>0 DEF Call, CallPC
      <4> QED
        BY <1>0, <4>1, <4>2
    <3> QED
      BY <3>1, <3>2
  <2>2. \A d \in Callers : Harmless(d)
    BY <1>0, <1>4 DEF Fail, Done, NoCall, Harmless, Call
  <2>3. NoteFailure \/ UNCHANGED slotVars
    BY <1>4 DEF Fail
  <2>4. GateTypeOK' /\ DecisionHolds'
    BY <1>4, <2>1, <2>3, FailureKeeps DEF Fail, GateTypeOK, DecisionHolds, slotVars, engineVars
  <2> QED
    BY <1>4, <2>2, <2>4, EngineAlone DEF Fail
<1>5. CASE Recall(c)
  <2>1. calls' \in [Callers -> Call]
    BY <1>0, <1>5, CallEnds DEF Recall, Done
  <2>2. \A d \in Callers : Harmless(d)
    BY <1>0, <1>5 DEF Recall, Done, NoCall, Harmless
  <2>3. GateTypeOK' /\ DecisionHolds'
    BY <1>5, <2>1 DEF Recall, GateTypeOK, DecisionHolds, slotVars, engineVars
  <2> QED
    BY <1>5, <2>2, <2>3, EngineAlone DEF Recall
<1> QED
  BY <1>1, <1>2, <1>3, <1>4, <1>5 DEF Step

-----------------------------------------------------------------------------
(* The steps that store vectors, and what they make of the calls.          *)

\* Marking calls as overtaken types them and moves none.
LEMMA OvertakenCalls ==
  ASSUME GateInv, NEW s \in Spaces
  PROVE  /\ Overtaken(s) \in [Callers -> Call]
         /\ \A c \in Callers :
              /\ Overtaken(s)[c].pc = calls[c].pc /\ Overtaken(s)[c].vec = calls[c].vec
              /\ calls[c].pc \in {"calling", "apply"} /\ calls[c].vec # s
                   => Overtaken(s)[c].stale
<1>1. calls \in [Callers -> Call]
  BY DEF GateInv, GateTypeOK
<1> DEFINE mark(c) == calls[c].stale \/ (calls[c].pc \notin {"idle", "check"} /\ calls[c].vec # s)
<1>2. \A c \in Callers : mark(c) \in BOOLEAN
  BY <1>1 DEF Call
<1>3. Overtaken(s) = [c \in Callers |-> [calls[c] EXCEPT !.stale = mark(c)]]
  BY <1>1 DEF Overtaken, Call
<1>4. \A c \in Callers : calls[c].pc \in {"calling", "apply"} /\ calls[c].vec # s => mark(c)
  OBVIOUS
<1> HIDE DEF mark
<1>5. \A c \in Callers : /\ [calls[c] EXCEPT !.stale = mark(c)] \in Call
                         /\ [calls[c] EXCEPT !.stale = mark(c)].pc = calls[c].pc
                         /\ [calls[c] EXCEPT !.stale = mark(c)].vec = calls[c].vec
                         /\ [calls[c] EXCEPT !.stale = mark(c)].stale = mark(c)
  BY <1>1, <1>2 DEF Call
<1> QED
  BY <1>3, <1>4, <1>5

\* A remember leaves the stored vectors in one space, and the calls that had
\* checked another are overtaken.
LEMMA RememberStep ==
  ASSUME GateInv, NEW c \in Callers, Remember(c)
  PROVE  GateInv'
<1> USE DEF GateInv
<1> DEFINE s == calls[c].vec
           busy == reembed.pc \notin {"idle", "chosen", "published"}
<1>0. calls \in [Callers -> Call] /\ calls[c] \in Call
  BY DEF GateTypeOK
<1>1. CASE busy \/ s = NoSpace \/ ~Claims(s)
  <2>1. UNCHANGED engineVars /\ Done(c)
    BY <1>1 DEF Remember
  <2>2. calls' \in [Callers -> Call]
    BY <1>0, <2>1, CallEnds DEF Done
  <2>3. \A d \in Callers : Harmless(d)
    BY <1>0, <2>1 DEF Done, NoCall, Harmless
  <2>4. GateTypeOK' /\ DecisionHolds'
    BY <2>1, <2>2 DEF Remember, GateTypeOK, DecisionHolds, slotVars, engineVars
  <2> QED
    BY <2>1, <2>3, <2>4, EngineAlone
<1>2. CASE ~busy /\ s # NoSpace /\ Claims(s)
  <2>1. /\ space' = s /\ pool' = pool \cup {s}
        /\ calls' = [Overtaken(s) EXCEPT ![c] = NoCall]
    BY <1>2 DEF Remember
  <2>2. s \in Spaces
    BY <1>0, <1>2 DEF Call
  <2>3. pool' \cap Spaces = {s}
    BY <1>2, <2>1, <2>2 DEF Claims, StoredInOneSpace
  <2>4. NoCall \in Call /\ NoCall.pc = "idle"
    BY DEF NoCall, Call, CallPC
  <2>5. calls' \in [Callers -> Call]
    BY <2>1, <2>2, <2>4, OvertakenCalls
  <2>6. GateTypeOK' /\ DecisionHolds' /\ StoredInOneSpace'
    BY <2>1, <2>2, <2>3, <2>5
    DEF Remember, GateTypeOK, DecisionHolds, StoredInOneSpace, slotVars
  <2>7. ASSUME NEW d \in Callers,
               calls'[d].pc \in {"calling", "apply"}, ~calls'[d].stale
        PROVE  calls'[d].vec = s
    <3>1. d # c /\ calls'[d] = Overtaken(s)[d]
      BY <2>1, <2>2, <2>4, <2>7, OvertakenCalls
    <3> QED
      BY <2>2, <2>7, <3>1, OvertakenCalls
  <2>8. CallsFit'
    BY <2>3, <2>7 DEF CallsFit, Fits
  <2> QED
    BY <2>6, <2>8
<1> QED
  BY <1>1, <1>2

\* A publication replaces every vector by one of the target's space.
LEMMA PublishStep ==
  ASSUME GateInv, Publish
  PROVE  GateInv'
<1> USE DEF GateInv
<1> DEFINE t == reembed.target
<1>1. t \in Spaces
  BY DEF Publish, GateTypeOK
<1>2. pool' \cap Spaces \subseteq {t} /\ pool' \subseteq Spaces \cup {Given}
  BY <1>1 DEF Publish
<1>3. calls' = Overtaken(t)
  BY DEF Publish
<1>4. calls' \in [Callers -> Call]
  BY <1>1, <1>3, OvertakenCalls
<1>5. /\ reembed' \in [pc : ReembedPC, target : Spaces \cup {NoSpace}, install : BOOLEAN]
      /\ reembed'.pc # "idle" => reembed'.target \in Spaces
  <2>1. CASE reembed' = NoReembed
    BY <2>1 DEF ReembedPC, NoReembed
  <2>2. CASE reembed' = [reembed EXCEPT !.pc = "published"]
    BY <1>1, <2>2 DEF GateTypeOK, ReembedPC
  <2> QED
    BY <2>1, <2>2 DEF Publish, ReembedAt
<1>6. GateTypeOK' /\ DecisionHolds' /\ StoredInOneSpace'
  BY <1>1, <1>2, <1>4, <1>5
  DEF Publish, GateTypeOK, DecisionHolds, StoredInOneSpace, slotVars
<1>7. ASSUME NEW d \in Callers,
             calls'[d].pc \in {"calling", "apply"}, ~calls'[d].stale
      PROVE  calls'[d].vec = t
  BY <1>1, <1>3, <1>7, OvertakenCalls
<1>8. CallsFit'
  BY <1>2, <1>7 DEF CallsFit, Fits
<1> QED
  BY <1>6, <1>8

\* Vectors the caller brought are of no provider's space.
LEMMA OwnVectorsStep ==
  ASSUME GateInv, OwnVectors
  PROVE  GateInv'
<1> USE DEF GateInv
<1>1. pool' \cap Spaces \subseteq pool \cap Spaces /\ pool' \subseteq Spaces \cup {Given}
  BY GateAssumption DEF OwnVectors, GateTypeOK
<1>2. GateTypeOK' /\ DecisionHolds' /\ StoredInOneSpace'
  BY <1>1 DEF OwnVectors, GateTypeOK, DecisionHolds, StoredInOneSpace, slotVars
<1>3. CallsFit'
  BY <1>1 DEF OwnVectors, CallsFit, Fits
<1> QED
  BY <1>2, <1>3

-----------------------------------------------------------------------------
(* The slot, and the rest of a reembed.                                    *)

\* The steps on the slot alone.
LEMMA SlotStep ==
  ASSUME GateInv, Suspend \/ Resume \/ ReadState \/ Tick
  PROVE  GateInv'
<1> USE DEF GateInv
<1>1. UNCHANGED engineVars /\ UNCHANGED calls
  BY DEF Suspend, Resume, ReadState, Tick
<1>2. GateTypeOK' /\ DecisionHolds'
  <2>1. CASE Suspend
    BY <2>1 DEF Suspend, GateTypeOK, DecisionHolds, engineVars
  <2>2. CASE Resume
    BY <2>2 DEF Resume, GateTypeOK, DecisionHolds, engineVars
  <2>3. CASE ReadState
    BY <2>3, HalfOpenKeeps DEF ReadState, GateTypeOK, DecisionHolds, engineVars
  <2>4. CASE Tick
    BY <2>4 DEF Tick, GateTypeOK, DecisionHolds, engineVars
  <2> QED
    BY <2>1, <2>2, <2>3, <2>4
<1> QED
  BY <1>1, <1>2, EngineAlone DEF Harmless

\* The steps of a reembed before and after its publication.
LEMMA ReembedStep ==
  ASSUME GateInv, ChooseTarget \/ Freeze \/ Build \/ Abandon \/ Install
  PROVE  GateInv'
<1> USE DEF GateInv
<1> DEFINE Typed == /\ reembed' \in [pc : ReembedPC, target : Spaces \cup {NoSpace},
                                     install : BOOLEAN]
                    /\ reembed'.pc # "idle" => reembed'.target \in Spaces
<1>1. UNCHANGED engineVars /\ UNCHANGED calls
  BY DEF ChooseTarget, Freeze, Build, Abandon, Install
<1>2. GateTypeOK' /\ DecisionHolds'
  <2>1. CASE ChooseTarget
    <3>1. Typed
      <4>1. PICK s \in Spaces, b \in BOOLEAN :
              reembed' = [pc |-> "chosen", target |-> s, install |-> b]
        BY <2>1 DEF ChooseTarget, Usable, GateTypeOK
      <4>2. "chosen" \in ReembedPC
        BY DEF ReembedPC
      <4> QED
        BY <4>1, <4>2
    <3>2. /\ suspended' \in {"no", "until", "indefinitely"}
          /\ suspended = "indefinitely" => suspended' = "indefinitely"
      BY <2>1, HalfOpenKeeps DEF ChooseTarget, GateTypeOK
    <3> QED
      BY <2>1, <3>1, <3>2 DEF ChooseTarget, GateTypeOK, DecisionHolds, engineVars
  <2>2. CASE Freeze
    <3>1. Typed
      BY <2>2 DEF Freeze, ReembedAt, GateTypeOK, ReembedPC
    <3> QED
      BY <2>2, <3>1 DEF Freeze, GateTypeOK, DecisionHolds, engineVars, slotVars
  <2>3. CASE Build
    <3>1. Typed
      BY <2>3 DEF Build, ReembedAt, GateTypeOK, ReembedPC
    <3> QED
      BY <2>3, <3>1 DEF Build, GateTypeOK, DecisionHolds, engineVars, slotVars
  <2>4. CASE Abandon
    <3>1. Typed
      BY <2>4 DEF Abandon, NoReembed, ReembedPC
    <3> QED
      BY <2>4, <3>1 DEF Abandon, GateTypeOK, DecisionHolds, engineVars, slotVars
  <2>5. CASE Install
    <3>1. Typed
      BY <2>5 DEF Install, NoReembed, ReembedPC
    <3>2. reembed.target \in Spaces
      BY <2>5 DEF Install, GateTypeOK
    <3>3. failures' \in 0..MaxFails
      BY <2>5, GateAssumption DEF Install
    <3> QED
      BY <2>5, <3>1, <3>2, <3>3 DEF Install, GateTypeOK, DecisionHolds, engineVars
  <2> QED
    BY <2>1, <2>2, <2>3, <2>4, <2>5
<1> QED
  BY <1>1, <1>2, EngineAlone DEF Harmless

-----------------------------------------------------------------------------
(* The invariant, and what follows.                                        *)

\* Every step keeps the invariant.
LEMMA GateKeeps == GateInv /\ [GateNext]_gateVars => GateInv'
<1> SUFFICES ASSUME GateInv, [GateNext]_gateVars PROVE GateInv'
  OBVIOUS
<1>1. CASE Verb
  BY <1>1, VerbStep, RememberStep DEF Verb, Callers
<1>2. CASE Suspend \/ Resume \/ ReadState \/ Tick
  BY <1>2, SlotStep
<1>3. CASE OwnVectors
  BY <1>3, OwnVectorsStep
<1>4. CASE Reembed
  BY <1>4, PublishStep, ReembedStep DEF Reembed
<1>5. CASE UNCHANGED gateVars
  BY <1>5 DEF gateVars, slotVars, engineVars, GateInv, GateTypeOK, DecisionHolds,
              StoredInOneSpace, CallsFit, Fits
<1> QED
  BY <1>1, <1>2, <1>3, <1>4, <1>5 DEF GateNext

\* The invariant holds of the gate's specification.
LEMMA GateInvariant == GateSpec => []GateInv
  BY GateStarts, GateKeeps, PTL DEF GateSpec

\* The gate, the engine's space, the reembed and the calls keep their types, and a
\* reembed under way has a provider to go to (embedder.rs, db.rs).
THEOREM GateTypeCorrect == GateSpec => []GateTypeOK
<1>1. GateInv => GateTypeOK
  BY DEF GateInv
<1> QED
  BY <1>1, GateInvariant, PTL

\* For any callers, policies and waits, what a caller suspended stays suspended
\* until it resumes it or installs a provider (embedder.rs:311-312).
THEOREM DecisionsHold == GateSpec => []DecisionHolds
<1>1. GateInv => DecisionHolds
  BY DEF GateInv
<1> QED
  BY <1>1, GateInvariant, PTL

\* For any number of writers, readers and reembeds, the providers' vectors the
\* engine stores are of the one space it has recorded (claim_vector_space).
THEOREM OneSpaceStored == GateSpec => []StoredInOneSpace
<1>1. GateInv => StoredInOneSpace
  BY DEF GateInv
<1> QED
  BY <1>1, GateInvariant, PTL

\* A recall compares its vector with vectors of its own space, whatever happened
\* during its round trip, unless the database changed space meanwhile.
THEOREM RecallsFit == GateSpec => RecallsInSpace
<1>1. GateInv =>
        \A c \in Readers : Recall(c) /\ calls[c].vec # NoSpace /\ ~calls[c].stale
                             => pool \cap Spaces \subseteq {calls[c].vec}
  BY DEF GateInv, CallsFit, Fits, Recall, Callers
<1> QED
  BY <1>1, GateInvariant, PTL DEF RecallsInSpace

-----------------------------------------------------------------------------
(* The pool.                                                               *)

Entry   == [age : 0..Timeout, active : Nat]
Pins(k) == {t \in Tasks : task[t].pin = k}
Pinning == {"lease", "dropped"}

Typed ==
  /\ onDisk \subseteq Names /\ other \subseteq onDisk
  /\ Open \subseteq Tokens /\ \A k \in Open : pooled[k] \in Entry
  /\ task \in [Tasks -> TaskState]
  /\ closed \in BOOLEAN

\* What a thread's point in the code says of the copies and the pin it has.
Shape ==
  \A t \in Tasks :
    /\ IF task[t].pc \in Pinning THEN task[t].pin \in Tokens ELSE task[t].pin = NoToken
    /\ task[t].pc = "lease" => task[t].copies = {task[t].pin}
    /\ task[t].pc = "closeAll" => closed

Counts == \A k \in Open : pooled[k].active = Cardinality(Pins(k))
Held   == closed \/ \A t \in Tasks : task[t].pc \in Pinning => task[t].pin \in Open
Apart  == \A k \in Referenced : k[1] \notin other
Few    == IsFiniteSet(Open) /\ Cardinality(Open) <= Ceiling

PoolInv == Typed /\ Shape /\ Counts /\ Held /\ Apart /\ Few

-----------------------------------------------------------------------------
(* Tokens, counts and pools.                                               *)

\* The token nobody has is none of an opening.
LEMMA NoTokenApart == NoToken \notin Tokens
  BY DEF NoToken, Tokens

\* The threads with a pin are finitely many.
LEMMA PinsFinite ==
  ASSUME NEW k
  PROVE  /\ IsFiniteSet(Pins(k)) /\ Cardinality(Pins(k)) \in Nat
         /\ Cardinality(Pins(k)) <= Cardinality(Tasks)
<1>1. Pins(k) \in SUBSET Tasks /\ IsFiniteSet(Tasks)
  BY WorkspaceAssumption DEF Pins
<1>2. IsFiniteSet(Pins(k)) /\ Cardinality(Pins(k)) <= Cardinality(Tasks)
  BY <1>1, FS_Subset
<1> QED
  BY <1>2, FS_CardinalityType

\* An entry whose count is zero has no lease.
LEMMA InactiveUnpinned ==
  ASSUME Counts, NEW k \in Open, pooled[k].active = 0, NEW t \in Tasks
  PROVE  task[t].pin # k
<1>1. Pins(k) = {}
  BY PinsFinite, FS_EmptySet DEF Counts
<1> QED
  BY <1>1 DEF Pins

\* p is what the pool becomes when entries leave it.
LeftOf(p) ==
  /\ DOMAIN p \subseteq Open
  /\ \A k \in DOMAIN p : p[k] = pooled[k]

\* Entries out of the pool leave the others as they were, and fewer.
LEMMA WithoutLeaves ==
  ASSUME Typed, Few, NEW toks
  PROVE  /\ LeftOf(Without(pooled, toks))
         /\ DOMAIN Without(pooled, toks) = Open \ toks
         /\ IsFiniteSet(Open \ toks) /\ Cardinality(Open \ toks) <= Ceiling
<1>1. Open \ toks \in SUBSET Open /\ IsFiniteSet(Open)
  BY DEF Few
<1>2. IsFiniteSet(Open \ toks) /\ Cardinality(Open \ toks) <= Cardinality(Open)
  BY <1>1, FS_Subset
<1>3. Cardinality(Open \ toks) <= Ceiling
  BY <1>1, <1>2, FS_CardinalityType, WorkspaceAssumption DEF Few
<1>4. LeftOf(Without(pooled, toks)) /\ DOMAIN Without(pooled, toks) = Open \ toks
  BY DEF Without, LeftOf, Open
<1> QED
  BY <1>2, <1>3, <1>4

\* Room is made by letting an inactive entry go, and leaves place for one.
LEMMA RoomLeaves ==
  ASSUME Typed, Few, NEW p \in Room
  PROVE  /\ LeftOf(p)
         /\ \A k \in Open \ DOMAIN p : pooled[k].active = 0
         /\ IsFiniteSet(DOMAIN p) /\ Cardinality(DOMAIN p) \in Nat
         /\ Cardinality(DOMAIN p) + 1 <= Ceiling
<1>0. IsFiniteSet(Open) /\ Cardinality(Open) \in Nat /\ Cardinality(Open) <= Ceiling
  BY FS_CardinalityType DEF Few
<1>1. CASE Cardinality(Open) < Ceiling
  <2>1. p = pooled
    BY <1>1 DEF Room
  <2>2. LeftOf(p) /\ DOMAIN p = Open
    BY <2>1 DEF LeftOf, Open
  <2> QED
    BY <1>0, <1>1, <2>2, WorkspaceAssumption
<1>2. CASE ~(Cardinality(Open) < Ceiling)
  <2>1. PICK k \in Evictable : p = Without(pooled, {k})
    BY <1>2 DEF Room
  <2>2. k \in Open /\ pooled[k].active = 0
    BY DEF Evictable
  <2>3. LeftOf(p) /\ DOMAIN p = Open \ {k}
    BY <2>1, WithoutLeaves
  <2>4. IsFiniteSet(Open \ {k}) /\ Cardinality(Open \ {k}) = Cardinality(Open) - 1
    BY <1>0, <2>2, FS_RemoveElement
  <2>5. Cardinality(Open \ {k}) \in Nat
    BY <2>4, FS_CardinalityType
  <2>6. Cardinality(Open \ {k}) + 1 <= Ceiling
    BY <1>0, <2>4
  <2> QED
    BY <2>2, <2>3, <2>4, <2>5, <2>6
<1> QED
  BY <1>1, <1>2

\* While nobody's pin changes, counts that stay are still right.
LEMMA SamePins ==
  ASSUME Counts, Open' \subseteq Open, \A k \in Open' : pooled'[k].active = pooled[k].active,
         \A t \in Tasks : task'[t].pin = task[t].pin
  PROVE  Counts'
<1>1. \A k : Pins(k)' = Pins(k)
  BY DEF Pins
<1> QED
  BY <1>1 DEF Counts

-----------------------------------------------------------------------------
(* Steps.                                                                  *)

\* The empty pool, every thread idle.
LEMMA PoolStarts == PoolInit => PoolInv
<1> SUFFICES ASSUME PoolInit PROVE PoolInv
  OBVIOUS
<1>1. Open = {}
  BY DEF PoolInit, Open
<1>2. Idle \in TaskState /\ Idle.pc = "idle" /\ Idle.pin = NoToken /\ Idle.copies = {}
  BY DEF Idle, TaskState, TaskPC
<1>3. Typed
  BY <1>1, <1>2 DEF PoolInit, Typed
<1>4. Shape /\ Counts /\ Held
  BY <1>1, <1>2 DEF PoolInit, Shape, Counts, Held, Pinning
<1>5. Apart
  BY DEF PoolInit, Apart
<1>6. Few
  BY <1>1, FS_EmptySet, WorkspaceAssumption DEF Few
<1> QED
  BY <1>3, <1>4, <1>5, <1>6 DEF PoolInv

\* Entries leave the pool with no pin on them, or because it is closed, and the
\* threads keep their pins: all is as it was.
LEMMA PoolShrinks ==
  ASSUME PoolInv, LeftOf(pooled'), Few',
         \A k \in Open \ Open' : pooled[k].active = 0 \/ closed',
         UNCHANGED <<onDisk, other>>, closed' \in BOOLEAN, closed => closed',
         task' \in [Tasks -> TaskState], Shape',
         \A t \in Tasks : /\ task'[t].pin = task[t].pin
                          /\ task'[t].pc \in Pinning => task[t].pc \in Pinning
                          /\ task'[t].copies \subseteq Referenced
  PROVE  PoolInv'
<1> USE DEF PoolInv
<1>1. Open' \subseteq Open /\ \A k \in Open' : pooled'[k] = pooled[k]
  BY DEF LeftOf, Open
<1>2. Typed'
  BY <1>1 DEF Typed
<1>3. Counts'
  BY <1>1, SamePins
<1>4. Held'
  <2> SUFFICES ASSUME ~closed', NEW t \in Tasks, task'[t].pc \in Pinning
               PROVE  task'[t].pin \in Open'
    BY DEF Held
  <2>1. task[t].pin \in Open
    BY DEF Held
  <2> QED
    BY <2>1, InactiveUnpinned
<1>5. Apart'
  <2>1. Open \subseteq Referenced
    BY DEF Referenced
  <2>2. Referenced' \subseteq Referenced
    BY <1>1, <2>1 DEF Referenced
  <2> QED
    BY <2>2 DEF Apart
<1> QED
  BY <1>2, <1>3, <1>4, <1>5

\* A thread that goes on without a pin, to a point where it has none.
Unpinned(t, s) ==
  /\ task' = [task EXCEPT ![t] = s]
  /\ task[t].pc \notin Pinning
  /\ s \in TaskState /\ s.pc \notin Pinning /\ s.pin = NoToken
  /\ s.pc = "closeAll" => closed'
  /\ s.copies \subseteq Referenced

\* It changes nothing of what the others have.
LEMMA UnpinnedGoesOn ==
  ASSUME PoolInv, NEW t \in Tasks, NEW s, Unpinned(t, s), closed => closed'
  PROVE  /\ task' \in [Tasks -> TaskState] /\ Shape'
         /\ \A u \in Tasks : /\ task'[u].pin = task[u].pin
                             /\ task'[u].pc \in Pinning => task[u].pc \in Pinning
                             /\ task'[u].copies \subseteq Referenced
<1>0. task \in [Tasks -> TaskState]
  BY DEF PoolInv, Typed
<1>1. task' \in [Tasks -> TaskState]
  BY <1>0 DEF Unpinned
<1>2. Shape'
  BY <1>0 DEF Unpinned, PoolInv, Shape, Pinning
<1>3. \A u \in Tasks : task[u].copies \subseteq Referenced
  BY DEF Referenced
<1>4. task[t].pin = NoToken
  BY DEF PoolInv, Shape, Unpinned
<1> QED
  BY <1>0, <1>1, <1>2, <1>3, <1>4 DEF Unpinned

\* The whole pool is what is left of it.
LEMMA PoolStays ==
  ASSUME PoolInv, pooled' = pooled
  PROVE  LeftOf(pooled') /\ Few' /\ Open' = Open
BY DEF LeftOf, Open, PoolInv, Few

\* The steps that touch neither the pool nor a pin.
LEMMA QuietStep ==
  ASSUME PoolInv, NEW t \in Tasks,
         Enter(t) \/ Refused(t) \/ DropClone(t) \/ DropClosing(t) \/ Close(t)
  PROVE  PoolInv'
<1>0. task \in [Tasks -> TaskState] /\ closed \in BOOLEAN
  BY DEF PoolInv, Typed
<1>1. \E s : Unpinned(t, s)
  <2>1. CASE Enter(t)
    <3> DEFINE s == [pc |-> "checked", copies |-> {}, pin |-> NoToken]
    <3>1. s \in TaskState /\ s.pc = "checked" /\ s.pin = NoToken /\ s.copies = {}
      BY DEF TaskState, TaskPC
    <3>2. task' = [task EXCEPT ![t] = s]
      BY <2>1 DEF Enter, Close, Now
    <3> HIDE DEF s
    <3> QED
      BY <2>1, <3>1, <3>2 DEF Enter, Unpinned, Pinning
  <2>2. CASE Refused(t) \/ DropClone(t)
    <3>1. Idle \in TaskState /\ Idle.pc = "idle" /\ Idle.pin = NoToken /\ Idle.copies = {}
      BY DEF Idle, TaskState, TaskPC
    <3> QED
      BY <2>2, <3>1 DEF Refused, DropClone, Return, Unpinned, Pinning
  <2>3. CASE DropClosing(t)
    <3>1. Idle \in TaskState /\ Idle.pc = "idle" /\ Idle.pin = NoToken /\ Idle.copies = {}
      BY DEF Idle, TaskState, TaskPC
    <3>2. CASE task[t].copies = {}
      BY <2>3, <3>1, <3>2 DEF DropClosing, Return, Unpinned, Pinning
    <3>3. CASE task[t].copies # {}
      <4>1. PICK k \in task[t].copies : task' = [task EXCEPT ![t].copies = @ \ {k}]
        BY <2>3, <3>3 DEF DropClosing
      <4> DEFINE s == [task[t] EXCEPT !.copies = @ \ {k}]
      <4>2. /\ s \in TaskState /\ s.pc = "closing" /\ s.pin = task[t].pin
            /\ s.copies \subseteq task[t].copies
        BY <1>0, <2>3 DEF DropClosing, TaskState
      <4>3. task' = [task EXCEPT ![t] = s]
        BY <1>0, <4>1
      <4>4. task[t].pc = "closing" /\ task[t].pin = NoToken
        BY <2>3 DEF DropClosing, PoolInv, Shape, Pinning
      <4>5. task[t].copies \subseteq Referenced
        BY DEF Referenced
      <4> HIDE DEF s
      <4> QED
        BY <4>2, <4>3, <4>4, <4>5 DEF Unpinned, Pinning
    <3> QED
      BY <3>2, <3>3
  <2>4. CASE Close(t)
    <3> DEFINE s == [pc |-> "closeAll", copies |-> {}, pin |-> NoToken]
    <3>1. s \in TaskState /\ s.pc = "closeAll" /\ s.pin = NoToken /\ s.copies = {}
      BY DEF TaskState, TaskPC
    <3>2. task' = [task EXCEPT ![t] = s]
      BY <2>4 DEF Enter, Close, Now
    <3> HIDE DEF s
    <3> QED
      BY <2>4, <3>1, <3>2 DEF Close, Unpinned, Pinning
  <2> QED
    BY <2>1, <2>2, <2>3, <2>4
<1>2. UNCHANGED <<onDisk, other, pooled>> /\ closed' \in BOOLEAN /\ (closed => closed')
  BY <1>0 DEF Enter, Refused, DropClone, DropClosing, Close
<1>3. LeftOf(pooled') /\ Few' /\ Open' = Open
  BY <1>2, PoolStays
<1> QED
  BY <1>1, <1>2, <1>3, UnpinnedGoesOn, PoolShrinks

\* Room made for an open that fails, sweeps, releases, and the closing of all.
LEMMA LettingGoStep ==
  ASSUME PoolInv, NEW t \in Tasks,
         \/ \E n \in Names : OpenFails(t, n) \/ Release(t, n)
         \/ CloseIdle(t) \/ CloseAll(t)
  PROVE  PoolInv'
<1>0. Typed /\ Few /\ Open \subseteq Referenced /\ Open \subseteq Tokens
  BY DEF PoolInv, Typed, Referenced
<1>1. UNCHANGED <<onDisk, other, closed>> /\ closed' \in BOOLEAN
  BY <1>0 DEF OpenFails, Release, CloseIdle, CloseAll, Typed
<1>2. CASE \E n \in Names : OpenFails(t, n)
  <2>1. pooled' \in Room /\ task' = [task EXCEPT ![t] = Idle] /\ task[t].pc = "checked"
    BY <1>2 DEF OpenFails, Return
  <2>2. /\ LeftOf(pooled') /\ IsFiniteSet(Open') /\ Cardinality(Open') <= Ceiling
        /\ \A k \in Open \ Open' : pooled[k].active = 0
    BY <1>0, <2>1, RoomLeaves, WorkspaceAssumption DEF Open
  <2>3. Idle \in TaskState /\ Idle.pc = "idle" /\ Idle.pin = NoToken /\ Idle.copies = {}
    BY DEF Idle, TaskState, TaskPC
  <2>4. Unpinned(t, Idle)
    BY <2>1, <2>3 DEF Unpinned, Pinning
  <2> QED
    BY <1>1, <2>2, <2>4, UnpinnedGoesOn, PoolShrinks DEF Few
<1>3. CASE (\E n \in Names : Release(t, n)) \/ CloseIdle(t) \/ CloseAll(t)
  <2>1. PICK toks \in SUBSET Open :
          /\ pooled' = Without(pooled, toks)
          /\ Now(t, "closing", toks, NoToken)
          /\ \A k \in toks : pooled[k].active = 0 \/ closed'
    <3>1. CASE \E n \in Names : Release(t, n)
      BY <3>1 DEF Release
    <3>2. CASE CloseIdle(t)
      <4>1. Stale \in SUBSET Open /\ \A k \in Stale : pooled[k].active = 0
        BY DEF Stale
      <4> QED
        BY <3>2, <4>1 DEF CloseIdle
    <3>3. CASE CloseAll(t)
      BY <1>1, <3>3 DEF CloseAll, PoolInv, Shape
    <3> QED
      BY <1>3, <3>1, <3>2, <3>3
  <2> DEFINE s == [pc |-> "closing", copies |-> toks, pin |-> NoToken]
  <2>2. /\ s \in TaskState /\ s.pc = "closing" /\ s.pin = NoToken /\ s.copies = toks
    BY <1>0, <2>1 DEF TaskState, TaskPC
  <2>3. task' = [task EXCEPT ![t] = s]
    BY <2>1 DEF Now
  <2>4. task[t].pc \in {"checked", "closeAll"}
    BY <1>3 DEF Release, CloseIdle, CloseAll
  <2> HIDE DEF s
  <2>5. Unpinned(t, s)
    BY <1>0, <2>1, <2>2, <2>3, <2>4 DEF Unpinned, Pinning
  <2>6. LeftOf(pooled') /\ Open' = Open \ toks /\ Few'
    BY <1>0, <2>1, WithoutLeaves DEF Few, Open
  <2> QED
    BY <1>1, <2>1, <2>5, <2>6, UnpinnedGoesOn, PoolShrinks
<1> QED
  BY <1>2, <1>3

\* A thread that was handed a database: whose pins it makes different.
LEMMA HandTasks ==
  ASSUME PoolInv, NEW t \in Tasks, task[t].pc = "checked", NEW k \in Tokens,
         NEW leased \in BOOLEAN, Hand(t, k, leased)
  PROVE  /\ task' \in [Tasks -> TaskState]
         /\ closed' = closed => Shape'
         /\ \A u \in Tasks \ {t} : task'[u] = task[u]
         /\ task'[t].copies = {k}
         /\ task'[t].pc \in Pinning <=> leased
         /\ task'[t].pin = IF leased THEN k ELSE NoToken
         /\ \A x \in Tokens : Pins(x)' = IF leased /\ x = k THEN Pins(x) \cup {t} ELSE Pins(x)
         /\ t \notin Pins(k)
<1> DEFINE s == [pc |-> IF leased THEN "lease" ELSE "clone", copies |-> {k},
                 pin |-> IF leased THEN k ELSE NoToken]
<1>0. task \in [Tasks -> TaskState] /\ task[t].pin = NoToken
  BY DEF PoolInv, Typed, Shape, Pinning
<1>1. /\ s \in TaskState /\ s.copies = {k} /\ s.pin = (IF leased THEN k ELSE NoToken)
      /\ s.pc = IF leased THEN "lease" ELSE "clone"
  BY DEF TaskState, TaskPC
<1>2. task' = [task EXCEPT ![t] = s]
  BY DEF Hand, Now
<1> HIDE DEF s
<1>3. task' \in [Tasks -> TaskState] /\ task'[t] = s /\ \A u \in Tasks \ {t} : task'[u] = task[u]
  BY <1>0, <1>1, <1>2
<1>4. ASSUME closed' = closed PROVE Shape'
  BY <1>1, <1>3, <1>4 DEF PoolInv, Shape, Pinning
<1>5. \A x \in Tokens : Pins(x)' = IF leased /\ x = k THEN Pins(x) \cup {t} ELSE Pins(x)
  BY <1>0, <1>1, <1>3, NoTokenApart DEF Pins
<1>6. t \notin Pins(k)
  BY <1>0, NoTokenApart DEF Pins
<1> QED
  BY <1>1, <1>3, <1>4, <1>5, <1>6 DEF Pinning

\* An entry that is handed out counts its lease.
LEMMA HitStep ==
  ASSUME PoolInv, NEW t \in Tasks, NEW n \in Names, NEW leased \in BOOLEAN, Hit(t, n, leased)
  PROVE  PoolInv'
<1> USE DEF PoolInv
<1>1. PICK k \in Open :
        /\ pooled' = [pooled EXCEPT ![k] = [age |-> 0, active |-> IF leased THEN @.active + 1
                                                                  ELSE @.active]]
        /\ Hand(t, k, leased)
  BY DEF Hit
<1>2. k \in Tokens /\ task[t].pc = "checked" /\ UNCHANGED <<onDisk, other, closed>>
  BY <1>1 DEF Hit, Typed
<1>3. /\ Open' = Open
      /\ \A x \in Open \ {k} : pooled'[x] = pooled[x]
      /\ pooled'[k] = [age |-> 0, active |-> IF leased THEN pooled[k].active + 1
                                             ELSE pooled[k].active]
  BY <1>1 DEF Open
<1>4. pooled[k].active \in Nat /\ pooled[k].active = Cardinality(Pins(k))
  BY DEF Typed, Entry, Counts
<1>5. Typed'
  <2>1. pooled'[k] \in Entry
    BY <1>3, <1>4, WorkspaceAssumption DEF Entry
  <2> QED
    BY <1>1, <1>2, <1>3, <2>1, HandTasks DEF Typed
<1>6. Counts'
  <2>1. pooled'[k].active = Cardinality(Pins(k)')
    <3>1. CASE leased
      <4>1. Pins(k)' = Pins(k) \cup {t} /\ t \notin Pins(k)
        BY <1>1, <1>2, <3>1, HandTasks
      <4>2. Cardinality(Pins(k) \cup {t}) = Cardinality(Pins(k)) + 1
        BY <4>1, PinsFinite, FS_AddElement
      <4> QED
        BY <1>3, <1>4, <3>1, <4>1, <4>2
    <3>2. CASE ~leased
      BY <1>1, <1>2, <1>3, <1>4, <3>2, HandTasks
    <3> QED
      BY <3>1, <3>2
  <2>2. \A x \in Open \ {k} : pooled'[x].active = Cardinality(Pins(x)')
    BY <1>1, <1>2, <1>3, HandTasks DEF Counts, Typed
  <2> QED
    BY <1>3, <2>1, <2>2 DEF Counts
<1>7. Held'
  BY <1>1, <1>2, <1>3, HandTasks DEF Held
<1>8. Apart'
  <2>1. \A u \in Tasks : task'[u].copies \subseteq Referenced
    BY <1>1, <1>2, HandTasks DEF Referenced
  <2>2. Referenced' \subseteq Referenced
    BY <1>3, <2>1 DEF Referenced
  <2> QED
    BY <1>2, <2>2 DEF Apart
<1>9. Shape' /\ Few'
  BY <1>1, <1>2, <1>3, HandTasks DEF Few
<1> QED
  BY <1>5, <1>6, <1>7, <1>8, <1>9

\* An entry that is opened has one lease or none, and room was made for it.
LEMMA MissStep ==
  ASSUME PoolInv, NEW t \in Tasks, NEW n \in Names,
         NEW leased \in BOOLEAN, NEW create \in BOOLEAN, Miss(t, n, leased, create)
  PROVE  PoolInv'
<1> USE DEF PoolInv
<1> DEFINE e == [age |-> 0, active |-> IF leased THEN 1 ELSE 0]
<1>1. PICK k \in Tokens, p \in Room :
        /\ k[1] = n /\ \A u \in Tasks : task[u].pin # k
        /\ pooled' = With(p, k, e)
        /\ Hand(t, k, leased)
  BY DEF Miss
<1>2. /\ task[t].pc = "checked" /\ UNCHANGED <<other, closed>> /\ onDisk' = onDisk \cup {n}
      /\ k \notin Open /\ n \notin other
  BY <1>1 DEF Miss, Locked
<1>3. /\ LeftOf(p) /\ k \notin DOMAIN p
      /\ \A x \in Open \ DOMAIN p : pooled[x].active = 0
      /\ IsFiniteSet(DOMAIN p) /\ Cardinality(DOMAIN p) \in Nat /\ Cardinality(DOMAIN p) + 1 <= Ceiling
  BY <1>2, RoomLeaves DEF LeftOf
<1>4. /\ Open' = DOMAIN p \cup {k}
      /\ pooled'[k] = e
      /\ \A x \in DOMAIN p : x \in Open /\ pooled'[x] = pooled[x]
  BY <1>1, <1>3 DEF With, Open, LeftOf
<1>5. e \in Entry /\ e.active = IF leased THEN 1 ELSE 0
  BY WorkspaceAssumption DEF Entry
<1> HIDE DEF e
<1>6. Typed'
  BY <1>1, <1>2, <1>4, <1>5, HandTasks DEF Typed
<1>7. Counts'
  <2>1. Pins(k) = {}
    BY <1>1 DEF Pins
  <2>2. Cardinality({}) = 0 /\ Cardinality({t}) = 1
    BY FS_EmptySet, FS_Singleton
  <2>3. Pins(k)' = IF leased THEN {t} ELSE {}
    BY <1>1, <1>2, <2>1, HandTasks
  <2>4. pooled'[k].active = Cardinality(Pins(k)')
    BY <1>4, <1>5, <2>2, <2>3
  <2>5. \A x \in DOMAIN p : pooled'[x].active = Cardinality(Pins(x)')
    BY <1>1, <1>2, <1>3, <1>4, HandTasks DEF Counts, Typed
  <2> QED
    BY <1>4, <2>4, <2>5 DEF Counts
<1>8. Held'
  <2> SUFFICES ASSUME ~closed, NEW u \in Tasks, task'[u].pc \in Pinning
               PROVE  task'[u].pin \in Open'
    BY <1>2 DEF Held
  <2>1. CASE u = t
    BY <1>1, <1>2, <1>4, <2>1, HandTasks
  <2>2. CASE u # t
    <3>1. task'[u] = task[u] /\ task[u].pin \in Open
      BY <1>1, <1>2, <2>2, HandTasks DEF Held
    <3>2. task[u].pin \in DOMAIN p
      BY <1>3, <3>1, InactiveUnpinned
    <3> QED
      BY <1>4, <3>1, <3>2
  <2> QED
    BY <2>1, <2>2
<1>9. Apart'
  <2>1. \A u \in Tasks : task'[u].copies \subseteq Referenced \cup {k}
    BY <1>1, <1>2, HandTasks DEF Referenced
  <2>2. Open' \subseteq Referenced \cup {k}
    BY <1>4 DEF Referenced
  <2>3. Referenced' \subseteq Referenced \cup {k}
    BY <2>1, <2>2 DEF Referenced
  <2> QED
    BY <1>1, <1>2, <2>3 DEF Apart
<1>10. Few'
  <2>1. IsFiniteSet(Open') /\ Cardinality(Open') = Cardinality(DOMAIN p) + 1
    BY <1>3, <1>4, FS_AddElement
  <2> QED
    BY <1>3, <2>1 DEF Few
<1>11. Shape'
  BY <1>1, <1>2, HandTasks
<1> QED
  BY <1>6, <1>7, <1>8, <1>9, <1>10, <1>11

\* A lease's copy goes before its count: in between it still keeps the entry.
LEMMA DropLeaseStep ==
  ASSUME PoolInv, NEW t \in Tasks, DropLease(t)
  PROVE  PoolInv'
<1> USE DEF PoolInv
<1> DEFINE s == [pc |-> "dropped", copies |-> {}, pin |-> task[t].pin]
<1>0. /\ task \in [Tasks -> TaskState] /\ task[t].pc = "lease" /\ task[t].pin \in Tokens
      /\ UNCHANGED <<onDisk, other, pooled, closed>>
  BY DEF Typed, Shape, DropLease, Pinning
<1>1. s \in TaskState /\ s.pc = "dropped" /\ s.copies = {} /\ s.pin = task[t].pin
  BY <1>0 DEF TaskState, TaskPC
<1>2. task' = [task EXCEPT ![t] = s]
  BY DEF DropLease, Now
<1> HIDE DEF s
<1>3. /\ task' \in [Tasks -> TaskState] /\ task'[t] = s
      /\ \A u \in Tasks \ {t} : task'[u] = task[u]
  BY <1>0, <1>1, <1>2
<1>4. Shape'
  BY <1>0, <1>1, <1>3 DEF Shape, Pinning
<1>5. \A u \in Tasks : /\ task'[u].pin = task[u].pin
                       /\ task'[u].pc \in Pinning => task[u].pc \in Pinning
                       /\ task'[u].copies \subseteq Referenced
  BY <1>0, <1>1, <1>3 DEF Pinning, Referenced
<1>6. LeftOf(pooled') /\ Few' /\ Open' = Open
  BY <1>0, PoolStays
<1>7. closed' \in BOOLEAN /\ (closed => closed')
  BY <1>0 DEF Typed
<1> QED
  BY <1>0, <1>3, <1>4, <1>5, <1>6, <1>7, PoolShrinks

\* The count goes down with the pin, if the entry is there; it is not after a
\* close only, and another opening has another token.
LEMMA UnpinStep ==
  ASSUME PoolInv, NEW t \in Tasks, Unpin(t)
  PROVE  PoolInv'
<1> USE DEF PoolInv
<1>p. PICK k \in Tokens : k = task[t].pin
  BY DEF Shape, Unpin, Pinning
<1>0. /\ task \in [Tasks -> TaskState] /\ task[t].pc = "dropped"
      /\ UNCHANGED <<onDisk, other, closed>>
  BY DEF Typed, Unpin
<1>1. Idle \in TaskState /\ Idle.pc = "idle" /\ Idle.pin = NoToken /\ Idle.copies = {}
  BY DEF Idle, TaskState, TaskPC
<1>2. /\ task' \in [Tasks -> TaskState] /\ task'[t] = Idle
      /\ \A u \in Tasks \ {t} : task'[u] = task[u]
  BY <1>0, <1>1 DEF Unpin, Return
<1>3. Shape'
  BY <1>0, <1>1, <1>2 DEF Shape, Pinning
<1>4. /\ t \in Pins(k)
      /\ \A x \in Tokens : Pins(x)' = IF x = k THEN Pins(x) \ {t} ELSE Pins(x)
  BY <1>p, <1>0, <1>1, <1>2, NoTokenApart DEF Pins
<1>5. /\ Open' = Open
      /\ \A x \in Open \ {k} : pooled'[x] = pooled[x]
      /\ k \in Open => pooled'[k] = [pooled[k] EXCEPT !.active = @ - 1]
  <2>1. CASE k \in Open
    BY <1>p, <2>1 DEF Unpin, Open
  <2>2. CASE k \notin Open
    BY <1>p, <2>2 DEF Unpin, Open
  <2> QED
    BY <2>1, <2>2
<1>6. ASSUME k \in Open
      PROVE  pooled'[k] \in Entry /\ pooled'[k].active = Cardinality(Pins(k)')
  <2>1. pooled[k] \in Entry /\ pooled[k].active = Cardinality(Pins(k))
    BY <1>6 DEF Typed, Counts
  <2>2. /\ Cardinality(Pins(k) \ {t}) = Cardinality(Pins(k)) - 1
        /\ Cardinality(Pins(k) \ {t}) \in Nat
    BY <1>4, PinsFinite, FS_RemoveElement, FS_CardinalityType
  <2>3. Cardinality(Pins(k)') = pooled[k].active - 1 /\ pooled[k].active - 1 \in Nat
    BY <1>0, <1>4, <2>1, <2>2
  <2> QED
    BY <1>5, <1>6, <2>1, <2>3 DEF Entry
<1>7. Typed'
  BY <1>0, <1>2, <1>5, <1>6 DEF Typed
<1>8. Counts'
  <2>1. \A x \in Open \ {k} : pooled'[x].active = Cardinality(Pins(x)')
    BY <1>0, <1>4, <1>5 DEF Counts, Typed
  <2> QED
    BY <1>5, <1>6, <2>1 DEF Counts
<1>9. Held'
  BY <1>0, <1>1, <1>2, <1>5 DEF Held, Pinning
<1>10. Apart'
  <2>1. \A u \in Tasks : task'[u].copies \subseteq Referenced
    BY <1>1, <1>2 DEF Referenced
  <2>2. Referenced' \subseteq Referenced
    BY <1>5, <2>1 DEF Referenced
  <2> QED
    BY <1>0, <2>2 DEF Apart
<1>11. Few'
  BY <1>5 DEF Few
<1> QED
  BY <1>3, <1>7, <1>8, <1>9, <1>10, <1>11

\* The closed workspace goes with the last verb; time passes; the other process
\* opens what nobody here has open, and closes it.
LEMMA OutsideStep ==
  ASSUME PoolInv, Gone \/ Outside
  PROVE  PoolInv'
<1> USE DEF PoolInv
<1>0. task \in [Tasks -> TaskState] /\ closed \in BOOLEAN /\ UNCHANGED <<task, closed>>
  BY DEF Typed, Gone, Outside, PoolTick, OtherOpens, OtherCloses
<1>1. CASE Gone
  <2>1. pooled' = Without(pooled, Open) /\ UNCHANGED <<onDisk, other>> /\ closed
    BY <1>1 DEF Gone
  <2>2. LeftOf(pooled') /\ Few'
    BY <2>1, WithoutLeaves DEF Few, Open
  <2>3. \A u \in Tasks : task[u].copies \subseteq Referenced
    BY DEF Referenced
  <2>4. Shape'
    BY <1>0 DEF Shape
  <2> QED
    BY <1>0, <2>1, <2>2, <2>3, <2>4, PoolShrinks
<1>2. CASE PoolTick
  <2>1. /\ UNCHANGED <<onDisk, other>>
        /\ pooled' = [k \in Open |-> IF pooled[k].age < Timeout
                                     THEN [pooled[k] EXCEPT !.age = @ + 1] ELSE pooled[k]]
    BY <1>2 DEF PoolTick
  <2>2. Open' = Open
    BY <2>1 DEF Open
  <2>3. \A k \in Open : pooled'[k] \in Entry /\ pooled'[k].active = pooled[k].active
    BY <2>1, WorkspaceAssumption DEF Typed, Entry
  <2>4. Typed'
    BY <1>0, <2>1, <2>2, <2>3 DEF Typed
  <2>5. Counts'
    BY <1>0, <2>2, <2>3, SamePins
  <2>6. Shape' /\ Held' /\ Few'
    BY <1>0, <2>2 DEF Shape, Held, Few
  <2>7. Apart'
    BY <1>0, <2>1, <2>2 DEF Apart, Referenced
  <2> QED
    BY <2>4, <2>5, <2>6, <2>7
<1>3. CASE \E n \in Names : OtherOpens(n) \/ OtherCloses(n)
  <2>1. PICK n \in Names : OtherOpens(n) \/ OtherCloses(n)
    BY <1>3
  <2>2. pooled' = pooled
    BY <2>1 DEF OtherOpens, OtherCloses
  <2>3. Open' = Open /\ Referenced' = Referenced
    BY <1>0, <2>2 DEF Open, Referenced
  <2>4. Typed'
    BY <1>0, <2>1, <2>2, <2>3 DEF OtherOpens, OtherCloses, Typed
  <2>5. Counts'
    BY <1>0, <2>2, <2>3, SamePins
  <2>6. Shape' /\ Held' /\ Few'
    BY <1>0, <2>3 DEF Shape, Held, Few
  <2>7. Apart'
    BY <2>1, <2>3 DEF OtherOpens, OtherCloses, Locked, Alive, Apart
  <2> QED
    BY <2>4, <2>5, <2>6, <2>7
<1> QED
  BY <1>1, <1>2, <1>3 DEF Outside

-----------------------------------------------------------------------------
(* The invariant, and what follows.                                        *)

\* Every step keeps the invariant.
LEMMA PoolKeeps == PoolInv /\ [PoolNext]_poolVars => PoolInv'
<1> SUFFICES ASSUME PoolInv, [PoolNext]_poolVars PROVE PoolInv'
  OBVIOUS
<1>1. CASE Outside \/ Gone
  BY <1>1, OutsideStep
<1>2. ASSUME NEW t \in Tasks, Begin(t) \/ DropClone(t) PROVE PoolInv'
  BY <1>2, QuietStep DEF Begin
<1>3. ASSUME NEW t \in Tasks, Choose(t) PROVE PoolInv'
  <2>1. CASE \E n \in Names : Acquire(t, n)
    BY <2>1, HitStep, MissStep DEF Acquire
  <2>2. CASE (\E n \in Names : OpenFails(t, n) \/ Release(t, n)) \/ CloseIdle(t)
    BY <2>2, LettingGoStep
  <2>3. CASE Refused(t)
    BY <2>3, QuietStep
  <2> QED
    BY <1>3, <2>1, <2>2, <2>3 DEF Choose
<1>4. ASSUME NEW t \in Tasks, Finish(t) PROVE PoolInv'
  BY <1>4, DropLeaseStep, UnpinStep, QuietStep, LettingGoStep DEF Finish
<1>5. CASE UNCHANGED poolVars
  <2>1. UNCHANGED <<Open, Referenced>> /\ UNCHANGED <<onDisk, other, pooled, task, closed>>
    BY <1>5 DEF poolVars, Open, Referenced
  <2> QED
    BY <2>1, SamePins DEF PoolInv, Typed, Shape, Held, Apart, Few
<1> QED
  BY <1>1, <1>2, <1>3, <1>4, <1>5 DEF PoolNext

\* The invariant holds of the pool's specification.
LEMMA PoolInvariant == PoolSpec => []PoolInv
  BY PoolStarts, PoolKeeps, PTL DEF PoolSpec

\* For any names, threads and ceiling: the pool and the threads keep their types,
\* and what another process has open nobody here has.
THEOREM WorkspaceTypeCorrect == PoolSpec => []WorkspaceTypeOK
<1>1. PoolInv => WorkspaceTypeOK
  <2> SUFFICES ASSUME PoolInv PROVE WorkspaceTypeOK
    OBVIOUS
  <2>1. \A k \in Open : pooled[k].active \in 0..Cardinality(Tasks)
    BY PinsFinite, WorkspaceAssumption, FS_CardinalityType DEF PoolInv, Counts
  <2>2. \A k \in Open : pooled[k] \in Pooled
    BY <2>1 DEF PoolInv, Typed, Entry, Pooled
  <2> QED
    BY <2>2 DEF WorkspaceTypeOK, PoolInv, Typed, Apart
<1> QED
  BY <1>1, PoolInvariant, PTL

\* An entry counts exactly the leases on it (WorkspaceInner::acquire, unpin), over
\* evictions, sweeps, closes and reopenings: none is let go of too early, none is
\* kept for good.
THEOREM CountsAreLeases == PoolSpec => []ActiveCounts
<1>1. PoolInv => ActiveCounts
  BY DEF PoolInv, Counts, ActiveCounts, Pins
<1> QED
  BY <1>1, PoolInvariant, PTL

\* However many threads acquire, release and sweep, a leased database stays in the
\* pool until the workspace is closed (workspace.rs:447-448).
THEOREM LeasesPin == PoolSpec => []PinHolds
<1>1. PoolInv => PinHolds
  BY DEF PoolInv, Shape, Held, PinHolds, Pinning
<1> QED
  BY <1>1, PoolInvariant, PTL

\* The pool, and with it every leased database until the close, stays within the
\* ceiling (WorkspaceLimits::ceiling), whatever is evicted to make room.
THEOREM CeilingHolds == PoolSpec => []WithinCeiling
<1>1. PoolInv => WithinCeiling
  <2> SUFFICES ASSUME PoolInv PROVE WithinCeiling
    OBVIOUS
  <2>1. ASSUME ~closed
        PROVE  Open \cup UNION {task[t].copies : t \in {u \in Tasks : task[u].pc = "lease"}} = Open
    BY <2>1 DEF PoolInv, Shape, Held, Pinning
  <2> QED
    BY <2>1 DEF PoolInv, Few, WithinCeiling
<1> QED
  BY <1>1, PoolInvariant, PTL

-----------------------------------------------------------------------------
(* The tasks of the Node binding.                                          *)

JobPC     == {"none", "scheduled", "computed", "resolved"} \cup Computing
LockModes == {"read", "write"}
JobState  == [pc : JobPC, engine : LockModes \cup {"none"}, todo : Seq(LockModes),
              left : Nat, queued : Nat]

\* A receipt is outstanding only while the worker is in the task's compute.
JobFits(x) == (x.pc = "engine" => x.todo # <<>>) /\ (x.pc \notin Computing => x.queued = 0)

NodeTypes == nodeSurface \in {"direct", "named"} /\ opened \in AnyHandle \cup {"closed"}
NodeInv   == NodeTypes /\ job \in [Jobs -> JobState] /\ \A j \in Jobs : JobFits(job[j])

\* A step that gives one task another state that fits keeps the invariant.
LEMMA OneJobMoves ==
  ASSUME NodeInv, NEW j \in Jobs, NEW x \in JobState, JobFits(x),
         job' = [job EXCEPT ![j] = x], NodeTypes'
  PROVE  NodeInv'
BY DEF NodeInv

\* What the verbs are made of: a kind of handle, and locks.
LEMMA TasksAreTyped ==
  ASSUME NEW k \in Tasked
  PROVE  k.engine \in Seq(LockModes)
<1>1. /\ <<"write">> \in Seq(LockModes) /\ <<"read">> \in Seq(LockModes)
      /\ <<"write", "write">> \in Seq(LockModes) /\ <<>> \in Seq(LockModes)
  BY DEF LockModes
<1>2. /\ \A k0 \in {WriteTasks, ReadTasks, ReembedTask, ExportEdgesTask} : k0.engine \in Seq(LockModes)
      /\ \A k0 \in {EmbedderStateTask, EmbedderSwitchTask} : k0.engine \in Seq(LockModes)
  BY <1>1 DEF WriteTasks, ReadTasks, ReembedTask, ExportEdgesTask, EmbedderStateTask,
              EmbedderSwitchTask, Job
<1>3. \A k0 \in NodeTasks : k0 \in {WriteTasks, ReadTasks, ReembedTask, ExportEdgesTask}
  BY DEF NodeTasks, RememberTask, GuardedTask, RememberManyTask, ReviseTask, RecallTask, ForgetTask,
         ForgetManyTask, LinkTask, UnlinkTask, ExportTask, ExportPageTask, ScrubTask, TagPageTask,
         RemoveTagTask, VerifyTask, MaintainTask, CheckpointTask
<1>4. \A k0 \in NamedTasks : k0 \in {WriteTasks, ReadTasks, ReembedTask, ExportEdgesTask,
                                     EmbedderStateTask, EmbedderSwitchTask}
  BY <1>3 DEF NamedTasks, WriterGetTask, WriterStatsTask, WriterTagsTask
<1> QED BY <1>2, <1>3, <1>4 DEF Tasked

\* A verb is scheduled with nothing sent.
LEMMA ScheduleStep ==
  ASSUME NodeInv, NEW j \in Jobs, NEW k \in Tasked, Schedule(j, k)
  PROVE  NodeInv'
<1>1. PICK n \in IF k.streams THEN 0..Batches[nodeSurface] ELSE {0} :
        job' = [job EXCEPT ![j] = [NoJob EXCEPT !.pc = "scheduled", !.left = n,
                                     !.todo = IF opened = "writer" THEN k.engine ELSE <<>>]]
  BY DEF Schedule
<1>2. n \in Nat
  BY <1>1, NodeAssumption DEF NodeInv, NodeTypes
<1> DEFINE x == [NoJob EXCEPT !.pc = "scheduled", !.left = n,
                   !.todo = IF opened = "writer" THEN k.engine ELSE <<>>]
<1>3. x.todo \in Seq(LockModes)
  BY TasksAreTyped, <<>> \in Seq(LockModes) DEF NoJob
<1>4. x \in JobState /\ JobFits(x)
  BY <1>2, <1>3 DEF JobState, NoJob, JobPC, Computing, JobFits
<1>5. NodeTypes'
  BY DEF NodeInv, NodeTypes, Schedule
<1> QED BY <1>1, <1>4, <1>5, OneJobMoves

\* A receipt comes and goes between two steps of the worker; the worker leaves with none.
LEMMA JobTurnStep ==
  ASSUME NodeInv, NEW j \in Jobs, JobTurn(j) \/ Forgotten(j)
  PROVE  NodeInv'
<1>1. job[j] \in JobState /\ JobFits(job[j])
  BY DEF NodeInv
<1>2. /\ job[j].pc \in JobPC /\ job[j].engine \in LockModes \cup {"none"}
      /\ job[j].todo \in Seq(LockModes) /\ job[j].left \in Nat /\ job[j].queued \in Nat
  BY <1>1 DEF JobState
<1>3. NodeTypes'
  BY DEF NodeInv, NodeTypes, JobTurn, Start, LockEngine, Send, Unlock, Computed, RunCallback,
         Resolve, Forgotten
<1> USE DEF JobPC, Computing
<1>4. SUFFICES \E x \in JobState : JobFits(x) /\ job' = [job EXCEPT ![j] = x]
  BY <1>3, OneJobMoves
<1>5. CASE Start(j)
  <2> DEFINE off == nodeSurface = "named" /\ opened = "closed"
             x == [job[j] EXCEPT !.pc = IF off \/ job[j].todo = <<>> THEN "work" ELSE "engine",
                                 !.todo = IF off THEN <<>> ELSE @, !.left = IF off THEN 0 ELSE @]
  <2>1. job' = [job EXCEPT ![j] = x]
    BY <1>5 DEF Start, NodeInv, JobState
  <2>2. x \in JobState
    BY <1>1, <1>2, <<>> \in Seq(LockModes) DEF JobState
  <2>3. JobFits(x)
    BY <1>1, <1>2 DEF JobFits, JobState
  <2> QED BY <2>1, <2>2, <2>3
<1>6. CASE LockEngine(j)
  <2> DEFINE x == [job[j] EXCEPT !.engine = Head(job[j].todo), !.todo = Tail(@), !.pc = "work"]
  <2>1. job' = [job EXCEPT ![j] = x]
    BY <1>6 DEF LockEngine, NodeInv, JobState
  <2>2. job[j].todo # <<>>
    BY <1>1, <1>6 DEF JobFits, LockEngine
  <2>3. Head(job[j].todo) \in LockModes /\ Tail(job[j].todo) \in Seq(LockModes)
    BY <1>2, <2>2
  <2>4. x \in JobState /\ JobFits(x)
    BY <1>1, <1>2, <2>3 DEF JobState, JobFits
  <2> QED BY <2>1, <2>4
<1>7. CASE Send(j)
  <2> DEFINE x == [job[j] EXCEPT !.left = @ - 1, !.queued = @ + 1]
  <2>1. job' = [job EXCEPT ![j] = x]
    BY <1>7 DEF Send, NodeInv, JobState
  <2>2. job[j].left - 1 \in Nat /\ job[j].queued + 1 \in Nat /\ job[j].pc = "work"
    BY <1>2, <1>7 DEF Send
  <2>3. x \in JobState /\ JobFits(x)
    BY <1>1, <2>2 DEF JobState, JobFits
  <2> QED BY <2>1, <2>3
<1>8. CASE Unlock(j)
  <2> DEFINE x == [job[j] EXCEPT !.engine = "none",
                                 !.pc = IF job[j].todo # <<>> THEN "engine" ELSE "work"]
  <2>1. job' = [job EXCEPT ![j] = x]
    BY <1>8 DEF Unlock, NodeInv, JobState
  <2>2. x \in JobState /\ JobFits(x)
    BY <1>1, <1>2, <1>8 DEF Unlock, JobState, JobFits
  <2> QED BY <2>1, <2>2
<1>9. CASE Computed(j)
  <2> DEFINE x == [job[j] EXCEPT !.pc = "computed"]
  <2>1. job' = [job EXCEPT ![j] = x]
    BY <1>9 DEF Computed, NodeInv, JobState
  <2>2. x \in JobState /\ JobFits(x)
    BY <1>1, <1>2, <1>9 DEF Computed, JobState, JobFits
  <2> QED BY <2>1, <2>2
<1>10. CASE RunCallback(j)
  <2> DEFINE x == [job[j] EXCEPT !.queued = @ - 1]
  <2>1. job' = [job EXCEPT ![j] = x]
    BY <1>10 DEF RunCallback, NodeInv, JobState
  <2>2. x \in JobState /\ JobFits(x)
    BY <1>1, <1>2, <1>10 DEF RunCallback, JobState, JobFits
  <2> QED BY <2>1, <2>2
<1>11. CASE Resolve(j)
  <2> DEFINE x == [job[j] EXCEPT !.pc = "resolved"]
  <2>1. job' = [job EXCEPT ![j] = x]
    BY <1>11 DEF Resolve, NodeInv, JobState
  <2>2. x \in JobState /\ JobFits(x)
    BY <1>1, <1>2, <1>11 DEF Resolve, JobState, JobFits
  <2> QED BY <2>1, <2>2
<1>12. CASE Forgotten(j)
  <2>1. NoJob \in JobState /\ JobFits(NoJob)
    BY <<>> \in Seq(LockModes) DEF NoJob, JobState, JobFits
  <2> QED BY <1>12, <2>1 DEF Forgotten
<1> QED BY <1>5, <1>6, <1>7, <1>8, <1>9, <1>10, <1>11, <1>12 DEF JobTurn

\* Whatever the pool's workers and the JavaScript thread do, in any order.
LEMMA NodeInvariant == NodeSpec => []NodeInv
<1>1. NodeInit => NodeInv
  <2> SUFFICES ASSUME NodeInit PROVE NodeInv
    OBVIOUS
  <2>1. NodeTypes
    BY NodeAssumption DEF NodeInit, NodeTypes, AnyHandle
  <2>2. NoJob \in JobState /\ JobFits(NoJob)
    BY <<>> \in Seq(LockModes) DEF NoJob, JobState, JobFits, JobPC, Computing
  <2> QED BY <2>1, <2>2 DEF NodeInit, NodeInv
<1>2. NodeInv /\ [NodeNext]_nodeVars => NodeInv'
  <2> SUFFICES ASSUME NodeInv, [NodeNext]_nodeVars PROVE NodeInv'
    OBVIOUS
  <2>1. ASSUME NEW j \in Jobs, JobTurn(j) \/ Forgotten(j) PROVE NodeInv'
    BY <2>1, JobTurnStep
  <2>2. ASSUME NEW j \in Jobs, NEW k \in Tasked, Schedule(j, k) PROVE NodeInv'
    BY <2>2, ScheduleStep
  <2>3. CASE \/ SyncLock \/ SyncReturn \/ CloseSync
             \/ \E lock \in SyncLocks : SyncCall(lock)
    BY <2>3 DEF NodeInv, NodeTypes, SyncLock, SyncReturn, CloseSync, SyncCall
  <2>4. CASE UNCHANGED nodeVars
    BY <2>4 DEF NodeInv, NodeTypes, nodeVars
  <2> QED BY <2>1, <2>2, <2>3, <2>4 DEF NodeNext
<1> QED BY <1>1, <1>2, PTL DEF NodeSpec

\* When a promise resolves every batch of its export has reached its callback
\* (compute waits for the receipts before it returns).
THEOREM ResolvedDelivered == NodeSpec => []DeliveredOnResolve
<1>1. NodeInv => DeliveredOnResolve
  BY DEF NodeInv, JobFits, DeliveredOnResolve, Computing
<1> QED BY <1>1, NodeInvariant, PTL

-----------------------------------------------------------------------------
(* Maintenance.  ShapeFits is ShapeIsTrue of any database, with the types  *)
(* of the fields it is about: each pass keeps it by itself.                *)

\* What a group may have been laid into, and a database of any size and shape.
ShardCounts == {ShardsFor(n) : n \in Nat} \cup {MinShards, MinShards * Shrink}
IsDatabase(d) ==
  /\ DOMAIN NewDb \subseteq DOMAIN d
  /\ d.slots \in Seq(BOOLEAN) /\ d.versions \in Nat /\ d.indexed \in Nat
  /\ d.layout \in [Groups -> ShardCounts] /\ d.laid \in [Groups -> ShardCounts]

\* ShapeIsTrue, of any database.
ShapeFits(d) ==
  /\ IsDatabase(d)
  /\ d.layout = d.laid
  /\ d.indexed <= Len(d.slots)
  /\ d.indexed # 0 => Len(d.slots) >= FlatToHnsw

\* The same value so many times.
LEMMA ConstantSeq ==
  ASSUME NEW S, NEW v \in S, NEW n \in Nat
  PROVE  [i \in 1..n |-> v] \in Seq(S) /\ Len([i \in 1..n |-> v]) = n
OBVIOUS

\* No more facts live than there are, nor than there are among fewer.
LEMMA LivingBounds ==
  ASSUME NEW d, IsDatabase(d), NEW n \in 0..Len(d.slots)
  PROVE  /\ LivingIn(d, n) \in Nat /\ Living(d) \in Nat
         /\ LivingIn(d, n) <= Living(d) /\ Living(d) <= Len(d.slots)
<1> DEFINE all == {i \in 1..Len(d.slots) : d.slots[i]}
           some == {i \in 1..n : d.slots[i]}
<1>1. Len(d.slots) \in Nat BY DEF IsDatabase
<1>2. IsFiniteSet(1..Len(d.slots)) /\ Cardinality(1..Len(d.slots)) = Len(d.slots)
  BY <1>1, FS_Interval
<1>3. all \subseteq 1..Len(d.slots) /\ some \subseteq all BY <1>1
<1>4. IsFiniteSet(all) /\ Cardinality(all) <= Cardinality(1..Len(d.slots))
  BY <1>2, <1>3, FS_Subset
<1>5. IsFiniteSet(some) /\ Cardinality(some) <= Cardinality(all)
  BY <1>3, <1>4, FS_Subset
<1>6. Cardinality(all) \in Nat /\ Cardinality(some) \in Nat BY <1>4, <1>5, FS_CardinalityType
<1>7. Living(d) = Cardinality(all) /\ LivingIn(d, n) = Cardinality(some) BY DEF Living, LivingIn
<1> QED BY <1>2, <1>4, <1>5, <1>6, <1>7

\* The graph is taken no further than there are slots.
LEMMA ReachBounds ==
  ASSUME NEW p, NEW start \in Nat, NEW total \in Nat
  PROVE  Reach(p, start, total) \in 0..total
BY MaintenanceAssumption DEF Reach

\* Everything rebuilt: what Config claims is what the arenas were rebuilt into.
LEMMA RebuiltFits ==
  ASSUME NEW d, ShapeFits(d), NEW p, NEW after
  PROVE  ShapeFits(Rebuilt(d, p, after))
<1> DEFINE total  == Living(d)
           start  == IF p.afresh THEN 0 ELSE LivingIn(d, d.indexed)
           slots  == [i \in 1..total |-> TRUE]
           graph  == IF total < FlatToHnsw THEN 0 ELSE Reach(p, start, total)
           layout == Realized(d.layout, Target(d), p.repack)
           laid   == [g \in Groups |-> IF g = "edges" /\ ~p.repack THEN d.laid[g] ELSE Target(d)[g]]
           x      == Rebuilt(d, p, after)
<1>1. IsDatabase(d) /\ d.layout = d.laid /\ d.indexed \in 0..Len(d.slots)
  BY DEF ShapeFits, IsDatabase
<1>2. x = [d EXCEPT !.slots = slots, !.indexed = graph, !.layout = layout, !.laid = laid,
                    !.stale = after, !.summarized = TRUE]
  BY DEF Rebuilt
<1>3. total \in Nat /\ start \in Nat BY <1>1, LivingBounds
<1>4. slots \in Seq(BOOLEAN) /\ Len(slots) = total
  <2>1. TRUE \in BOOLEAN OBVIOUS
  <2> HIDE DEF total
  <2> QED BY <1>3, <2>1, ConstantSeq
<1>5. graph \in 0..total /\ (graph # 0 => total >= FlatToHnsw)
  BY <1>3, ReachBounds, MaintenanceAssumption
<1>6. \A g \in Groups : Target(d)[g] \in ShardCounts
  <2>1. Living(d) \in Nat /\ Len(d.slots) \in Nat /\ d.versions \in Nat BY <1>3, <1>1 DEF IsDatabase
  <2>2. \A n \in Nat : ShardsFor(n) \in ShardCounts BY DEF ShardCounts
  <2> QED BY <2>1, <2>2 DEF Target, Groups
<1>7. laid \in [Groups -> ShardCounts]
  <2>1. \A g \in Groups : d.laid[g] \in ShardCounts BY <1>1 DEF IsDatabase
  <2> QED BY <2>1, <1>6
<1>8. layout = laid
  <2> DEFINE t == Target(d)
  <2>1. t = [g \in Groups |-> t[g]] BY DEF Target, Groups
  <2>2. layout = [g \in Groups |-> IF g = "edges"
                                  THEN IF p.repack THEN t[g] ELSE d.layout[g] ELSE t[g]]
    <3> HIDE DEF t
    <3>1. layout = [t EXCEPT !["edges"] = IF p.repack THEN t["edges"] ELSE d.layout["edges"]]
      BY DEF Realized, t
    <3> QED BY <2>1, <3>1 DEF Groups
  <2> QED BY <2>2, <1>1
<1> HIDE DEF slots, graph, layout, laid, total
<1>9. /\ x.slots = slots /\ x.indexed = graph /\ x.layout = layout /\ x.laid = laid
      /\ x.versions = d.versions /\ DOMAIN x = DOMAIN d
  BY <1>1, <1>2 DEF IsDatabase, NewDb
<1>10. IsDatabase(x)
  <2> HIDE DEF x
  <2> QED BY <1>1, <1>4, <1>5, <1>3, <1>7, <1>8, <1>9 DEF IsDatabase
<1> QED BY <1>4, <1>5, <1>8, <1>9, <1>10, <1>3 DEF ShapeFits, x

\* One index at a time in place, or everything.
LEMMA InMemoryFits ==
  ASSUME NEW d, ShapeFits(d), NEW mode, NEW limited
  PROVE  ShapeFits(InMemory(d, mode, limited))
<1> DEFINE p == Plan(d, mode, limited)
           graph == IF p.optimize
                    THEN Reach(p, IF p.afresh THEN 0 ELSE d.indexed, Len(d.slots)) ELSE d.indexed
           after == d.stale /\ ~p.reindex
           x == [d EXCEPT !.stale = after, !.indexed = graph]
<1>1. IsDatabase(d) /\ Len(d.slots) \in Nat /\ d.indexed \in Nat BY DEF ShapeFits, IsDatabase
<1>3. p.optimize => Len(d.slots) >= FlatToHnsw \/ d.indexed # 0
  BY DEF Plan, GraphTail
<1>4. p.optimize => Len(d.slots) >= FlatToHnsw BY <1>3 DEF ShapeFits
<1> HIDE DEF p
<1>5. graph \in 0..Len(d.slots) /\ (graph # 0 => Len(d.slots) >= FlatToHnsw)
  BY <1>1, <1>4, ReachBounds DEF ShapeFits
<1> HIDE DEF graph, after
<1>6. /\ x.slots = d.slots /\ x.indexed = graph /\ x.layout = d.layout /\ x.laid = d.laid
      /\ x.versions = d.versions /\ DOMAIN x = DOMAIN d
  BY <1>1 DEF IsDatabase, NewDb
<1>7. ShapeFits(x)
  <2> HIDE DEF x
  <2> QED BY <1>1, <1>5, <1>6 DEF ShapeFits, IsDatabase
<1>8. ShapeFits(Rebuilt(d, p, after)) BY RebuiltFits
<1>9. InMemory(d, mode, limited) \in {d, x, Rebuilt(d, p, after)}
  BY DEF InMemory, p, graph, after
<1> QED BY <1>7, <1>8, <1>9

\* Through the disk.
LEMMA DiskFirstFits ==
  ASSUME NEW d, ShapeFits(d), NEW mode, NEW limited
  PROVE  ShapeFits(DiskFirst(d, mode, limited))
BY RebuiltFits DEF DiskFirst

\* The passes the hook runs after a write.
LEMMA AfterMutationFits ==
  ASSUME NEW d, ShapeFits(d), NEW count, AfterMutation(d, count)
  PROVE  ShapeFits(db)'
<1> DEFINE purged == IF EveryForgets # 0 /\ count >= EveryForgets THEN InMemory(d, "Auto", TRUE) ELSE d
<1>1. ShapeFits(purged) BY InMemoryFits
<1>2. db' \in {purged, InMemory(purged, "Auto", TRUE)} BY DEF AfterMutation
<1> HIDE DEF purged
<1>3. ShapeFits(db') BY <1>1, <1>2, InMemoryFits
<1> QED BY <1>3

\* A new database, and one of an earlier version.
LEMMA MaintenanceStart == MaintenanceInit => ShapeFits(db)
<1> SUFFICES ASSUME MaintenanceInit PROVE ShapeFits(db)
  OBVIOUS
<1> DEFINE most == [g \in Groups |-> MinShards * Shrink]
           least == [g \in Groups |-> MinShards]
<1>1. most \in [Groups -> ShardCounts] /\ least \in [Groups -> ShardCounts] BY DEF ShardCounts
<1>2. <<>> \in Seq(BOOLEAN) /\ Len(<<>>) = 0 OBVIOUS
<1> HIDE DEF most, least
<1>3. CASE db = NewDb
  <2>1. db = [slots |-> <<>>, versions |-> 0, indexed |-> 0, stale |-> FALSE, summarized |-> TRUE,
              layout |-> least, laid |-> least]
    BY <1>3 DEF NewDb, least
  <2> QED BY <2>1, <1>1, <1>2 DEF ShapeFits, IsDatabase, NewDb
<1>4. CASE db # NewDb
  <2>1. db = [slots |-> <<>>, versions |-> 0, indexed |-> 0, stale |-> TRUE, summarized |-> FALSE,
              layout |-> most, laid |-> most]
    BY <1>4 DEF MaintenanceInit, NewDb, most
  <2> QED BY <2>1, <1>1, <1>2 DEF ShapeFits, IsDatabase, NewDb
<1> QED BY <1>3, <1>4

\* Every write and every pass.
LEMMA MaintenanceStep ==
  ASSUME ShapeFits(db), [MaintenanceNext]_maintenanceVars
  PROVE  ShapeFits(db)'
<1>0. IsDatabase(db) /\ Len(db.slots) \in Nat BY DEF ShapeFits, IsDatabase
<1>1. CASE RememberOne
  <2> DEFINE x == [db EXCEPT !.slots = Append(@, TRUE)]
  <2>1. /\ x.slots = Append(db.slots, TRUE) /\ x.indexed = db.indexed /\ x.versions = db.versions
        /\ x.layout = db.layout /\ x.laid = db.laid /\ DOMAIN x = DOMAIN db
    BY <1>0 DEF IsDatabase, NewDb
  <2>2. /\ Append(db.slots, TRUE) \in Seq(BOOLEAN)
        /\ Len(Append(db.slots, TRUE)) = Len(db.slots) + 1
    BY <1>0, AppendProperties DEF IsDatabase
  <2>3. FlatToHnsw \in Nat /\ db.indexed \in Nat BY MaintenanceAssumption, <1>0 DEF IsDatabase
  <2> HIDE DEF x
  <2>4. ShapeFits(x) BY <1>0, <2>1, <2>2, <2>3 DEF ShapeFits, IsDatabase
  <2> QED BY <1>1, <2>4, AfterMutationFits DEF RememberOne, x
<1>2. ASSUME NEW i \in 1..MaxFactCount, ForgetOne(i) PROVE ShapeFits(db)'
  <2> DEFINE x == [db EXCEPT !.slots[i] = FALSE]
  <2>1. db.slots \in Seq(BOOLEAN) /\ i \in 1..Len(db.slots)
    BY <1>0, <1>2 DEF IsDatabase, ForgetOne
  <2>2. [db.slots EXCEPT ![i] = FALSE] \in Seq(BOOLEAN) /\ Len([db.slots EXCEPT ![i] = FALSE]) = Len(db.slots)
    <3>1. FALSE \in BOOLEAN OBVIOUS
    <3> QED BY <2>1, <3>1, ExceptSeq
  <2>3. /\ x.slots = [db.slots EXCEPT ![i] = FALSE] /\ x.indexed = db.indexed
        /\ x.versions = db.versions /\ x.layout = db.layout /\ x.laid = db.laid
        /\ DOMAIN x = DOMAIN db
    BY <1>0 DEF IsDatabase, NewDb
  <2> HIDE DEF x
  <2>4. ShapeFits(x) BY <1>0, <2>2, <2>3 DEF ShapeFits, IsDatabase
  <2> QED BY <1>2, <2>4, AfterMutationFits DEF ForgetOne, x
<1>3. CASE Relink
  <2> DEFINE x == [db EXCEPT !.versions = @ + 1]
  <2>1. /\ x.slots = db.slots /\ x.indexed = db.indexed /\ x.versions = db.versions + 1
        /\ x.layout = db.layout /\ x.laid = db.laid /\ DOMAIN x = DOMAIN db
    BY <1>0 DEF IsDatabase, NewDb
  <2> HIDE DEF x
  <2>2. ShapeFits(x) BY <1>0, <2>1 DEF ShapeFits, IsDatabase
  <2> QED BY <1>3, <2>2, AfterMutationFits DEF Relink, x
<1>4. ASSUME NEW mode \in Modes, NEW limited \in BOOLEAN, HostMaintain(mode, limited)
      PROVE  ShapeFits(db)'
  <2>1. db' \in {DiskFirst(db, mode, limited), InMemory(db, mode, limited)} BY <1>4 DEF HostMaintain
  <2>2. ShapeFits(db') BY <2>1, DiskFirstFits, InMemoryFits
  <2> QED BY <2>2
<1>5. CASE UNCHANGED maintenanceVars BY <1>5 DEF maintenanceVars
<1> QED BY <1>1, <1>2, <1>3, <1>4, <1>5 DEF MaintenanceNext

\* Config's shard counts are those of the arenas in the file whatever ran, in memory or
\* through the disk, and the graph covers slots there are and none of a small pool
\* (realized in shards.rs, hnsw_target in maintain.rs).
THEOREM MaintenanceKeepsShape == MaintenanceSpec => []ShapeIsTrue
<1>1. MaintenanceSpec => []ShapeFits(db)
  BY MaintenanceStart, MaintenanceStep, PTL DEF MaintenanceSpec
<1>2. ShapeFits(db) => ShapeIsTrue BY DEF ShapeFits, ShapeIsTrue
<1> QED BY <1>1, <1>2, PTL
=============================================================================
