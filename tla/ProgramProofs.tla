---------------------------- MODULE ProgramProofs ----------------------------
(***************************************************************************)
(* The programs around the engine: proofs about the MCP server (Server),   *)
(* the command line (CommandLine), the dump one database writes and        *)
(* another reads back (Transfer), the settings (Settings), and the copy of *)
(* a spoilt database (Salvage).                                            *)
(*                                                                         *)
(* ServerInv: the requests in the channel are numbered in the order read;  *)
(* each request taken is ignored, answered once or in one worker's hands;  *)
(* what a client was told and what a half-done recall has seen is no newer *)
(* than what it would see now; a memory exists because it is the single    *)
(* one or a client named it in a call that creates.  Then the server's     *)
(* promise follows from the state alone.                                   *)
(*                                                                         *)
(* CommandInv: where a process has the lock it sees the disk; where it has *)
(* changed nothing it sees what it opened; an import has written exactly   *)
(* the lines it is past; and every process's contents are kept by the disk. *)
(*                                                                         *)
(* TransferInv: the file holds each fact the pages have passed once, facts *)
(* before edges; an import's batch is the lines just read, its map leads   *)
(* each id read before them to its copy, and every link is to the copy of  *)
(* what its line names.                                                    *)
(*                                                                         *)
(* SettingsInv: what was loaded is what the environment and the governing  *)
(* file come to, none of them refused, and a database runs with that.      *)
(*                                                                         *)
(* SalvageInv: in the image as it was written a slot and its fact name     *)
(* each other; the spoilt one has the same facts, with and without a       *)
(* vector; and what a salvage drops is what is faulty in it when opened.   *)
(***************************************************************************)
EXTENDS Server, CommandLine, Transfer, Settings, Salvage, SequenceTheorems,
        FiniteSetTheorems, WellFoundedInduction, TLAPS

-----------------------------------------------------------------------------
(* What is told of a database: its facts and its edge.                     *)

Kinds    == {"tagged", "plain", "closed", "gone"}
Content  == [facts : Seq(Kinds), linked : BOOLEAN]

\* A database that nothing was said to.
LEMMA BlankTyped == Blank \in Content
BY DEF Blank, Content

LEMMA FactsReplaced ==
  ASSUME NEW c \in Content, NEW s
  PROVE  [c EXCEPT !.facts = s] = [facts |-> s, linked |-> c.linked]
BY DEF Content

\* Storing facts adds them at the end, tagged.
LEMMA RememberedTyped ==
  ASSUME NEW c \in Content, NEW n \in Nat
  PROVE  /\ Remembered(c, n) \in Content
         /\ Remembered(c, n).linked = c.linked
         /\ Len(Remembered(c, n).facts) = Len(c.facts) + n
         /\ \A i \in 1..Len(c.facts) : Remembered(c, n).facts[i] = c.facts[i]
         /\ \A i \in 1..Len(c.facts) + n : i > Len(c.facts) => Remembered(c, n).facts[i] = "tagged"
<1> DEFINE t == [i \in 1..n |-> "tagged"]
<1>1. t \in Seq(Kinds) /\ Len(t) = n /\ \A i \in 1..n : t[i] = "tagged"
  <2>1. \A i \in 1..n : t[i] \in Kinds BY DEF Kinds
  <2> QED BY <2>1
<1>2. c.facts \in Seq(Kinds) /\ c.linked \in BOOLEAN
  BY DEF Content
<1> DEFINE f == c.facts \o t
<1>3. /\ f \in Seq(Kinds) /\ Len(f) = Len(c.facts) + n
      /\ \A i \in 1..Len(c.facts) + n :
           f[i] = IF i <= Len(c.facts) THEN c.facts[i] ELSE t[i - Len(c.facts)]
  <2> HIDE DEF t
  <2> QED BY <1>1, <1>2, ConcatProperties
<1>4. Remembered(c, n) = [facts |-> f, linked |-> c.linked]
  BY FactsReplaced DEF Remembered
<1> HIDE DEF t, f
<1>5. \A i \in 1..Len(c.facts) + n : i > Len(c.facts) => f[i] = "tagged"
  <2>1. Len(c.facts) \in Nat BY <1>2
  <2> QED BY <1>1, <1>3, <2>1
<1>6. \A i \in 1..Len(c.facts) : f[i] = c.facts[i]
  <2>1. Len(c.facts) \in Nat BY <1>2
  <2> QED BY <1>3, <2>1
<1> QED BY <1>2, <1>3, <1>4, <1>5, <1>6 DEF Content

\* One fact gets another state.
LEMMA FactMarked ==
  ASSUME NEW c \in Content, NEW id \in DOMAIN c.facts, NEW k \in Kinds
  PROVE  /\ [c EXCEPT !.facts[id] = k] \in Content
         /\ [c EXCEPT !.facts[id] = k] = [facts |-> [c.facts EXCEPT ![id] = k], linked |-> c.linked]
<1>1. c.facts \in Seq(Kinds) /\ c.linked \in BOOLEAN
  BY DEF Content
<1>2. [c.facts EXCEPT ![id] = k] \in Seq(Kinds)
  BY <1>1, ExceptSeq
<1>3. [c EXCEPT !.facts[id] = k] = [facts |-> [c.facts EXCEPT ![id] = k], linked |-> c.linked]
  BY DEF Content
<1> QED BY <1>1, <1>2, <1>3 DEF Content

\* What the verbs make of a database is one.
LEMMA VerbsTyped ==
  ASSUME NEW c \in Content, NEW id
  PROVE  /\ Revised(c, id) \subseteq Content
         /\ Forgotten(c, id) \in Content
         /\ Untagged(c) \in Content /\ Linked(c) \in Content /\ Unlinked(c) \in Content
<1>1. c.facts \in Seq(Kinds) /\ c.linked \in BOOLEAN
  BY DEF Content
<1>2. Revised(c, id) \subseteq Content
  <2>1. CASE id \in Current(c)
    <3>1. id \in DOMAIN c.facts
      BY <2>1 DEF Current
    <3>2. Remembered(c, 1) \in Content /\ id \in DOMAIN Remembered(c, 1).facts
      <4>1. DOMAIN c.facts = 1..Len(c.facts) /\ Len(c.facts) \in Nat BY <1>1
      <4>2. Remembered(c, 1) \in Content /\ Len(Remembered(c, 1).facts) = Len(c.facts) + 1
        BY RememberedTyped
      <4>3. DOMAIN Remembered(c, 1).facts = 1..Len(c.facts) + 1
        BY <4>2 DEF Content
      <4> QED BY <3>1, <4>1, <4>2, <4>3
    <3>3. [Remembered(c, 1) EXCEPT !.facts[id] = "closed"] \in Content
      BY <3>2, FactMarked DEF Kinds
    <3> QED BY <3>3 DEF Revised
  <2> QED BY <2>1 DEF Revised
<1>3. Forgotten(c, id) \in Content
  <2>1. CASE Found(c, id)
    <3>1. [c EXCEPT !.facts[id] = "gone"] \in Content
      BY <2>1, FactMarked DEF Found, Kinds
    <3> QED BY <2>1, <3>1 DEF Forgotten
  <2> QED BY <2>1 DEF Forgotten
<1>4. Untagged(c) \in Content
  <2> DEFINE f == [i \in DOMAIN c.facts |-> IF c.facts[i] = "tagged" THEN "plain" ELSE c.facts[i]]
  <2>1. DOMAIN c.facts = 1..Len(c.facts) /\ Len(c.facts) \in Nat
    BY <1>1
  <2>2. \A i \in 1..Len(c.facts) : f[i] \in Kinds
    BY <1>1, <2>1 DEF Kinds
  <2>3. f \in Seq(Kinds)
    <3>1. f \in [1..Len(c.facts) -> Kinds] BY <2>1, <2>2
    <3> HIDE DEF f
    <3> QED BY <2>1, <3>1, SeqDef
  <2>4. Untagged(c) = [facts |-> f, linked |-> c.linked]
    BY FactsReplaced DEF Untagged
  <2> QED BY <1>1, <2>3, <2>4 DEF Content
<1>5. Linked(c) \in Content /\ Unlinked(c) \in Content
  BY DEF Linked, Unlinked, Content
<1> QED BY <1>2, <1>3, <1>4, <1>5

\* Nothing is stored: nothing changes; and two lots are as good as one.
LEMMA RememberedNone ==
  ASSUME NEW c \in Content
  PROVE  Remembered(c, 0) = c
<1>1. Remembered(c, 0) \in Content /\ Remembered(c, 0).linked = c.linked
      /\ Len(Remembered(c, 0).facts) = Len(c.facts)
      /\ \A i \in 1..Len(c.facts) : Remembered(c, 0).facts[i] = c.facts[i]
  BY RememberedTyped DEF Content
<1>2. Remembered(c, 0).facts = c.facts
  BY <1>1, SeqEqual DEF Content
<1> QED BY <1>1, <1>2 DEF Content

LEMMA RememberedAgain ==
  ASSUME NEW c \in Content, NEW m \in Nat, NEW n \in Nat
  PROVE  Remembered(Remembered(c, m), n) = Remembered(c, m + n)
<1>1. PICK x : x = Remembered(c, m)
  OBVIOUS
<1>2. PICK y : y = Remembered(x, n)
  OBVIOUS
<1>3. PICK z : z = Remembered(c, m + n)
  OBVIOUS
<1>4. c.facts \in Seq(Kinds) /\ Len(c.facts) \in Nat
  BY DEF Content
<1>5. /\ x \in Content /\ x.linked = c.linked /\ Len(x.facts) = Len(c.facts) + m
      /\ \A i \in 1..Len(c.facts) : x.facts[i] = c.facts[i]
      /\ \A i \in 1..Len(c.facts) + m : i > Len(c.facts) => x.facts[i] = "tagged"
  BY <1>1, RememberedTyped
<1>6. /\ y \in Content /\ y.linked = c.linked /\ Len(y.facts) = Len(c.facts) + m + n
      /\ \A i \in 1..Len(c.facts) + m : y.facts[i] = x.facts[i]
      /\ \A i \in 1..Len(c.facts) + m + n : i > Len(c.facts) + m => y.facts[i] = "tagged"
  <2>1. /\ y \in Content /\ y.linked = x.linked /\ Len(y.facts) = Len(x.facts) + n
        /\ \A i \in 1..Len(x.facts) : y.facts[i] = x.facts[i]
        /\ \A i \in 1..Len(x.facts) + n : i > Len(x.facts) => y.facts[i] = "tagged"
    BY <1>2, <1>5, RememberedTyped
  <2> QED BY <1>5, <2>1
<1>7. /\ z \in Content /\ z.linked = c.linked /\ Len(z.facts) = Len(c.facts) + m + n
      /\ \A i \in 1..Len(c.facts) : z.facts[i] = c.facts[i]
      /\ \A i \in 1..Len(c.facts) + m + n : i > Len(c.facts) => z.facts[i] = "tagged"
  <2>1. \A k \in Nat : k + (m + n) = k + m + n
    OBVIOUS
  <2>2. m + n \in Nat
    OBVIOUS
  <2>3. /\ z \in Content /\ z.linked = c.linked /\ Len(z.facts) = Len(c.facts) + (m + n)
        /\ \A i \in 1..Len(c.facts) : z.facts[i] = c.facts[i]
        /\ \A i \in 1..Len(c.facts) + (m + n) : i > Len(c.facts) => z.facts[i] = "tagged"
    BY <1>3, <2>2, RememberedTyped
  <2> QED BY <1>4, <2>1, <2>3
<1>8. ASSUME NEW i \in 1..Len(c.facts) + m + n PROVE y.facts[i] = z.facts[i]
  <2>1. PICK k \in Nat : k = Len(c.facts)
    BY <1>4
  <2>2. i \in Nat /\ 1 <= i /\ i <= k + m + n
    BY <2>1
  <2>3. CASE i <= k
    <3>1. i \in 1..k /\ i \in 1..k + m
      BY <2>2, <2>3
    <3>2. x.facts[i] = c.facts[i] /\ y.facts[i] = x.facts[i] /\ z.facts[i] = c.facts[i]
      BY <1>5, <1>6, <1>7, <2>1, <3>1
    <3> QED BY <3>2
  <2>4. CASE i > k /\ i <= k + m
    <3>1. i \in 1..k + m
      BY <2>2, <2>4
    <3>2. x.facts[i] = "tagged"
      BY <1>5, <2>1, <2>4, <3>1
    <3>3. y.facts[i] = x.facts[i]
      BY <1>6, <2>1, <3>1
    <3>4. z.facts[i] = "tagged"
      BY <1>7, <2>1, <2>4
    <3> QED BY <3>2, <3>3, <3>4
  <2>5. CASE i > k + m
    <3>1. i > k
      BY <2>2, <2>5
    <3>2. y.facts[i] = "tagged"
      BY <1>6, <2>1, <2>5
    <3>3. z.facts[i] = "tagged"
      BY <1>7, <2>1, <3>1
    <3> QED BY <3>2, <3>3
  <2> QED BY <2>2, <2>3, <2>4, <2>5
<1>9. y.facts = z.facts
  BY <1>6, <1>7, <1>8, SeqEqual DEF Content
<1>10. y = z
  BY <1>6, <1>7, <1>9 DEF Content
<1> QED BY <1>1, <1>2, <1>3, <1>10

\* A database keeps what it has, and what it kept before.
LEMMA KeptReflexive == \A c : Kept(c, c)
BY DEF Kept

LEMMA KeptTransitive ==
  ASSUME NEW a, NEW b, NEW c, Kept(a, b), Kept(b, c)
  PROVE  Kept(a, c)
BY DEF Kept, Current

LEMMA BlankKept == \A c : Kept(Blank, c)
BY DEF Kept, Blank

LEMMA RememberedKeeps ==
  ASSUME NEW c \in Content, NEW n \in Nat
  PROVE  Kept(c, Remembered(c, n))
<1>1. /\ Remembered(c, n) \in Content
      /\ Len(Remembered(c, n).facts) = Len(c.facts) + n
      /\ \A i \in 1..Len(c.facts) : Remembered(c, n).facts[i] = c.facts[i]
  BY RememberedTyped
<1>2. DOMAIN c.facts = 1..Len(c.facts) /\ Len(c.facts) \in Nat
      /\ DOMAIN Remembered(c, n).facts = 1..Len(c.facts) + n
  BY <1>1 DEF Content
<1> QED BY <1>1, <1>2 DEF Kept

\* Whatever a verb does, it takes nothing away that it does not forget.
LEMMA VerbsKeep ==
  ASSUME NEW c \in Content, NEW id
  PROVE  /\ \A e \in Revised(c, id) : Kept(c, e)
         /\ Kept(c, Forgotten(c, id)) /\ Kept(c, Untagged(c))
         /\ Kept(c, Linked(c)) /\ Kept(c, Unlinked(c))
<1>1. ASSUME NEW e \in Revised(c, id) PROVE Kept(c, e)
  <2>1. id \in Current(c) /\ e = [Remembered(c, 1) EXCEPT !.facts[id] = "closed"]
    BY <1>1 DEF Revised
  <2>2. Remembered(c, 1) \in Content /\ Kept(c, Remembered(c, 1))
    BY RememberedTyped, RememberedKeeps
  <2>3. id \in DOMAIN Remembered(c, 1).facts
    BY <2>1, <2>2 DEF Kept, Current
  <2>4. e.facts = [Remembered(c, 1).facts EXCEPT ![id] = "closed"]
    BY <2>1, <2>2, <2>3, FactMarked DEF Kinds
  <2> QED BY <2>1, <2>2, <2>4 DEF Kept
<1>2. Kept(c, Forgotten(c, id))
  <2>1. CASE Found(c, id)
    <3>1. Forgotten(c, id).facts = [c.facts EXCEPT ![id] = "gone"]
      BY <2>1, FactMarked DEF Forgotten, Found, Kinds
    <3> QED BY <3>1 DEF Kept
  <2> QED BY <2>1, KeptReflexive DEF Forgotten
<1>3. Kept(c, Untagged(c))
  <2>1. Untagged(c).facts = [i \in DOMAIN c.facts |-> IF c.facts[i] = "tagged" THEN "plain" ELSE c.facts[i]]
    BY FactsReplaced DEF Untagged
  <2> QED BY <2>1 DEF Kept, Current
<1>4. Linked(c).facts = c.facts /\ Unlinked(c).facts = c.facts
  BY DEF Linked, Unlinked, Content
<1> QED BY <1>1, <1>2, <1>3, <1>4 DEF Kept

-----------------------------------------------------------------------------
(* The server: what holds of it between two steps.                         *)

MemoryState == [present : BOOLEAN, c : Content, stamp : Nat]
Mapped      == [c : Content, stamp : Nat]
Asking      == [q : Asked, told : [Memories -> Nat]]

\* The changes a memory's next reader will see.
Now(d) == IF launch.mode = "reader" THEN snapshot.stamp ELSE memory[d].stamp

\* The requests the workers have taken, and the workers at one.
Taken   == Len(asked) - Len(channel)
Holding == {w \in Workers : worker[w].pc \in {"handle", "search", "reply"}}

InPlace(n, d) == launch.mode = "workspace" => d = Named(asked[n].q) /\ Servable(d)

\* A reply fits its request.
ReplyFits(r, n) ==
  /\ r.n = n /\ r.stamp \in Nat
  /\ r.db \in Memories => r.stamp <= Now(r.db)
  /\ r.how = "done" => r.db \in Memories /\ asked[n].told[r.db] <= r.stamp
  /\ r.id # NoFact => \/ r.id = asked[n].q.id
                      \/ launch.mode = "reader" /\ asked[n].q.tool = "show"
  /\ r.db # NoDb => InPlace(n, r.db)

\* A worker between the halves of its call has seen no more than there is.
HalfFits(x) ==
  /\ x.db \in Memories /\ x.seen \in Nat /\ InPlace(x.n, x.db)
  /\ asked[x.n].told[x.db] <= x.seen /\ x.seen <= Now(x.db)

WorkerFits(x) ==
  /\ x.pc \in {"recv", "gone", "handle", "search", "reply"}
  /\ x.pc = "gone" => Drained
  /\ x.pc \in {"handle", "search", "reply"} => x.n \in 1..Taken
  /\ x.pc \in {"search", "reply"} => ~Ignored(asked[x.n].q)
  /\ x.pc = "search" => HalfFits(x)
  /\ x.pc = "reply" => ReplyFits(x.reply, x.n)

ServerTypes ==
  /\ asked \in Seq(Asking) /\ channel \in Seq(Nat) /\ Len(channel) <= Len(asked)
  /\ worker = [w \in Workers |-> worker[w]]
  /\ memory \in [Memories -> MemoryState] /\ snapshot \in Mapped
  /\ launch.mode = "reader" => snapshot.stamp <= memory[Single].stamp

\* The channel holds the numbers of the last requests, in order.
Numbered == \A i \in 1..Len(channel) : channel[i] = Taken + i

\* What had been told when a request was read still holds.
ToldBefore == \A n \in DOMAIN asked : \A d \in Memories : asked[n].told[d] <= Now(d)

\* No two workers are at one request; no request has two replies, or a reply and a
\* worker still at it; none is lost.
Apart   == \A v, w \in Holding : worker[v].n = worker[w].n => v = w
OutFits == \A r \in out : /\ r.n \in 1..Taken /\ ReplyFits(r, r.n) /\ ~Ignored(asked[r.n].q)
                          /\ \A w \in Holding : worker[w].n # r.n
OneEach == \A r, s \in out : r.n = s.n => r = s
NoneLost == \A n \in 1..Taken : \/ Ignored(asked[n].q)
                                \/ \E w \in Holding : worker[w].n = n
                                \/ \E r \in out : r.n = n

MayBe(d) ==
  \/ d = Single
  \/ /\ launch.mode = "workspace" /\ launch.create /\ Servable(d)
     /\ \E n \in DOMAIN asked : asked[n].q.tool \in CreatingTools /\ Named(asked[n].q) = d
CreatedRightly == \A d \in Memories : memory[d].present => MayBe(d)

ServerInv ==
  /\ ServerTypes /\ Numbered /\ ToldBefore /\ CreatedRightly
  /\ \A w \in Workers : WorkerFits(worker[w])
  /\ Apart /\ OutFits /\ OneEach /\ NoneLost

-----------------------------------------------------------------------------
(* It holds at the start; what a step leaves of it.                        *)

LEMMA ServerStarts == ServerInit => ServerInv
<1> SUFFICES ASSUME ServerInit PROVE ServerInv
  OBVIOUS
<1>1. Blank \in Content /\ Remembered(Blank, 1) \in Content
  BY BlankTyped, RememberedTyped
<1>2. \A d \in Memories :
        /\ memory[d] \in MemoryState /\ memory[d].present = (d = Single) /\ memory[d].stamp = 0
  <2> SUFFICES ASSUME NEW d \in Memories
               PROVE  /\ memory[d] \in MemoryState /\ memory[d].present = (d = Single)
                      /\ memory[d].stamp = 0
    OBVIOUS
  <2>1. memory[d] = [present |-> (d = Single),
                     c |-> IF d = Single THEN Remembered(Blank, 1) ELSE Blank, stamp |-> 0]
    BY DEF ServerInit, New
  <2> QED BY <1>1, <2>1 DEF MemoryState
<1>3. memory \in [Memories -> MemoryState]
  BY <1>2 DEF ServerInit
<1>4. snapshot \in Mapped /\ snapshot.stamp = 0
  BY <1>1 DEF ServerInit, Mapped
<1>5. asked \in Seq(Asking) /\ channel \in Seq(Nat) /\ Len(channel) = 0 /\ Len(asked) = 0 /\ out = {}
  <2>1. asked = <<>> /\ channel = <<>> /\ out = {}
    BY DEF ServerInit
  <2>2. <<>> \in Seq(Asking) /\ <<>> \in Seq(Nat) /\ Len(<<>>) = 0
    BY EmptySeq
  <2> QED BY <2>1, <2>2
<1>6. Taken = 0 /\ 1..Taken = {} /\ 1..Len(channel) = {} /\ DOMAIN asked = {}
  BY <1>5 DEF Taken
<1>7. Holding = {} /\ \A w \in Workers : worker[w].pc = "recv"
  BY DEF ServerInit, Holding
<1>8. ServerTypes
  <2>1. worker = [w \in Workers |-> worker[w]]
    BY DEF ServerInit
  <2>2. snapshot.stamp <= memory[Single].stamp
    BY <1>2, <1>4, ServerAssumption
  <2> QED BY <1>3, <1>4, <1>5, <2>1, <2>2 DEF ServerTypes
<1>9. \A w \in Workers : WorkerFits(worker[w])
  BY <1>7 DEF WorkerFits
<1>10. CreatedRightly
  BY <1>2 DEF CreatedRightly, MayBe
<1> QED
  BY <1>5, <1>6, <1>7, <1>8, <1>9, <1>10
     DEF ServerInv, Numbered, ToldBefore, Apart, OutFits, OneEach, NoneLost

\* Nothing told is taken back: requests stay, what is seen grows, an end is an end.
GrowsFrom ==
  /\ launch' = launch /\ Taken <= Taken' /\ Taken' \in Nat
  /\ \A n \in DOMAIN asked : n \in DOMAIN asked' /\ asked'[n] = asked[n]
  /\ \A d \in Memories : Now(d) <= Now(d)' /\ Now(d)' \in Nat
  /\ Drained => Drained'

\* What is typed, and the numbers taken from it.
LEMMA Sizes ==
  ASSUME ServerTypes
  PROVE  /\ Len(asked) \in Nat /\ Len(channel) \in Nat /\ Taken \in Nat /\ Taken <= Len(asked)
         /\ DOMAIN asked = 1..Len(asked) /\ 1..Taken \subseteq DOMAIN asked
         /\ \A d \in Memories : Now(d) \in Nat
         /\ \A n \in DOMAIN asked : \A d \in Memories : asked[n].told[d] \in Nat
         /\ \A n \in DOMAIN asked : asked[n].q \in Asked
<1>1. asked \in Seq(Asking) /\ channel \in Seq(Nat) /\ Len(channel) <= Len(asked)
  BY DEF ServerTypes
<1>2. Len(asked) \in Nat /\ Len(channel) \in Nat /\ DOMAIN asked = 1..Len(asked)
  BY <1>1
<1>3. Taken \in Nat /\ Taken <= Len(asked)
  BY <1>1, <1>2 DEF Taken
<1>4. 1..Taken \subseteq DOMAIN asked
  BY <1>2, <1>3
<1>5. \A d \in Memories : Now(d) \in Nat
  BY DEF ServerTypes, MemoryState, Mapped, Now
<1>6. \A n \in DOMAIN asked : asked[n] \in Asking
  BY <1>1, <1>2
<1>7. \A n \in DOMAIN asked : asked[n].told \in [Memories -> Nat] /\ asked[n].q \in Asked
  BY <1>6 DEF Asking
<1> QED BY <1>2, <1>3, <1>4, <1>5, <1>7

\* A reply, and a worker, that fitted, still does.
LEMMA StillFits ==
  ASSUME ServerTypes, GrowsFrom
  PROVE  /\ \A n \in 1..Taken : \A r : ReplyFits(r, n) => ReplyFits(r, n)'
         /\ \A x : WorkerFits(x) => WorkerFits(x)'
<1>1. /\ Taken \in Nat /\ 1..Taken \subseteq DOMAIN asked
      /\ \A d \in Memories : Now(d) \in Nat
  BY Sizes
<1>2. ASSUME NEW n \in 1..Taken, NEW d, InPlace(n, d) PROVE InPlace(n, d)'
  BY <1>1, <1>2 DEF InPlace, GrowsFrom, Named, Servable
<1>3. ASSUME NEW n \in 1..Taken, NEW r, ReplyFits(r, n) PROVE ReplyFits(r, n)'
  <2>1. asked'[n] = asked[n] /\ launch' = launch
    BY <1>1 DEF GrowsFrom
  <2>2. r.db \in Memories => r.stamp <= Now(r.db)'
    BY <1>1, <1>3 DEF ReplyFits, GrowsFrom
  <2>3. r.db # NoDb => InPlace(n, r.db)'
    BY <1>2, <1>3 DEF ReplyFits
  <2> QED BY <1>3, <2>1, <2>2, <2>3 DEF ReplyFits
<1>4. ASSUME NEW x, WorkerFits(x) PROVE WorkerFits(x)'
  <2>1. x.pc = "gone" => Drained'
    BY <1>4 DEF WorkerFits, GrowsFrom
  <2>2. x.pc \in {"handle", "search", "reply"} => x.n \in 1..Taken /\ x.n \in (1..Taken)'
    BY <1>1, <1>4 DEF WorkerFits, GrowsFrom
  <2>3. x.pc \in {"handle", "search", "reply"} => asked'[x.n] = asked[x.n]
    BY <1>1, <2>2 DEF GrowsFrom
  <2>4. x.pc = "search" => HalfFits(x)'
    <3> SUFFICES ASSUME x.pc = "search" PROVE HalfFits(x)'
      OBVIOUS
    <3>1. HalfFits(x)
      BY <1>4 DEF WorkerFits
    <3>2. x.db \in Memories /\ x.seen \in Nat /\ InPlace(x.n, x.db)'
      BY <1>2, <2>2, <3>1 DEF HalfFits
    <3>3. x.seen <= Now(x.db)'
      BY <1>1, <3>1, <3>2 DEF HalfFits, GrowsFrom
    <3> QED BY <2>3, <3>1, <3>2, <3>3 DEF HalfFits
  <2>5. x.pc = "reply" => ReplyFits(x.reply, x.n)'
    BY <1>3, <1>4, <2>2 DEF WorkerFits
  <2> QED BY <1>4, <2>1, <2>2, <2>3, <2>4, <2>5 DEF WorkerFits
<1> QED BY <1>3, <1>4

\* The same of a worker that stays as it is.
LEMMA SameWorker ==
  ASSUME NEW v, NEW x, x = worker'[v], WorkerFits(x)'
  PROVE  WorkerFits(worker[v])'
BY DEF WorkerFits, HalfFits, ReplyFits, InPlace, Named, Servable, Drained, Now, Taken

\* One worker comes to fit, the others as they are: all do.
LEMMA OneWorker ==
  ASSUME ServerInv, GrowsFrom, NEW w \in Workers, NEW x, WorkerFits(x)', Keep(w, x)
  PROVE  /\ \A v \in Workers : WorkerFits(worker[v])'
         /\ worker' = [v \in Workers |-> worker'[v]]
         /\ \A v \in Workers : worker'[v] = IF v = w THEN x ELSE worker[v]
<1>1. /\ worker' = [v \in Workers |-> worker'[v]]
      /\ \A v \in Workers : worker'[v] = IF v = w THEN x ELSE worker[v]
  BY DEF ServerInv, ServerTypes, Keep
<1>2. ASSUME NEW v \in Workers PROVE WorkerFits(worker[v])'
  <2>1. PICK y : y = worker'[v]
    OBVIOUS
  <2>2. CASE v = w
    BY <1>1, <2>1, <2>2, SameWorker
  <2>3. CASE v # w
    <3>1. WorkerFits(y)
      BY <1>1, <2>1, <2>3 DEF ServerInv
    <3>2. WorkerFits(y)'
      BY <3>1, StillFits DEF ServerInv
    <3> QED BY <2>1, <3>2, SameWorker
  <2> QED BY <2>2, <2>3
<1> QED BY <1>1, <1>2

\* A memory that may be there may be there later.
LEMMA MayStillBe ==
  ASSUME GrowsFrom, NEW d, MayBe(d)
  PROVE  MayBe(d)'
<1>1. CASE d = Single
  BY <1>1 DEF MayBe
<1>2. CASE d # Single
  <2>1. PICK n \in DOMAIN asked : asked[n].q.tool \in CreatingTools /\ Named(asked[n].q) = d
    BY <1>2 DEF MayBe
  <2>2. n \in DOMAIN asked' /\ asked'[n] = asked[n] /\ launch' = launch
    BY DEF GrowsFrom
  <2>3. Named(asked[n].q)' = d
    BY <2>1, <2>2 DEF Named
  <2> QED BY <1>2, <2>1, <2>2, <2>3 DEF MayBe, Servable, Named
<1> QED BY <1>1, <1>2

-----------------------------------------------------------------------------
(* Steps of the workers on the memories.                                   *)

\* The memories have moved on, and nothing else.
MemoriesMove ==
  /\ UNCHANGED <<launch, stdin, channel, asked, out>>
  /\ memory' \in [Memories -> MemoryState] /\ snapshot' \in Mapped
  /\ launch.mode = "reader" => snapshot'.stamp <= memory'[Single].stamp
  /\ \A d \in Memories : Now(d) <= Now(d)'
  /\ CreatedRightly'

LEMMA MovedIsGrown ==
  ASSUME ServerInv, MemoriesMove
  PROVE  /\ GrowsFrom /\ Taken' = Taken /\ Numbered' /\ ToldBefore'
         /\ worker' = [w \in Workers |-> worker'[w]] => ServerTypes'
<1>1. /\ Taken \in Nat /\ \A d \in Memories : Now(d) \in Nat
      /\ \A n \in DOMAIN asked : \A d \in Memories : asked[n].told[d] \in Nat
  BY Sizes DEF ServerInv
<1>2. Taken' = Taken
  BY DEF MemoriesMove, Taken
<1>3. \A d \in Memories : Now(d)' \in Nat
  BY DEF MemoriesMove, MemoryState, Mapped, Now
<1>4. GrowsFrom
  BY <1>1, <1>2, <1>3 DEF MemoriesMove, GrowsFrom, Drained
<1>5. Numbered'
  BY <1>2 DEF ServerInv, Numbered, MemoriesMove
<1>6. ToldBefore'
  <2>1. ASSUME NEW n \in DOMAIN asked, NEW d \in Memories PROVE asked[n].told[d] <= Now(d)'
    <3>1. asked[n].told[d] <= Now(d) BY DEF ServerInv, ToldBefore
    <3>2. Now(d) <= Now(d)' BY DEF MemoriesMove
    <3> QED BY <1>1, <1>3, <3>1, <3>2
  <2> QED BY <2>1 DEF ToldBefore, MemoriesMove
<1>7. ASSUME worker' = [w \in Workers |-> worker'[w]] PROVE ServerTypes'
  BY <1>7 DEF ServerInv, ServerTypes, MemoriesMove
<1> QED BY <1>2, <1>4, <1>5, <1>6, <1>7

\* The requests are where they were, whatever the workers at them have come to.
LEMMA RequestsStay ==
  ASSUME ServerInv, MemoriesMove, worker' = [v \in Workers |-> worker'[v]],
         Holding' = Holding, \A v \in Holding : worker'[v].n = worker[v].n,
         \A v \in Workers : WorkerFits(worker[v])'
  PROVE  ServerInv'
<1>1. GrowsFrom /\ Taken' = Taken /\ Numbered' /\ ToldBefore' /\ ServerTypes'
  BY MovedIsGrown
<1>2. OutFits'
  <2> SUFFICES ASSUME NEW r \in out
               PROVE  /\ r.n \in 1..Taken /\ ReplyFits(r, r.n)' /\ ~Ignored(asked[r.n].q)
                      /\ \A v \in Holding : worker'[v].n # r.n
    BY <1>1 DEF OutFits, MemoriesMove
  <2>1. /\ r.n \in 1..Taken /\ ReplyFits(r, r.n) /\ ~Ignored(asked[r.n].q)
        /\ \A v \in Holding : worker[v].n # r.n
    BY DEF ServerInv, OutFits
  <2>2. ReplyFits(r, r.n)'
    BY <1>1, <2>1, StillFits DEF ServerInv
  <2> QED BY <2>1, <2>2
<1>3. Apart'
  BY DEF ServerInv, Apart
<1>4. OneEach'
  BY DEF ServerInv, OneEach, MemoriesMove
<1>5. NoneLost'
  BY <1>1 DEF ServerInv, NoneLost, MemoriesMove
<1>6. CreatedRightly'
  BY DEF MemoriesMove
<1> QED BY <1>1, <1>2, <1>3, <1>4, <1>5, <1>6 DEF ServerInv

\* The memories change under workers that stand still.
LEMMA WorkersStand ==
  ASSUME ServerInv, MemoriesMove, worker' = worker
  PROVE  ServerInv'
<1>1. GrowsFrom
  BY MovedIsGrown
<1>2. ASSUME NEW v \in Workers PROVE WorkerFits(worker[v])'
  <2>1. PICK y : y = worker'[v]
    OBVIOUS
  <2>2. WorkerFits(y)
    BY <2>1 DEF ServerInv
  <2>3. WorkerFits(y)'
    BY <1>1, <2>2, StillFits DEF ServerInv
  <2> QED BY <2>1, <2>3, SameWorker
<1>3. worker' = [v \in Workers |-> worker'[v]] /\ Holding' = Holding
  BY DEF ServerInv, ServerTypes, Holding
<1> QED BY <1>2, <1>3, RequestsStay

\* A worker goes on with its request.
GoesOn(w, x) == /\ w \in Holding /\ x.pc \in {"handle", "search", "reply"} /\ x.n = worker[w].n
                /\ Keep(w, x)

LEMMA WorkerMoves ==
  ASSUME ServerInv, MemoriesMove, NEW w \in Workers, NEW x, WorkerFits(x)', GoesOn(w, x)
  PROVE  ServerInv'
<1>1. /\ \A v \in Workers : WorkerFits(worker[v])'
      /\ worker' = [v \in Workers |-> worker'[v]]
      /\ \A v \in Workers : worker'[v] = IF v = w THEN x ELSE worker[v]
  BY MovedIsGrown, OneWorker DEF GoesOn
<1>2. Holding' = Holding /\ \A v \in Holding : worker'[v].n = worker[v].n
  BY <1>1 DEF Holding, GoesOn
<1> QED BY <1>1, <1>2, RequestsStay

\* A worker at a request that wants a reply, before it has one.
At(w, n) == /\ worker[w].pc \in {"handle", "search"} /\ n = worker[w].n
            /\ ~Ignored(asked[n].q)

LEMMA AtRequest ==
  ASSUME ServerInv, NEW w \in Workers, NEW n, At(w, n)
  PROVE  /\ w \in Holding /\ n \in 1..Taken /\ n \in DOMAIN asked
         /\ \A d \in Memories : asked[n].told[d] <= Now(d)
         /\ \A d \in Memories : asked[n].told[d] \in Nat /\ Now(d) \in Nat
<1>1. w \in Holding
  BY DEF At, Holding
<1>2. n \in 1..Taken
  BY DEF ServerInv, WorkerFits, At
<1>3. n \in DOMAIN asked
  BY <1>2, Sizes DEF ServerInv
<1> QED BY <1>1, <1>2, <1>3, Sizes DEF ServerInv, ToldBefore

\* It has its reply.
LEMMA AnswersStep ==
  ASSUME ServerInv, MemoriesMove, NEW w \in Workers, NEW n, At(w, n),
         NEW r, ReplyFits(r, n)', Answers(w, r)
  PROVE  ServerInv'
<1>0. PICK x : x = [pc |-> "reply", n |-> n, reply |-> r]
  OBVIOUS
<1>1. worker' = [worker EXCEPT ![w] = x]
  BY <1>0 DEF Answers, Keep, At
<1>2. w \in Holding /\ n \in 1..Taken /\ (1..Taken)' = 1..Taken
  BY AtRequest, MovedIsGrown
<1>3. ~Ignored(asked'[n].q)
  BY DEF At, MemoriesMove
<1>4. x.pc = "reply" /\ x.n = n /\ x.reply = r
  BY <1>0
<1>5. x.n = worker[w].n
  BY <1>4 DEF At
<1>6. WorkerFits(x)'
  BY <1>2, <1>3, <1>4 DEF WorkerFits
<1>7. GoesOn(w, x)
  BY <1>1, <1>2, <1>4, <1>5 DEF GoesOn, Keep
<1> QED BY <1>6, <1>7, WorkerMoves

\* Or a refusal.
LEMMA RefusesStep ==
  ASSUME ServerInv, MemoriesMove, NEW w \in Workers, NEW n, At(w, n), Refuses(w)
  PROVE  ServerInv'
<1>1. PICK r : r = Reply(w, "error", NoDb, NoFact, 0)
  OBVIOUS
<1>2. r = [n |-> n, how |-> "error", db |-> NoDb, id |-> NoFact, stamp |-> 0]
  BY <1>1 DEF Reply, At
<1>3. \A d \in Memories : Now(d)' \in Nat
  BY MovedIsGrown DEF GrowsFrom
<1>4. ReplyFits(r, n)'
  BY <1>2, <1>3 DEF ReplyFits
<1> QED BY <1>1, <1>4, AnswersStep DEF Refuses

\* Or the first half of its call behind it.
LEMMA HalfwayStep ==
  ASSUME ServerInv, MemoriesMove, NEW w \in Workers, NEW n, At(w, n),
         NEW d \in Memories, InPlace(n, d)', NEW s \in Nat, s = Now(d), Halfway(w, d, s)
  PROVE  ServerInv'
<1>0. PICK x : x = [pc |-> "search", n |-> n, db |-> d, seen |-> s]
  OBVIOUS
<1>1. worker' = [worker EXCEPT ![w] = x]
  BY <1>0 DEF Halfway, Keep, At
<1>2. w \in Holding /\ n \in 1..Taken /\ (1..Taken)' = 1..Taken
  BY AtRequest, MovedIsGrown
<1>3. ~Ignored(asked'[n].q) /\ asked' = asked
  BY DEF At, MemoriesMove
<1>4. x.pc = "search" /\ x.n = n /\ x.db = d /\ x.seen = s
  BY <1>0
<1>5. x.n = worker[w].n
  BY <1>4 DEF At
<1>6. asked[n].told[d] <= s /\ s <= Now(d)'
  BY AtRequest DEF MemoriesMove
<1>7. HalfFits(x)'
  BY <1>3, <1>4, <1>6 DEF HalfFits
<1>8. WorkerFits(x)'
  BY <1>2, <1>3, <1>4, <1>7 DEF WorkerFits
<1>9. GoesOn(w, x)
  BY <1>1, <1>2, <1>4, <1>5 DEF GoesOn, Keep
<1> QED BY <1>8, <1>9, WorkerMoves

-----------------------------------------------------------------------------
(* The tools.                                                              *)

\* A memory that gets other contents, and one more change if they are other.
LEMMA MemoryWritten ==
  ASSUME ServerInv, launch.mode # "reader", NEW d \in Memories, NEW c \in Content,
         memory' = [memory EXCEPT ![d].c = c,
                                  ![d].stamp = IF c = memory[d].c THEN @ ELSE @ + 1],
         UNCHANGED <<launch, stdin, channel, asked, snapshot, out>>
  PROVE  MemoriesMove /\ memory'[d].stamp = Now(d)' /\ Now(d)' \in Nat
<1>1. memory[d] \in MemoryState
  BY DEF ServerInv, ServerTypes
<1>2. PICK s : s = IF c = memory[d].c THEN memory[d].stamp ELSE memory[d].stamp + 1
  OBVIOUS
<1>3. s \in Nat /\ memory[d].stamp <= s
  BY <1>1, <1>2 DEF MemoryState
<1>4. memory' = [memory EXCEPT ![d] = [present |-> memory[d].present, c |-> c, stamp |-> s]]
  <2>1. memory = [e \in Memories |-> memory[e]] /\ d \in Memories
    BY DEF ServerInv, ServerTypes
  <2> DEFINE m == [memory EXCEPT ![d].c = c]
  <2>2. m = [e \in Memories |-> m[e]] /\ \A e \in Memories : e # d => m[e] = memory[e]
    BY <2>1
  <2>3. m[d] = [present |-> memory[d].present, c |-> c, stamp |-> memory[d].stamp]
    BY <1>1, <2>1 DEF MemoryState
  <2>4. memory' = [m EXCEPT ![d] = [m[d] EXCEPT !.stamp = IF c = memory[d].c THEN @ ELSE @ + 1]]
    OBVIOUS
  <2> HIDE DEF m
  <2>5. [m[d] EXCEPT !.stamp = IF c = memory[d].c THEN @ ELSE @ + 1]
          = [present |-> memory[d].present, c |-> c, stamp |-> s]
    BY <1>2, <2>3
  <2>6. memory' = [m EXCEPT ![d] = [present |-> memory[d].present, c |-> c, stamp |-> s]]
    BY <2>4, <2>5
  <2> QED BY <2>1, <2>2, <2>6
<1>5. [present |-> memory[d].present, c |-> c, stamp |-> s] \in MemoryState
  BY <1>1, <1>3 DEF MemoryState
<1>6. memory' \in [Memories -> MemoryState]
  BY <1>4, <1>5 DEF ServerInv, ServerTypes
<1>7. \A e \in Memories : /\ memory'[e].present = memory[e].present
                          /\ memory[e].stamp <= memory'[e].stamp /\ memory'[e].stamp \in Nat
  BY <1>3, <1>4 DEF ServerInv, ServerTypes, MemoryState
<1>8. CreatedRightly'
  BY <1>7 DEF ServerInv, CreatedRightly, MayBe, Servable, Named
<1>9. \A e \in Memories : Now(e) = memory[e].stamp /\ Now(e)' = memory'[e].stamp
  BY DEF Now
<1> QED BY <1>6, <1>7, <1>8, <1>9 DEF MemoriesMove, ServerInv, ServerTypes

\* A memory that stays as it is.
LEMMA MemoriesStay ==
  ASSUME ServerInv, UNCHANGED <<launch, stdin, channel, asked, memory, snapshot, out>>
  PROVE  MemoriesMove /\ \A d \in Memories : Now(d)' = Now(d) /\ Now(d) \in Nat
<1>1. \A d \in Memories : Now(d)' = Now(d) /\ Now(d) \in Nat
  BY Sizes DEF ServerInv, Now
<1>2. CreatedRightly'
  BY DEF ServerInv, CreatedRightly, MayBe, Servable, Named
<1> QED BY <1>1, <1>2 DEF MemoriesMove, ServerInv, ServerTypes

\* A reply about a memory as it is after the step, of a fact the request names or of
\* none, fits.
LEMMA ReplyOfNow ==
  ASSUME ServerInv, MemoriesMove, NEW w \in Workers, NEW n, At(w, n), NEW d \in Memories,
         InPlace(n, d), NEW how, NEW id, NEW s \in Nat, s = Now(d)',
         id # NoFact => \/ id = asked[n].q.id
                        \/ launch.mode = "reader" /\ asked[n].q.tool = "show"
  PROVE  \A r : r = Reply(w, how, d, id, s) => ReplyFits(r, n)'
<1> SUFFICES ASSUME NEW r, r = Reply(w, how, d, id, s) PROVE ReplyFits(r, n)'
  OBVIOUS
<1>1. r.n = n /\ r.how = how /\ r.db = d /\ r.id = id /\ r.stamp = s
  BY DEF Reply, At
<1>2. asked' = asked /\ launch' = launch
  BY DEF MemoriesMove
<1>3. asked[n].told[d] <= s
  <2>1. asked[n].told[d] <= Now(d) /\ asked[n].told[d] \in Nat /\ Now(d) \in Nat
    BY AtRequest
  <2>2. Now(d) <= Now(d)'
    BY DEF MemoriesMove
  <2> QED BY <2>1, <2>2
<1>4. InPlace(n, d)'
  BY <1>2 DEF InPlace, Named, Servable
<1>5. r.db = d => r.stamp <= Now(r.db)'
  BY <1>1
<1> QED BY <1>1, <1>2, <1>3, <1>4, <1>5 DEF ReplyFits

\* What a writer's tool makes of contents is contents.
LEMMA WrittenTyped ==
  ASSUME NEW c \in Content, NEW q, q.tool \in WriteTools
  PROVE  Written(c, q) \subseteq Content
<1>1. Remembered(c, 1) \in Content
  BY RememberedTyped
<1>2. /\ RememberTool(c, q) \subseteq Content /\ MaintainTool(c, q) \subseteq Content
      /\ RemoveTagTool(c, q) \subseteq Content /\ UnlinkTool(c, q) \subseteq Content
      /\ LinkTool(c, q) \subseteq Content
  BY <1>1, VerbsTyped DEF RememberTool, MaintainTool, RemoveTagTool, UnlinkTool, LinkTool
<1>3. ReviseTool(c, q) \subseteq Content
  BY VerbsTyped DEF ReviseTool
<1>4. ForgetTool(c, q) \subseteq Content
  BY VerbsTyped DEF ForgetTool
<1> QED BY <1>2, <1>3, <1>4 DEF Written, WriteTools

LEMMA NoOtherFact ==
  ASSUME NEW v
  PROVE  FactId(v) = NoFact \/ FactId(v) = v
BY DEF FactId

\* One write, done or refused.
LEMMA CallWriteStep ==
  ASSUME ServerInv, launch.mode # "reader", NEW w \in Workers, NEW n, At(w, n),
         NEW d \in Memories, InPlace(n, d), CallWrite(w, d),
         UNCHANGED <<launch, stdin, channel, asked, snapshot, out>>
  PROVE  ServerInv'
<1>1. CASE Refuses(w) /\ UNCHANGED memory
  BY <1>1, MemoriesStay, RefusesStep
<1>2. CASE ~(Refuses(w) /\ UNCHANGED memory)
  <2>1. memory[d].c \in Content
    BY DEF ServerInv, ServerTypes, MemoryState
  <2>2. PICK c \in Written(memory[d].c, Request(w)) :
          /\ memory' = [memory EXCEPT ![d].c = c,
                                      ![d].stamp = IF c = memory[d].c THEN @ ELSE @ + 1]
          /\ Answers(w, Reply(w, "done", d, FactId(Request(w).id), memory'[d].stamp))
    BY <1>2 DEF CallWrite
  <2>3. c \in Content
    BY <2>1, <2>2, WrittenTyped DEF CallWrite
  <2>4. MemoriesMove /\ memory'[d].stamp = Now(d)' /\ Now(d)' \in Nat
    BY <2>2, <2>3, MemoryWritten
  <2>5. PICK r : r = Reply(w, "done", d, FactId(Request(w).id), memory'[d].stamp)
    OBVIOUS
  <2>6. Request(w) = asked[n].q
    BY DEF Request, At
  <2>7. ReplyFits(r, n)'
    BY <2>4, <2>5, <2>6, ReplyOfNow, NoOtherFact
  <2> QED BY <2>2, <2>4, <2>5, <2>7, AnswersStep
<1> QED BY <1>1, <1>2

\* A reading tool: what it says is as new as what it reads.
LEMMA CallReadStep ==
  ASSUME ServerInv, NEW w \in Workers, NEW n, At(w, n), NEW d \in Memories, InPlace(n, d),
         NEW c, NEW s \in Nat, s = Now(d), CallRead(w, d, c, s),
         UNCHANGED <<launch, stdin, channel, asked, snapshot, out>>
  PROVE  ServerInv'
<1>1. MemoriesMove /\ s = Now(d)'
  BY MemoriesStay DEF CallRead
<1>2. Request(w) = asked[n].q
  BY DEF Request, At
<1>3. ShownId(asked[n].q.id) # NoFact =>
        ShownId(asked[n].q.id) = asked[n].q.id \/ launch.mode = "reader"
  BY NoOtherFact DEF ShownId
<1>4. CASE asked[n].q.tool = "show"
  <2>1. PICK id, how : /\ id = NoFact \/ id = ShownId(asked[n].q.id)
                       /\ Answers(w, Reply(w, how, d, id, s))
    BY <1>2, <1>4 DEF CallRead, ShowTool
  <2>2. PICK r : r = Reply(w, how, d, id, s)
    OBVIOUS
  <2>3. ReplyFits(r, n)'
    BY <1>1, <1>3, <1>4, <2>1, <2>2, ReplyOfNow
  <2> QED BY <1>1, <2>1, <2>2, <2>3, AnswersStep
<1>5. CASE asked[n].q.tool # "show"
  <2>1. PICK r : r = Reply(w, "done", d, NoFact, s)
    OBVIOUS
  <2>2. ReplyFits(r, n)'
    BY <1>1, <2>1, ReplyOfNow
  <2> QED BY <1>1, <1>2, <1>5, <2>1, <2>2, AnswersStep DEF CallRead
<1> QED BY <1>4, <1>5

\* The tools of two halves.
LEMMA CallHalfStep ==
  ASSUME ServerInv, NEW w \in Workers, NEW n, At(w, n), NEW d \in Memories, InPlace(n, d),
         NEW s \in Nat, s = Now(d), CallRecall(w, d, s) \/ CallExport(w, d, s),
         UNCHANGED <<launch, stdin, channel, asked, snapshot, out>>
  PROVE  ServerInv'
<1>1. MemoriesMove
  BY MemoriesStay DEF CallRecall, CallExport
<1>2. InPlace(n, d)'
  BY DEF InPlace, Named, Servable
<1>3. CASE Refuses(w)
  BY <1>1, <1>3, RefusesStep
<1>4. CASE Halfway(w, d, s)
  BY <1>1, <1>2, <1>4, HalfwayStep
<1> QED BY <1>3, <1>4 DEF CallRecall, CallExport

\* A call on a memory that may change.
LEMMA CallStep ==
  ASSUME ServerInv, launch.mode # "reader", NEW w \in Workers, NEW n, At(w, n),
         NEW d \in Memories, InPlace(n, d), Call(w, d),
         UNCHANGED <<launch, stdin, channel, asked, snapshot, out>>
  PROVE  ServerInv'
<1>1. PICK s : s = memory[d].stamp
  OBVIOUS
<1>2. PICK c : c = memory[d].c
  OBVIOUS
<1>3. s \in Nat /\ s = Now(d)
  BY <1>1 DEF ServerInv, ServerTypes, MemoryState, Now
<1>4. CASE CallWrite(w, d)
  BY <1>4, CallWriteStep
<1>5. CASE CallRead(w, d, memory[d].c, memory[d].stamp)
  BY <1>1, <1>2, <1>3, <1>5, CallReadStep
<1>6. CASE CallRecall(w, d, memory[d].stamp) \/ CallExport(w, d, memory[d].stamp)
  BY <1>1, <1>3, <1>6, CallHalfStep
<1>7. CASE CallUnknown(w, DatabaseTools)
  BY <1>7, MemoriesStay, RefusesStep DEF CallUnknown
<1> QED BY <1>4, <1>5, <1>6, <1>7 DEF Call

-----------------------------------------------------------------------------
(* The steps of a worker, by the kind of server.                           *)

\* A call wants a reply.
LEMMA AtCall ==
  ASSUME NEW w \in Workers, WorkerAt(w, "handle"), Request(w).method = "tools/call",
         NEW n, n = worker[w].n
  PROVE  At(w, n)
BY DEF At, WorkerAt, Request, Ignored

\* A reply of no memory and no fact.
LEMMA ReplyOfNothing ==
  ASSUME NEW w \in Workers, NEW n, At(w, n), NEW how, how # "done", \A d \in Memories : Now(d)' \in Nat
  PROVE  \A r : r = Reply(w, how, NoDb, NoFact, 0) => ReplyFits(r, n)'
<1> SUFFICES ASSUME NEW r, r = Reply(w, how, NoDb, NoFact, 0) PROVE ReplyFits(r, n)'
  OBVIOUS
<1>1. r.n = n /\ r.how = how /\ r.db = NoDb /\ r.id = NoFact /\ r.stamp = 0
  BY DEF Reply, At
<1> QED BY <1>1 DEF ReplyFits

LEMMA CallWriterStep ==
  ASSUME ServerInv, NEW w \in Workers, CallWriter(w)
  PROVE  ServerInv'
<1>1. PICK n : n = worker[w].n
  OBVIOUS
<1>2. At(w, n)
  BY <1>1, AtCall DEF CallWriter
<1>3. launch.mode = "writer" /\ Single \in Memories /\ InPlace(n, Single)
  BY ServerAssumption DEF CallWriter, InPlace
<1> QED BY <1>2, <1>3, CallStep DEF CallWriter

LEMMA CallStatelessStep ==
  ASSUME ServerInv, NEW w \in Workers, CallStateless(w)
  PROVE  ServerInv'
<1>1. PICK n : n = worker[w].n
  OBVIOUS
<1>2. At(w, n)
  BY <1>1, AtCall DEF CallStateless
<1>3. PICK r : r = Reply(w, "about", NoDb, NoFact, 0)
  OBVIOUS
<1>4. MemoriesMove /\ \A d \in Memories : Now(d)' \in Nat
  BY MemoriesStay DEF CallStateless
<1>5. ReplyFits(r, n)'
  BY <1>2, <1>3, <1>4, ReplyOfNothing
<1> QED BY <1>2, <1>3, <1>4, <1>5, AnswersStep DEF CallStateless

\* A read-only server's call: the snapshot stands, or moves to what is published.
LEMMA CallReaderStep ==
  ASSUME ServerInv, NEW w \in Workers, CallReader(w)
  PROVE  ServerInv'
<1>1. PICK n : n = worker[w].n
  OBVIOUS
<1>2. At(w, n)
  BY <1>1, AtCall DEF CallReader
<1>3. launch.mode = "reader" /\ Single \in Memories /\ InPlace(n, Single)
  BY ServerAssumption DEF CallReader, InPlace
<1>4. PICK s : s = snapshot.stamp
  OBVIOUS
<1>5. s \in Nat /\ s = Now(Single)
  BY <1>3, <1>4 DEF ServerInv, ServerTypes, Mapped, Now
<1>6. UNCHANGED <<launch, stdin, channel, asked, out>>
  BY DEF CallReader
<1>7. CASE CallRead(w, Single, snapshot.c, snapshot.stamp) /\ UNCHANGED snapshot
  <2>1. PICK c : c = snapshot.c
    OBVIOUS
  <2> QED BY <1>2, <1>3, <1>4, <1>5, <1>6, <1>7, <2>1, CallReadStep
<1>8. CASE /\ CallRecall(w, Single, snapshot.stamp) \/ CallExport(w, Single, snapshot.stamp)
           /\ UNCHANGED snapshot
  BY <1>2, <1>3, <1>4, <1>5, <1>6, <1>8, CallHalfStep
<1>9. CASE CallUnknown(w, ReadTools \cup {"recall", "export", "refresh", "about"})
             /\ UNCHANGED snapshot
  BY <1>2, <1>6, <1>9, MemoriesStay, RefusesStep DEF CallUnknown
<1>10. CASE CallRefresh(w) /\ UNCHANGED memory
  <2>1. CASE Refuses(w) /\ UNCHANGED snapshot
    BY <1>2, <1>6, <1>10, <2>1, MemoriesStay, RefusesStep
  <2>2. CASE /\ snapshot' = Refreshed(snapshot, memory[Single])
             /\ Answers(w, Reply(w, "done", Single, NoFact, memory[Single].stamp))
    <3>1. PICK t : t = memory[Single].stamp
      OBVIOUS
    <3>2. memory[Single] \in MemoryState /\ snapshot.stamp \in Nat /\ snapshot.stamp <= t
      BY <1>3, <3>1 DEF ServerInv, ServerTypes, Mapped
    <3>3. snapshot' \in Mapped /\ snapshot'.stamp = t /\ t \in Nat
      BY <2>2, <3>1, <3>2 DEF Refreshed, MemoryState, Mapped
    <3>4. \A d \in Memories : Now(d) = snapshot.stamp /\ Now(d)' = t
      BY <1>3, <1>6, <3>3 DEF Now
    <3>5. MemoriesMove
      <4>1. CreatedRightly'
        BY <1>6, <1>10 DEF ServerInv, CreatedRightly, MayBe, Servable, Named
      <4>2. memory' = memory /\ memory' \in [Memories -> MemoryState]
        BY <1>10 DEF ServerInv, ServerTypes
      <4>3. snapshot'.stamp <= memory'[Single].stamp
        BY <3>1, <3>3, <4>2
      <4> QED BY <1>6, <3>2, <3>3, <3>4, <4>1, <4>2, <4>3 DEF MemoriesMove
    <3>6. PICK r : r = Reply(w, "done", Single, NoFact, t)
      OBVIOUS
    <3>7. ReplyFits(r, n)'
      BY <1>2, <1>3, <3>3, <3>4, <3>5, <3>6, ReplyOfNow
    <3> QED BY <1>2, <2>2, <3>1, <3>5, <3>6, <3>7, AnswersStep
  <2> QED BY <1>10, <2>1, <2>2 DEF CallRefresh
<1> QED BY <1>7, <1>8, <1>9, <1>10 DEF CallReader

\* The pool makes a memory for a write, and the call goes on.
LEMMA CreateStep ==
  ASSUME ServerInv, NEW w \in Workers, NEW n, At(w, n), launch.mode = "workspace",
         NEW d \in Memories, d = Named(asked[n].q), Servable(d), MayCreate(asked[n].q),
         memory' = [memory EXCEPT ![d].present = TRUE], Keep(w, worker[w]),
         UNCHANGED <<launch, stdin, channel, asked, snapshot, out>>
  PROVE  ServerInv'
<1>1. worker' = worker
  BY DEF Keep, ServerInv, ServerTypes
<1>2. memory[d] \in MemoryState /\ n \in DOMAIN asked
  BY AtRequest DEF ServerInv, ServerTypes
<1>3. [memory[d] EXCEPT !.present = TRUE] \in MemoryState
       /\ [memory[d] EXCEPT !.present = TRUE].stamp = memory[d].stamp
  BY <1>2 DEF MemoryState
<1>4. memory' = [memory EXCEPT ![d] = [memory[d] EXCEPT !.present = TRUE]]
  OBVIOUS
<1>5. /\ memory' \in [Memories -> MemoryState]
      /\ \A e \in Memories : /\ memory'[e].stamp = memory[e].stamp
                             /\ e # d => memory'[e] = memory[e]
  BY <1>3, <1>4 DEF ServerInv, ServerTypes
<1>6. CreatedRightly'
  <2>1. MayBe(d)
    BY <1>2 DEF MayBe, MayCreate
  <2>2. \A e \in Memories : memory'[e].present => MayBe(e)
    BY <1>5, <2>1 DEF ServerInv, CreatedRightly
  <2> QED BY <2>2 DEF CreatedRightly, MayBe, Servable, Named
<1>7. \A e \in Memories : Now(e) = memory[e].stamp /\ Now(e)' = memory[e].stamp /\ Now(e) \in Nat
  BY <1>5, Sizes DEF Now, ServerInv
<1>8. MemoriesMove
  BY <1>5, <1>6, <1>7 DEF MemoriesMove, ServerInv, ServerTypes
<1> QED BY <1>1, <1>8, WorkersStand

LEMMA CallWorkspaceStep ==
  ASSUME ServerInv, NEW w \in Workers, CallWorkspace(w)
  PROVE  ServerInv'
<1>1. PICK n : n = worker[w].n
  OBVIOUS
<1>2. At(w, n) /\ Request(w) = asked[n].q /\ launch.mode = "workspace"
  BY <1>1, AtCall DEF CallWorkspace, Request
<1>3. PICK d : d = Named(asked[n].q)
  OBVIOUS
<1>4. UNCHANGED <<launch, stdin, channel, asked, snapshot, out>>
  BY DEF CallWorkspace
<1>5. CASE Refuses(w) /\ UNCHANGED memory
  BY <1>2, <1>4, <1>5, MemoriesStay, RefusesStep
<1>6. CASE Servable(d) /\ Call(w, d)
  <2>1. d \in Memories /\ InPlace(n, d)
    BY <1>3, <1>6 DEF InPlace, Servable
  <2> QED BY <1>2, <1>4, <1>6, <2>1, CallStep
<1>7. CASE /\ Servable(d) /\ MayCreate(asked[n].q)
           /\ memory' = [memory EXCEPT ![d].present = TRUE] /\ Keep(w, worker[w])
  <2>1. d \in Memories
    BY <1>7 DEF Servable
  <2> QED BY <1>2, <1>3, <1>4, <1>7, <2>1, CreateStep
<1> QED BY <1>2, <1>3, <1>5, <1>6, <1>7 DEF CallWorkspace

\* The second half finds at least what the first had seen.
LEMMA SearchStep ==
  ASSUME ServerInv, NEW w \in Workers, Search(w)
  PROVE  ServerInv'
<1>1. PICK n : n = worker[w].n
  OBVIOUS
<1>2. WorkerFits(worker[w]) /\ worker[w].pc = "search"
  BY DEF ServerInv, Search, WorkerAt
<1>3. HalfFits(worker[w]) /\ ~Ignored(asked[n].q) /\ n \in 1..Taken
  BY <1>1, <1>2 DEF WorkerFits
<1>4. At(w, n)
  BY <1>1, <1>2, <1>3 DEF At
<1>5. MemoriesMove /\ \A d \in Memories : Now(d)' = Now(d) /\ Now(d) \in Nat
  BY MemoriesStay DEF Search
<1>6. CASE Refuses(w)
  BY <1>4, <1>5, <1>6, RefusesStep
<1>7. CASE ~Refuses(w)
  <2>1. PICK d, s : d = worker[w].db /\ s = IF Request(w).tool = "export" THEN worker[w].seen ELSE Now(d)
    OBVIOUS
  <2>2. /\ d \in Memories /\ InPlace(n, d) /\ s \in Nat
        /\ asked[n].told[d] <= s /\ s <= Now(d)'
    <3>1. /\ d \in Memories /\ worker[w].seen \in Nat /\ InPlace(n, d)
          /\ asked[n].told[d] <= worker[w].seen /\ worker[w].seen <= Now(d)
      BY <1>1, <1>3, <2>1 DEF HalfFits
    <3>2. asked[n].told[d] <= Now(d) /\ Now(d)' = Now(d) /\ Now(d) \in Nat
      BY <1>4, <1>5, <3>1, AtRequest
    <3> QED BY <2>1, <3>1, <3>2
  <2>3. Answers(w, Reply(w, "done", d, NoFact, s))
    BY <1>7, <2>1 DEF Search, Now
  <2>4. PICK r : r = Reply(w, "done", d, NoFact, s)
    OBVIOUS
  <2>5. r.n = n /\ r.how = "done" /\ r.db = d /\ r.id = NoFact /\ r.stamp = s
    BY <1>1, <2>4 DEF Reply
  <2>6. asked' = asked /\ InPlace(n, d)'
    BY <1>5, <2>2 DEF MemoriesMove, InPlace, Named, Servable
  <2>7. ReplyFits(r, n)'
    BY <2>2, <2>5, <2>6 DEF ReplyFits
  <2> QED BY <1>4, <1>5, <2>3, <2>4, <2>7, AnswersStep
<1> QED BY <1>6, <1>7

-----------------------------------------------------------------------------
(* The steps of the channel and of the replies.                            *)

\* Only requests, workers and replies have moved.
MemoriesStand == UNCHANGED <<launch, memory, snapshot>>

LEMMA StandingKept ==
  ASSUME ServerInv, MemoriesStand
  PROVE  /\ \A d \in Memories : Now(d)' = Now(d) /\ Now(d) \in Nat
         /\ memory' \in [Memories -> MemoryState] /\ snapshot' \in Mapped
         /\ launch'.mode = "reader" => snapshot'.stamp <= memory'[Single].stamp
BY Sizes DEF ServerInv, ServerTypes, MemoriesStand, Now

\* As long as requests only come, what may be there may be there.
LEMMA CreationKept ==
  ASSUME ServerInv, GrowsFrom, UNCHANGED memory
  PROVE  CreatedRightly'
<1> SUFFICES ASSUME NEW d \in Memories, memory[d].present PROVE MayBe(d)'
  BY DEF CreatedRightly
<1> QED BY MayStillBe DEF ServerInv, CreatedRightly

\* The next line is read, with what has been told by then.
LEMMA GreatestOf ==
  ASSUME NEW b \in Nat, NEW T, T \subseteq 0..b, T # {}
  PROVE  Max(T) \in T /\ \A y \in T : y <= Max(T)
<1> DEFINE R == {ss \in Nat \X Nat : ss[1] < ss[2]}
           D == {k \in Nat : b - k \in T}
<1>1. IsWellFoundedOn(R, Nat)
  BY NatLessThanWellFounded DEF OpToRel
<1>2. D \subseteq Nat /\ D # {}
  <2>1. PICK y \in T : TRUE
    OBVIOUS
  <2>2. b - y \in D
    BY <2>1
  <2> QED BY <2>2
<1> HIDE DEF R, D
<1>3. PICK k \in D : \A m \in D : ~ (<<m, k>> \in R)
  BY <1>1, <1>2, WFMin
<1>4. b - k \in T /\ k \in Nat
  BY <1>3 DEF D
<1>5. ASSUME NEW y \in T PROVE y <= b - k
  <2>1. b - y \in D /\ b - y \in Nat /\ y \in Nat
    BY DEF D
  <2>2. ~ (b - y < k)
    BY <1>3, <1>4, <2>1 DEF R
  <2> QED BY <1>4, <2>1, <2>2
<1>6. \E x \in T : \A y \in T : x >= y
  <2>1. \A y \in T : b - k >= y
    BY <1>4, <1>5
  <2> QED BY <1>4, <2>1
<1>7. Max(T) \in T /\ \A y \in T : Max(T) >= y
  BY <1>6 DEF Max
<1> QED BY <1>7

\* What is told of a memory is no more than there is to see.
LEMMA ToldIsTrue ==
  ASSUME ServerInv
  PROVE  Told \in [Memories -> Nat] /\ \A d \in Memories : Told[d] <= Now(d)
<1> SUFFICES ASSUME NEW d \in Memories PROVE Told[d] \in Nat /\ Told[d] <= Now(d)
  BY DEF Told
<1> DEFINE T == {0} \cup {r.stamp : r \in {x \in out : x.db = d}}
<1>1. Now(d) \in Nat
  BY Sizes DEF ServerInv
<1>2. \A r \in out : r.db = d => r.stamp \in Nat /\ r.stamp <= Now(d)
  BY DEF ServerInv, OutFits, ReplyFits
<1>3. T \subseteq 0..Now(d) /\ T # {}
  BY <1>1, <1>2
<1>4. Told[d] = Max(T)
  BY DEF Told
<1>5. PICK b : b = Now(d)
  OBVIOUS
<1> HIDE DEF T
<1>6. b \in Nat /\ T \subseteq 0..b /\ T # {}
  BY <1>1, <1>3, <1>5
<1>7. Max(T) \in T
  BY <1>6, GreatestOf
<1>8. Told[d] \in 0..b
  BY <1>4, <1>6, <1>7
<1> QED BY <1>5, <1>6, <1>8

LEMMA ReadLineStep ==
  ASSUME ServerInv, NEW q \in Asked, ReadLine(q)
  PROVE  ServerInv'
<1>1. /\ Len(asked) \in Nat /\ Len(channel) \in Nat /\ Taken \in Nat /\ Taken <= Len(asked)
      /\ DOMAIN asked = 1..Len(asked) /\ 1..Taken \subseteq DOMAIN asked
      /\ asked \in Seq(Asking) /\ channel \in Seq(Nat)
  BY Sizes DEF ServerInv, ServerTypes
<1>2. PICK a : a = [q |-> q, told |-> Told]
  OBVIOUS
<1>3. a \in Asking
  BY <1>2, ToldIsTrue DEF Asking
<1>4. asked' = Append(asked, a) /\ channel' = Append(channel, Len(asked) + 1)
  BY <1>2 DEF ReadLine
<1>5. /\ asked' \in Seq(Asking) /\ Len(asked') = Len(asked) + 1
      /\ DOMAIN asked' = 1..Len(asked) + 1
      /\ \A n \in 1..Len(asked) : asked'[n] = asked[n]
      /\ asked'[Len(asked) + 1] = a
  BY <1>1, <1>3, <1>4
<1>6. /\ channel' \in Seq(Nat) /\ Len(channel') = Len(channel) + 1
      /\ \A i \in 1..Len(channel) : channel'[i] = channel[i]
      /\ channel'[Len(channel) + 1] = Len(asked) + 1
  BY <1>1, <1>4
<1>7. Taken' = Taken
  BY <1>1, <1>5, <1>6 DEF Taken
<1>8. UNCHANGED <<launch, stdin, worker, memory, snapshot, out>> /\ stdin = "open"
  BY DEF ReadLine
<1>9. /\ \A d \in Memories : Now(d)' = Now(d) /\ Now(d) \in Nat
      /\ memory' \in [Memories -> MemoryState] /\ snapshot' \in Mapped
      /\ launch'.mode = "reader" => snapshot'.stamp <= memory'[Single].stamp
  BY <1>8, StandingKept DEF MemoriesStand
<1>10. GrowsFrom
  BY <1>1, <1>5, <1>7, <1>8, <1>9 DEF GrowsFrom, Drained
<1>11. ServerTypes'
  BY <1>1, <1>5, <1>6, <1>8, <1>9 DEF ServerTypes, ServerInv
<1>12. Numbered'
  <2> SUFFICES ASSUME NEW i \in 1..Len(channel) + 1 PROVE channel'[i] = Taken + i
    BY <1>6, <1>7 DEF Numbered
  <2>1. CASE i \in 1..Len(channel)
    BY <1>6, <2>1 DEF ServerInv, Numbered
  <2>2. CASE i = Len(channel) + 1
    BY <1>1, <1>6, <2>2 DEF Taken
  <2> QED BY <1>1, <2>1, <2>2
<1>13. ToldBefore'
  <2> SUFFICES ASSUME NEW n \in 1..Len(asked) + 1, NEW d \in Memories
               PROVE  asked'[n].told[d] <= Now(d)
    BY <1>5, <1>9 DEF ToldBefore
  <2>1. CASE n \in 1..Len(asked)
    BY <1>1, <1>5, <2>1 DEF ServerInv, ToldBefore
  <2>2. CASE n = Len(asked) + 1
    BY <1>2, <1>5, <2>2, ToldIsTrue
  <2> QED BY <1>1, <2>1, <2>2
<1>14. CreatedRightly'
  BY <1>8, <1>10, CreationKept
<1>15. \A v \in Workers : WorkerFits(worker[v])'
  <2> SUFFICES ASSUME NEW v \in Workers PROVE WorkerFits(worker[v])'
    OBVIOUS
  <2>1. PICK y : y = worker'[v]
    OBVIOUS
  <2>2. WorkerFits(y)
    BY <1>8, <2>1 DEF ServerInv
  <2>3. WorkerFits(y)'
    BY <1>10, <2>2, StillFits DEF ServerInv
  <2> QED BY <2>1, <2>3, SameWorker
<1>16. Holding' = Holding /\ out' = out /\ worker' = worker
  BY <1>8 DEF Holding
<1>17. \A n \in 1..Taken : asked'[n] = asked[n]
  BY <1>1, <1>5
<1>18. OutFits'
  <2> SUFFICES ASSUME NEW r \in out
               PROVE  /\ r.n \in 1..Taken /\ ReplyFits(r, r.n)' /\ ~Ignored(asked'[r.n].q)
                      /\ \A v \in Holding : worker[v].n # r.n
    BY <1>7, <1>16 DEF OutFits
  <2>1. /\ r.n \in 1..Taken /\ ReplyFits(r, r.n) /\ ~Ignored(asked[r.n].q)
        /\ \A v \in Holding : worker[v].n # r.n
    BY DEF ServerInv, OutFits
  <2>2. ReplyFits(r, r.n)'
    BY <1>10, <2>1, StillFits DEF ServerInv
  <2> QED BY <1>17, <2>1, <2>2
<1>19. Apart' /\ OneEach'
  BY <1>16 DEF ServerInv, Apart, OneEach
<1>20. NoneLost'
  BY <1>7, <1>16, <1>17 DEF ServerInv, NoneLost
<1> QED BY <1>11, <1>12, <1>13, <1>14, <1>15, <1>18, <1>19, <1>20 DEF ServerInv

\* The input ends.
LEMMA ReadEofStep ==
  ASSUME ServerInv, ReadEof
  PROVE  ServerInv'
<1>1. UNCHANGED <<launch, channel, asked, worker, memory, snapshot, out>>
  BY DEF ReadEof
<1>2. ~Drained
  BY DEF ReadEof, Drained
<1>3. ASSUME NEW v \in Workers PROVE WorkerFits(worker[v])'
  <2>1. WorkerFits(worker[v]) /\ worker[v].pc # "gone"
    BY <1>2 DEF ServerInv, WorkerFits
  <2> QED BY <1>1, <2>1
          DEF WorkerFits, HalfFits, ReplyFits, InPlace, Named, Servable, Now, Taken
<1>4. ServerTypes' /\ Numbered' /\ ToldBefore' /\ CreatedRightly'
  BY <1>1 DEF ServerInv, ServerTypes, Numbered, ToldBefore, CreatedRightly, MayBe, Servable,
              Named, Now, Taken
<1>5. Apart' /\ OneEach' /\ NoneLost'
  BY <1>1 DEF ServerInv, Apart, OneEach, NoneLost, Holding, Taken
<1>6. OutFits'
  BY <1>1 DEF ServerInv, OutFits, ReplyFits, InPlace, Named, Servable, Now, Taken, Holding
<1> QED BY <1>3, <1>4, <1>5, <1>6 DEF ServerInv

\* A worker takes the next request.
LEMMA RecvStep ==
  ASSUME ServerInv, NEW w \in Workers, Recv(w)
  PROVE  ServerInv'
<1>1. /\ Len(asked) \in Nat /\ Len(channel) \in Nat /\ Taken \in Nat /\ Taken <= Len(asked)
      /\ DOMAIN asked = 1..Len(asked) /\ asked \in Seq(Asking) /\ channel \in Seq(Nat)
      /\ Len(channel) <= Len(asked)
  BY Sizes DEF ServerInv, ServerTypes
<1>2. UNCHANGED <<launch, stdin, asked, memory, snapshot, out>>
  BY DEF Recv
<1>3. channel # <<>> /\ channel' = Tail(channel)
  BY DEF Recv
<1>4. /\ Len(channel) >= 1 /\ channel' \in Seq(Nat) /\ Len(channel') = Len(channel) - 1
      /\ \A i \in 1..Len(channel') : channel'[i] = channel[i + 1]
      /\ Head(channel) = channel[1]
  BY <1>1, <1>3
<1>5. Taken' = Taken + 1 /\ Taken' \in Nat /\ Taken' <= Len(asked)
  BY <1>1, <1>2, <1>4 DEF Taken
<1>6. Head(channel) = Taken + 1
  BY <1>1, <1>4 DEF ServerInv, Numbered
<1>7. PICK x : x = [pc |-> "handle", n |-> Taken + 1]
  OBVIOUS
<1>8. Keep(w, x) /\ worker[w].pc = "recv" /\ x.pc = "handle" /\ x.n = Taken + 1
  BY <1>6, <1>7 DEF Recv, WorkerAt
<1>9. /\ \A d \in Memories : Now(d)' = Now(d) /\ Now(d) \in Nat
      /\ memory' \in [Memories -> MemoryState] /\ snapshot' \in Mapped
      /\ launch'.mode = "reader" => snapshot'.stamp <= memory'[Single].stamp
  BY <1>2, StandingKept DEF MemoriesStand
<1>10. GrowsFrom
  BY <1>1, <1>2, <1>3, <1>5, <1>9 DEF GrowsFrom, Drained
<1>11. WorkerFits(x)'
  <2>1. x.n \in (1..Taken)'
    BY <1>1, <1>5, <1>8
  <2> QED BY <1>8, <2>1 DEF WorkerFits
<1>12. /\ \A v \in Workers : WorkerFits(worker[v])'
       /\ worker' = [v \in Workers |-> worker'[v]]
       /\ \A v \in Workers : worker'[v] = IF v = w THEN x ELSE worker[v]
  BY <1>8, <1>10, <1>11, OneWorker
<1>13. /\ Holding' = Holding \cup {w} /\ w \notin Holding
       /\ \A v \in Holding : worker'[v].n = worker[v].n /\ worker[v].n \in 1..Taken
       /\ worker'[w].n = Taken + 1
  <2>1. \A v \in Holding : WorkerFits(worker[v])
    BY DEF ServerInv, Holding
  <2> QED BY <1>8, <1>12, <2>1 DEF Holding, WorkerFits
<1>14. ServerTypes'
  BY <1>1, <1>2, <1>4, <1>5, <1>9, <1>12 DEF ServerTypes, ServerInv
<1>15. Numbered'
  <2> SUFFICES ASSUME NEW i \in 1..Len(channel) - 1 PROVE channel'[i] = Taken + 1 + i
    BY <1>4, <1>5 DEF Numbered
  <2>1. i + 1 \in 1..Len(channel)
    BY <1>1
  <2>2. channel[i + 1] = Taken + (i + 1)
    BY <2>1 DEF ServerInv, Numbered
  <2> QED BY <1>1, <1>4, <2>2
<1>16. ToldBefore'
  BY <1>2, <1>9 DEF ServerInv, ToldBefore
<1>17. CreatedRightly'
  BY <1>2, <1>10, CreationKept
<1>18. Apart'
  BY <1>1, <1>13 DEF ServerInv, Apart
<1>19. OutFits'
  <2> SUFFICES ASSUME NEW r \in out
               PROVE  /\ r.n \in (1..Taken)' /\ ReplyFits(r, r.n)' /\ ~Ignored(asked[r.n].q)
                      /\ \A v \in Holding \cup {w} : worker'[v].n # r.n
    BY <1>2, <1>13 DEF OutFits
  <2>1. /\ r.n \in 1..Taken /\ ReplyFits(r, r.n) /\ ~Ignored(asked[r.n].q)
        /\ \A v \in Holding : worker[v].n # r.n
    BY DEF ServerInv, OutFits
  <2>2. ReplyFits(r, r.n)'
    BY <1>10, <2>1, StillFits DEF ServerInv
  <2>3. r.n \in (1..Taken)' /\ r.n # Taken + 1
    BY <1>1, <1>5, <2>1
  <2> QED BY <1>13, <2>1, <2>2, <2>3
<1>20. OneEach'
  BY <1>2 DEF ServerInv, OneEach
<1>21. NoneLost'
  <2> SUFFICES ASSUME NEW n \in 1..Taken + 1
               PROVE  \/ Ignored(asked[n].q) \/ \E v \in Holding \cup {w} : worker'[v].n = n
                      \/ \E r \in out : r.n = n
    BY <1>2, <1>5, <1>13 DEF NoneLost
  <2>1. CASE n \in 1..Taken
    BY <1>13, <2>1 DEF ServerInv, NoneLost
  <2>2. CASE n = Taken + 1
    BY <1>13, <2>2
  <2> QED BY <1>1, <2>1, <2>2
<1> QED BY <1>12, <1>14, <1>15, <1>16, <1>17, <1>18, <1>19, <1>20, <1>21 DEF ServerInv

\* A worker leaves its request behind: to rest, or for good.
LEMMA LeavesStep ==
  ASSUME ServerInv, NEW w \in Workers, NEW x, x.pc \in {"recv", "gone"},
         x.pc = "gone" => Drained, Keep(w, x),
         UNCHANGED <<launch, stdin, channel, asked, memory, snapshot>>
  PROVE  /\ ServerTypes' /\ Numbered' /\ ToldBefore' /\ CreatedRightly' /\ Apart' /\ GrowsFrom
         /\ \A v \in Workers : WorkerFits(worker[v])'
         /\ Holding' = Holding \ {w} /\ Taken' = Taken /\ asked' = asked
         /\ \A v \in Holding' : worker'[v].n = worker[v].n
<1>1. Taken' = Taken /\ Taken \in Nat /\ asked' = asked
  BY Sizes DEF Taken, ServerInv
<1>2. /\ \A d \in Memories : Now(d)' = Now(d) /\ Now(d) \in Nat
      /\ memory' \in [Memories -> MemoryState] /\ snapshot' \in Mapped
      /\ launch'.mode = "reader" => snapshot'.stamp <= memory'[Single].stamp
  BY StandingKept DEF MemoriesStand
<1>3. GrowsFrom
  BY <1>1, <1>2 DEF GrowsFrom, Drained
<1>4. WorkerFits(x)'
  BY DEF WorkerFits, Drained
<1>5. /\ \A v \in Workers : WorkerFits(worker[v])'
      /\ worker' = [v \in Workers |-> worker'[v]]
      /\ \A v \in Workers : worker'[v] = IF v = w THEN x ELSE worker[v]
  BY <1>3, <1>4, OneWorker
<1>6. Holding' = Holding \ {w} /\ \A v \in Holding' : worker'[v].n = worker[v].n
  BY <1>5 DEF Holding
<1>7. ServerTypes' /\ Numbered'
  BY <1>1, <1>2, <1>5 DEF ServerInv, ServerTypes, Numbered
<1>8. ToldBefore' /\ CreatedRightly'
  BY <1>2, <1>3, CreationKept DEF ServerInv, ToldBefore
<1>9. Apart'
  BY <1>6 DEF ServerInv, Apart
<1> QED BY <1>1, <1>3, <1>5, <1>6, <1>7, <1>8, <1>9

\* Nothing is lost when what it leaves is ignored, or it had nothing.
LEMMA QuietLeave ==
  ASSUME ServerInv, NEW w \in Workers, NEW x, x.pc \in {"recv", "gone"},
         x.pc = "gone" => Drained, Keep(w, x),
         w \in Holding => Ignored(asked[worker[w].n].q),
         UNCHANGED <<launch, stdin, channel, asked, memory, snapshot, out>>
  PROVE  ServerInv'
<1>1. /\ ServerTypes' /\ Numbered' /\ ToldBefore' /\ CreatedRightly' /\ Apart' /\ GrowsFrom
      /\ \A v \in Workers : WorkerFits(worker[v])'
      /\ Holding' = Holding \ {w} /\ Taken' = Taken /\ asked' = asked
      /\ \A v \in Holding' : worker'[v].n = worker[v].n
  BY LeavesStep
<1>2. OutFits'
  <2> SUFFICES ASSUME NEW r \in out
               PROVE  /\ r.n \in 1..Taken /\ ReplyFits(r, r.n)' /\ ~Ignored(asked[r.n].q)
                      /\ \A v \in Holding' : worker'[v].n # r.n
    BY <1>1 DEF OutFits
  <2>1. /\ r.n \in 1..Taken /\ ReplyFits(r, r.n) /\ ~Ignored(asked[r.n].q)
        /\ \A v \in Holding : worker[v].n # r.n
    BY DEF ServerInv, OutFits
  <2>2. ReplyFits(r, r.n)'
    BY <1>1, <2>1, StillFits DEF ServerInv
  <2> QED BY <1>1, <2>1, <2>2
<1>3. OneEach'
  BY DEF ServerInv, OneEach
<1>4. NoneLost'
  <2> SUFFICES ASSUME NEW n \in 1..Taken
               PROVE  \/ Ignored(asked[n].q) \/ \E v \in Holding' : worker'[v].n = n
                      \/ \E r \in out : r.n = n
    BY <1>1 DEF NoneLost
  <2> QED BY <1>1 DEF ServerInv, NoneLost
<1> QED BY <1>1, <1>2, <1>3, <1>4 DEF ServerInv

\* The reply goes out, the first to its request.
LEMMA WriteReplyStep ==
  ASSUME ServerInv, NEW w \in Workers, WriteReply(w)
  PROVE  ServerInv'
<1>1. PICK x : x = [pc |-> "recv"]
  OBVIOUS
<1>2. /\ x.pc = "recv" /\ Keep(w, x)
      /\ UNCHANGED <<launch, stdin, channel, asked, memory, snapshot>>
  BY <1>1 DEF WriteReply
<1>3. /\ ServerTypes' /\ Numbered' /\ ToldBefore' /\ CreatedRightly' /\ Apart' /\ GrowsFrom
      /\ \A v \in Workers : WorkerFits(worker[v])'
      /\ Holding' = Holding \ {w} /\ Taken' = Taken /\ asked' = asked
      /\ \A v \in Holding' : worker'[v].n = worker[v].n
  BY <1>2, LeavesStep
<1>4. PICK n, t : n = worker[w].n /\ t = worker[w].reply
  OBVIOUS
<1>5. /\ w \in Holding /\ n \in 1..Taken /\ ReplyFits(t, n) /\ ~Ignored(asked[n].q)
      /\ out' = out \cup {t} /\ t.n = n
  <2>1. WorkerFits(worker[w]) /\ worker[w].pc = "reply"
    BY DEF ServerInv, WriteReply, WorkerAt
  <2>2. n \in 1..Taken /\ ReplyFits(t, n) /\ ~Ignored(asked[n].q)
    BY <1>4, <2>1 DEF WorkerFits
  <2>3. w \in Holding /\ t.n = n
    BY <2>1, <2>2 DEF Holding, ReplyFits
  <2> QED BY <1>4, <2>2, <2>3 DEF WriteReply
<1>6. \A v \in Holding' : worker[v].n # n
  BY <1>3, <1>4, <1>5 DEF ServerInv, Apart
<1>7. \A r \in out : r.n # n
  BY <1>4, <1>5 DEF ServerInv, OutFits
<1>8. OutFits'
  <2> SUFFICES ASSUME NEW r \in out'
               PROVE  /\ r.n \in 1..Taken /\ ReplyFits(r, r.n)' /\ ~Ignored(asked[r.n].q)
                      /\ \A v \in Holding' : worker'[v].n # r.n
    BY <1>3 DEF OutFits
  <2>1. r.n \in 1..Taken /\ ReplyFits(r, r.n) /\ ~Ignored(asked[r.n].q)
    BY <1>5 DEF ServerInv, OutFits
  <2>2. ReplyFits(r, r.n)'
    BY <1>3, <2>1, StillFits DEF ServerInv
  <2>3. \A v \in Holding' : worker'[v].n # r.n
    BY <1>3, <1>5, <1>6 DEF ServerInv, OutFits
  <2> QED BY <2>1, <2>2, <2>3
<1>9. OneEach'
  BY <1>5, <1>7 DEF ServerInv, OneEach
<1>10. NoneLost'
  <2> SUFFICES ASSUME NEW m \in 1..Taken
               PROVE  \/ Ignored(asked[m].q) \/ \E v \in Holding' : worker'[v].n = m
                      \/ \E r \in out' : r.n = m
    BY <1>3 DEF NoneLost
  <2> QED BY <1>3, <1>4, <1>5 DEF ServerInv, NoneLost
<1> QED BY <1>3, <1>8, <1>9, <1>10 DEF ServerInv

\* What is no call is answered at once, or ignored.
LEMMA HandleOtherStep ==
  ASSUME ServerInv, NEW w \in Workers, HandleOther(w)
  PROVE  ServerInv'
<1>1. PICK n : n = worker[w].n
  OBVIOUS
<1>2. /\ worker[w].pc = "handle" /\ Request(w) = asked[n].q /\ Request(w).method # "tools/call"
      /\ UNCHANGED <<launch, stdin, channel, asked, memory, snapshot, out>>
  BY <1>1 DEF HandleOther, WorkerAt, Request
<1>3. CASE Ignored(asked[n].q)
  <2>1. PICK x : x = [pc |-> "recv"]
    OBVIOUS
  <2>2. x.pc = "recv" /\ Keep(w, x)
    BY <1>2, <1>3, <2>1 DEF HandleOther
  <2> QED BY <1>1, <1>2, <1>3, <2>2, QuietLeave
<1>4. CASE ~Ignored(asked[n].q)
  <2>1. At(w, n)
    BY <1>1, <1>2, <1>4 DEF At
  <2>2. n \in DOMAIN asked
    BY <2>1, AtRequest
  <2>3. asked[n].q.method # "done"
    BY <2>2, Sizes, ServerAssumption DEF ServerInv
  <2>4. MemoriesMove /\ \A d \in Memories : Now(d)' \in Nat
    BY <1>2, MemoriesStay
  <2>5. PICK how, r : how = asked[n].q.method /\ r = Reply(w, how, NoDb, NoFact, 0)
    OBVIOUS
  <2>6. ReplyFits(r, n)'
    BY <2>1, <2>3, <2>4, <2>5, ReplyOfNothing
  <2>7. Answers(w, r)
    BY <1>2, <1>4, <2>5 DEF HandleOther
  <2> QED BY <2>1, <2>4, <2>6, <2>7, AnswersStep
<1> QED BY <1>3, <1>4

LEMMA WorkerEndsStep ==
  ASSUME ServerInv, NEW w \in Workers, WorkerEnds(w)
  PROVE  ServerInv'
<1>1. PICK x : x = [pc |-> "gone"]
  OBVIOUS
<1>2. x.pc = "gone" /\ Keep(w, x) /\ w \notin Holding /\ Drained
  BY <1>1 DEF WorkerEnds, WorkerAt, Holding
<1> QED BY <1>2, QuietLeave DEF WorkerEnds

\* Another process publishes behind a read-only server.
LEMMA PublishedStep ==
  ASSUME ServerInv, PublishedElsewhere
  PROVE  ServerInv'
<1>1. memory[Single] \in MemoryState /\ Single \in Memories /\ launch.mode = "reader"
  BY ServerAssumption DEF ServerInv, ServerTypes, PublishedElsewhere
<1>2. Remembered(memory[Single].c, 1) \in Content
  BY <1>1, RememberedTyped DEF MemoryState
<1> DEFINE m == [memory EXCEPT ![Single].c = Remembered(@, 1)]
           x == [present |-> memory[Single].present, c |-> Remembered(memory[Single].c, 1),
                 stamp |-> memory[Single].stamp + 1]
<1>3. /\ m = [e \in Memories |-> m[e]] /\ \A e \in Memories : e # Single => m[e] = memory[e]
      /\ m[Single] = [present |-> memory[Single].present,
                      c |-> Remembered(memory[Single].c, 1), stamp |-> memory[Single].stamp]
  BY <1>1 DEF ServerInv, ServerTypes, MemoryState
<1>4. memory' = [m EXCEPT ![Single] = [m[Single] EXCEPT !.stamp = @ + 1]]
  BY DEF PublishedElsewhere
<1> HIDE DEF m
<1>5. [m[Single] EXCEPT !.stamp = @ + 1] = x /\ x \in MemoryState
  BY <1>1, <1>2, <1>3 DEF MemoryState
<1>6. \A e \in Memories : memory'[e] = IF e = Single THEN x ELSE memory[e]
  BY <1>3, <1>4, <1>5
<1>7. memory' \in [Memories -> MemoryState]
  BY <1>3, <1>4, <1>5, <1>6 DEF ServerInv, ServerTypes
<1>8. /\ UNCHANGED <<launch, stdin, channel, asked, worker, snapshot, out>>
  BY DEF PublishedElsewhere
<1>9. CreatedRightly'
  <2>1. \A e \in Memories : memory'[e].present = memory[e].present
    BY <1>6
  <2> QED BY <1>8, <2>1 DEF ServerInv, CreatedRightly, MayBe, Servable, Named
<1>10. snapshot.stamp <= memory'[Single].stamp
  BY <1>1, <1>6 DEF ServerInv, ServerTypes, MemoryState, Mapped
<1>11. \A d \in Memories : Now(d)' = Now(d) /\ Now(d) \in Nat
  BY <1>1, <1>8, Sizes DEF Now, ServerInv
<1>12. MemoriesMove
  BY <1>7, <1>8, <1>9, <1>10, <1>11 DEF MemoriesMove, ServerInv, ServerTypes
<1> QED BY <1>8, <1>12, WorkersStand

-----------------------------------------------------------------------------
(* The server tells the truth.                                             *)

LEMMA ServerKeeps == ServerInv /\ [ServerNext]_serverVars => ServerInv'
<1> SUFFICES ASSUME ServerInv, [ServerNext]_serverVars PROVE ServerInv'
  OBVIOUS
<1>1. CASE UNCHANGED serverVars
  BY <1>1, MemoriesStay, WorkersStand DEF serverVars
<1>2. CASE (\E q \in Asked : ReadLine(q)) \/ ReadEof \/ PublishedElsewhere
  BY <1>2, ReadLineStep, ReadEofStep, PublishedStep
<1>3. ASSUME NEW w \in Workers,
             \/ Recv(w) \/ WorkerEnds(w) \/ WriteReply(w) \/ HandleOther(w)
             \/ CallStateless(w) \/ CallWriter(w) \/ CallReader(w) \/ CallWorkspace(w) \/ Search(w)
      PROVE  ServerInv'
  BY <1>3, RecvStep, WorkerEndsStep, WriteReplyStep, HandleOtherStep, CallStatelessStep,
     CallWriterStep, CallReaderStep, CallWorkspaceStep, SearchStep
<1> QED BY <1>1, <1>2, <1>3 DEF ServerNext

\* A set with at most one member has that many.
LEMMA OneOrNone ==
  ASSUME NEW S, \A x, y \in S : x = y
  PROVE  Cardinality(S) = IF S = {} THEN 0 ELSE 1
<1>1. CASE S = {}
  BY <1>1, FS_EmptySet
<1>2. CASE S # {}
  <2>1. PICK x \in S : S = {x}
    BY <1>2
  <2> QED BY <1>2, <2>1, FS_Singleton
<1> QED BY <1>1, <1>2

\* The types of the server, and what every point of a worker knows of its request
\* (serve, worker, handle; tools::call, call_ro, call_ws).
THEOREM ServerHolds == ServerSpec => []ServerInv
<1> QED BY ServerStarts, ServerKeeps, PTL DEF ServerSpec

\* However many workers there are and however their steps interleave: each request
\* that wants a reply has exactly one when serve returns; an answer is as new as
\* anything told before it was asked; it is about the fact and the memory it names;
\* and a memory exists because it did or because a write might create it.
THEOREM ServerIsTruthful == ServerSpec => []ServerTellsTheTruth
<1>1. ServerInv => AnsweredOnce
  <2> SUFFICES ASSUME ServerInv, \A w \in Workers : WorkerAt(w, "gone"), NEW n \in DOMAIN asked
               PROVE  Cardinality({r \in out : r.n = n}) = IF Ignored(asked[n].q) THEN 0 ELSE 1
    BY DEF AnsweredOnce
  <2>1. Drained
    BY ServerAssumption DEF ServerInv, WorkerFits, WorkerAt
  <2>2. Holding = {}
    BY DEF Holding, WorkerAt
  <2>3. n \in 1..Taken
    <3>1. Len(channel) = 0
      BY <2>1 DEF Drained
    <3> QED BY <3>1, Sizes DEF ServerInv, Taken
  <2> DEFINE S == {r \in out : r.n = n}
  <2>4. \A x, y \in S : x = y
    BY DEF ServerInv, OneEach
  <2>5. S = {} <=> Ignored(asked[n].q)
    BY <2>2, <2>3 DEF ServerInv, NoneLost, OutFits
  <2> HIDE DEF S
  <2>6. Cardinality(S) = IF S = {} THEN 0 ELSE 1
    BY <2>4, OneOrNone
  <2> QED BY <2>5, <2>6 DEF S
<1>2. ServerInv => RepliesKeepUp
  <2> SUFFICES ASSUME ServerInv, NEW r \in out, r.how = "done"
               PROVE  r.stamp >= asked[r.n].told[r.db]
    BY DEF RepliesKeepUp
  <2>1. /\ r.n \in 1..Taken /\ r.stamp \in Nat /\ r.db \in Memories
        /\ asked[r.n].told[r.db] <= r.stamp
    BY DEF ServerInv, OutFits, ReplyFits
  <2>2. asked[r.n].told[r.db] \in Nat
    BY <2>1, Sizes DEF ServerInv
  <2> QED BY <2>1, <2>2
<1>3. ServerInv => NeverAnotherFact
  BY DEF ServerInv, OutFits, ReplyFits, NeverAnotherFact
<1>4. ServerInv => CallsStayInTheirMemory
  <2> SUFFICES ASSUME ServerInv PROVE CallsStayInTheirMemory
    OBVIOUS
  <2>1. \A r \in out : launch.mode = "workspace" /\ r.db # NoDb
                         => r.db = Named(asked[r.n].q) /\ Servable(r.db)
    BY DEF ServerInv, OutFits, ReplyFits, InPlace
  <2>2. \A d \in Memories : memory[d].present =>
          \/ d = Single
          \/ /\ launch.mode = "workspace" /\ launch.create /\ Servable(d)
             /\ \E n \in DOMAIN asked : asked[n].q.tool \in CreatingTools /\ Named(asked[n].q) = d
    BY DEF ServerInv, CreatedRightly, MayBe
  <2> QED BY <2>1, <2>2 DEF CallsStayInTheirMemory
<1> QED
  BY <1>1, <1>2, <1>3, <1>4, ServerHolds, PTL DEF ServerTellsTheTruth

-----------------------------------------------------------------------------
(* The command line: what holds of its processes between two steps.        *)

Commands == Startable \cup {[verb |-> "none", id |-> 0]}
Shown    == {NotShown} \cup {Printed(cmd, c) : cmd \in Commands, c \in Content}
Disk     == {d \in [gen : Nat, published : Content, tip : Content] : Kept(d.published, d.tip)}

\* Where a process has the lock; where it has a handle and has changed nothing; and
\* where it has not asked for an embedding.
Locking == {"execute", "prompt", "import", "exit"}
Unmoved == {"open_readonly", "open", "recover", "execute_ro", "session", "execute", "prompt"}
Unasked == {"open_readonly", "open", "recover", "execute", "prompt"}

ProgramState ==
  [pc : Locking \cup Unmoved \cup {"done"}, cmd : Commands, view : Content, shown : Shown,
   left : Nat, asked : Nat, code : Nat, before : Content, known : Content]

\* The verbs that change nothing of the contents.
Passing == Reads \cup Passes \cup {"scrub", "repl", "repl_ro", "recover", "none"}

\* The exit code tells what the command has done.
CodeTells(r) ==
  /\ r.code = 0 => \/ r.cmd.verb = "import" /\ r.view = Remembered(r.before, r.cmd.id)
                   \/ r.cmd.verb # "import" /\ r.view \in Made(r.cmd, r.before)
  /\ r.code = 1 => r.view = r.before

\* A process fits the disk.
ProgramFits(r, d) ==
  /\ Kept(r.view, d.tip)
  /\ r.asked <= 1 /\ (r.pc \in Unasked => r.asked = 0)
  /\ r.pc \in Locking => r.view = d.tip
  /\ r.pc \in Unmoved => r.view = r.before /\ r.code = 0
  /\ r.pc \in {"open_readonly", "open"} => r.view = Blank
  /\ r.pc = "open_readonly" => r.cmd.verb \in Reads \cup {"scrub", "repl_ro"}
  /\ r.pc = "execute_ro" => r.cmd.verb \in Reads \cup {"scrub"}
  /\ r.pc \in {"session", "prompt", "recover"} => r.cmd.verb \in Passing
  /\ r.pc = "execute" => r.cmd.verb # "import"
  /\ r.pc = "import" =>
       /\ r.cmd.verb = "import" /\ r.code = 0 /\ r.asked = 0 /\ r.cmd.id \in Nat
       /\ r.left <= r.cmd.id /\ r.view = Remembered(r.before, r.cmd.id - r.left)
  /\ r.pc \in {"exit", "done"} => CodeTells(r)

CommandInv ==
  /\ disk \in Disk /\ settled \in Content
  /\ prog \in [Programs -> ProgramState]
  /\ \A p \in Programs : ProgramFits(prog[p], disk)
  /\ \A p \in Programs : holder = p <=> prog[p].pc \in Locking

-----------------------------------------------------------------------------
(* The commands.                                                           *)

LEMMA PassingMakesNothing ==
  ASSUME NEW cmd, NEW c, cmd.verb \in Passing
  PROVE  Made(cmd, c) = {c} /\ cmd.verb # "import"
BY DEF Made, Passing, Reads, Passes

LEMMA MadeTyped ==
  ASSUME NEW cmd, NEW c \in Content
  PROVE  \A e \in Made(cmd, c) : e \in Content /\ Kept(c, e)
<1>1. Remembered(c, 1) \in Content /\ Kept(c, Remembered(c, 1)) /\ Kept(c, c)
  BY RememberedTyped, RememberedKeeps, KeptReflexive
<1>2. \A e \in DoRemember(c) \cup DoGuardedRemember(c) : e \in Content /\ Kept(c, e)
  BY <1>1 DEF DoRemember, DoGuardedRemember
<1>3. \A e \in DoRevise(c, cmd.id) \cup DoForget(c, cmd.id) : e \in Content /\ Kept(c, e)
  BY VerbsTyped, VerbsKeep DEF DoRevise, DoForget
<1>4. \A e \in DoRemoveTag(c) \cup DoLink(c) \cup DoUnlink(c) : e \in Content /\ Kept(c, e)
  BY VerbsTyped, VerbsKeep DEF DoRemoveTag, DoLink, DoUnlink
<1> QED BY <1>1, <1>2, <1>3, <1>4 DEF Made

\* What a write leaves on the disk is what it made.
LEMMA DurableIsDisk ==
  ASSUME disk \in Disk, NEW c \in Content, Kept(disk.tip, c)
  PROVE  /\ NewGeneration(c) \in Disk /\ NewGeneration(c).tip = c
         /\ \A d \in Durable(c) : d \in Disk /\ d.tip = c
<1>1. Kept(c, c) /\ Kept(disk.published, disk.tip)
  BY KeptReflexive DEF Disk
<1>2. Kept(disk.published, c)
  BY <1>1, KeptTransitive
<1>3. NewGeneration(c) \in Disk /\ NewGeneration(c).tip = c
  BY <1>1 DEF NewGeneration, Disk
<1>4. [disk EXCEPT !.tip = c] \in Disk /\ [disk EXCEPT !.tip = c].tip = c
  BY <1>2 DEF Disk
<1> QED BY <1>3, <1>4 DEF Durable

\* What a command may come to: it goes on as it was, sees what is on the disk, and the
\* code tells.
Comes(cmd, r, o) ==
  /\ o.disk \in Disk /\ Kept(disk.tip, o.disk.tip) /\ o.program \in ProgramState
  /\ o.program.view = o.disk.tip /\ o.program.asked <= 1
  /\ o.program.pc = r.pc /\ o.program.cmd = r.cmd /\ o.program.before = r.before
  /\ o.program.code = r.code
  /\ o.code \in {0, 1, 2}
  /\ o.code = 0 => o.program.view \in Made(cmd, r.view)
  /\ o.code = 1 => o.program.view = r.view

LEMMA ExecutedComes ==
  ASSUME disk \in Disk, NEW r \in ProgramState, r.view = disk.tip, r.asked = 0,
         NEW cmd \in Commands
  PROVE  \A o \in Executed(cmd, r) : Comes(cmd, r, o)
<1>1. /\ r.view \in Content /\ Kept(r.view, r.view)
      /\ Printed(cmd, r.view) \in Shown
  BY KeptReflexive DEF ProgramState, Shown
<1>2. \A code : Outcome(r, code, disk).program = r /\ Outcome(r, code, disk).code = code
                /\ Outcome(r, code, disk).disk = disk
  BY DEF Outcome
<1>3. CASE cmd.verb \in Reads
  <2>1. PICK q : q = [r EXCEPT !.asked = IF cmd.verb = "recall" THEN @ + 1 ELSE @]
    OBVIOUS
  <2>2. q \in ProgramState /\ q.asked <= 1 /\ q.view = r.view /\ q.pc = r.pc /\ q.cmd = r.cmd
        /\ q.before = r.before /\ q.code = r.code
    BY <2>1 DEF ProgramState
  <2>3. PICK u : u = [q EXCEPT !.shown = Printed(cmd, r.view)]
    OBVIOUS
  <2>4. u \in ProgramState /\ u.asked <= 1 /\ u.view = r.view /\ u.pc = r.pc /\ u.cmd = r.cmd
        /\ u.before = r.before /\ u.code = r.code
    BY <1>1, <2>2, <2>3 DEF ProgramState
  <2>5. r.view \in Made(cmd, r.view)
    BY <1>3, PassingMakesNothing DEF Passing
  <2>6. ASSUME NEW o \in ReadArm(cmd, r) PROVE Comes(cmd, r, o)
    <3>1. CodeOf(Printed(cmd, r.view)) \in {0, 1}
      BY DEF CodeOf
    <3>2. \/ o = Outcome(u, CodeOf(Printed(cmd, r.view)), disk)
          \/ o = Outcome(q, 2, disk)
      BY <2>1, <2>3, <2>6 DEF ReadArm
    <3>3. o.disk = disk /\ o.program \in {u, q} /\ o.code \in {0, 1, 2}
      BY <3>1, <3>2 DEF Outcome
    <3> QED BY <1>1, <2>2, <2>4, <2>5, <3>3 DEF Comes
  <2>7. cmd.verb \notin Passes
    BY <1>3 DEF Passes, Reads
  <2> QED BY <1>3, <2>6, <2>7 DEF Executed
<1>4. CASE cmd.verb \in Passes
  <2>1. r.view \in Made(cmd, r.view)
    BY <1>4, PassingMakesNothing DEF Passing
  <2>2. NewGeneration(r.view) \in Disk /\ NewGeneration(r.view).tip = r.view
    BY <1>1, DurableIsDisk
  <2>3. ASSUME NEW o \in PassArm(r) PROVE Comes(cmd, r, o)
    <3>1. \/ o = Outcome(r, 2, disk)
          \/ \E code \in {0, 2} : o = Outcome(r, code, NewGeneration(r.view))
      BY <2>3 DEF PassArm
    <3>2. o.disk \in {disk, NewGeneration(r.view)} /\ o.program = r /\ o.code \in {0, 2}
      BY <3>1 DEF Outcome
    <3> QED BY <1>1, <2>1, <2>2, <3>2 DEF Comes
  <2>4. cmd.verb \notin Reads
    BY <1>4 DEF Passes, Reads
  <2> QED BY <1>4, <2>3, <2>4 DEF Executed
<1>5. CASE cmd.verb \notin Reads \cup Passes
  <2>1. ASSUME NEW o \in WriteArm(cmd, r) PROVE Comes(cmd, r, o)
    <3>1. CASE o = Outcome(r, 2, disk)
      BY <1>1, <1>2, <3>1 DEF Comes
    <3>2. CASE o # Outcome(r, 2, disk)
      <4>1. PICK c \in Made(cmd, r.view) :
              \E code \in {0, 2} :
              \E d \in IF c = r.view THEN {disk} ELSE Durable(c) :
                o = Outcome([r EXCEPT !.view = c], code, d)
        <5> DEFINE made == {c \in Made(cmd, r.view) : Len(c.facts) <= MaxStored}
                   leaves(c) == {Outcome([r EXCEPT !.view = c], code, d) :
                                   code \in {0, 2}, d \in IF c = r.view THEN {disk} ELSE Durable(c)}
        <5>1. WriteArm(cmd, r) = {Outcome(r, 2, disk)} \cup UNION {leaves(c) : c \in made}
          BY DEF WriteArm
        <5>2. PICK c \in made : o \in leaves(c)
          <6> HIDE DEF made, leaves
          <6> QED BY <2>1, <3>2, <5>1
        <5>3. c \in Made(cmd, r.view)
          OBVIOUS
        <5>4. \E code \in {0, 2} : \E d \in IF c = r.view THEN {disk} ELSE Durable(c) :
                o = Outcome([r EXCEPT !.view = c], code, d)
          BY <5>2
        <5> QED BY <5>3, <5>4
      <4> PICK code \in {0, 2}, d \in (IF c = r.view THEN {disk} ELSE Durable(c)) :
             o = Outcome([r EXCEPT !.view = c], code, d)
        BY <4>1
      <4>2. c \in Content /\ Kept(r.view, c)
        BY <1>1, MadeTyped
      <4>3. d \in Disk /\ d.tip = c
        BY <4>2, DurableIsDisk
      <4>4. PICK u : u = [r EXCEPT !.view = c]
        OBVIOUS
      <4>5. u \in ProgramState /\ u.asked = 0 /\ u.view = c /\ u.pc = r.pc /\ u.cmd = r.cmd
            /\ u.before = r.before /\ u.code = r.code
        BY <4>2, <4>4 DEF ProgramState
      <4>6. o.program = u /\ o.code = code /\ o.disk = d
        BY <4>4 DEF Outcome
      <4> QED BY <4>1, <4>2, <4>3, <4>5, <4>6 DEF Comes
    <3> QED BY <3>1, <3>2
  <2> QED BY <1>5, <2>1 DEF Executed
<1> QED BY <1>3, <1>4, <1>5

-----------------------------------------------------------------------------
(* The steps of a process.                                                 *)

LEMMA CommandStarts == CommandInit => CommandInv
<1> SUFFICES ASSUME CommandInit PROVE CommandInv
  OBVIOUS
<1>1. disk \in Disk /\ settled \in Content /\ disk.tip = Blank
  BY BlankTyped, KeptReflexive DEF CommandInit, Disk
<1>2. PICK r : r = NotRun
  OBVIOUS
<1>3. /\ r.pc = "done" /\ r.cmd = [verb |-> "none", id |-> 0] /\ r.view = Blank /\ r.before = Blank
      /\ r.asked = 0 /\ r.code = 0 /\ r \in ProgramState
  BY <1>2, BlankTyped DEF NotRun, Fresh, ProgramState, Commands, Shown
<1>4. Made(r.cmd, Blank) = {Blank} /\ r.cmd.verb # "import"
  BY <1>3, PassingMakesNothing DEF Passing
<1>5. ProgramFits(r, disk)
  BY <1>1, <1>3, <1>4, BlankKept DEF ProgramFits, CodeTells, Locking, Unmoved, Unasked
<1>6. \A p \in Programs : prog[p] = r /\ holder # p
  BY <1>2, CommandLineAssumption DEF CommandInit
<1>7. prog \in [Programs -> ProgramState]
  BY <1>3, <1>6 DEF CommandInit
<1> QED BY <1>1, <1>3, <1>5, <1>6, <1>7 DEF CommandInv, Locking

\* One process moves, alone with the lock if it changes the disk.
LEMMA ProgramStep ==
  ASSUME CommandInv, NEW p \in Programs, NEW r \in ProgramState, NEW d \in Disk,
         prog' = [prog EXCEPT ![p] = r], disk' = d, settled' \in Content,
         ProgramFits(r, d), Kept(disk.tip, d.tip), d = disk \/ holder = p,
         r.pc \in Locking => holder \in {p, NoProgram},
         holder' = IF r.pc \in Locking THEN p ELSE IF holder = p THEN NoProgram ELSE holder
  PROVE  CommandInv'
<1>1. /\ prog' \in [Programs -> ProgramState]
      /\ \A q \in Programs : prog'[q] = IF q = p THEN r ELSE prog[q]
  BY DEF CommandInv
<1>2. ASSUME NEW q \in Programs PROVE ProgramFits(prog'[q], d)
  <2>1. CASE q = p
    BY <1>1, <2>1
  <2>2. CASE q # p
    <3>1. ProgramFits(prog[q], disk) /\ (holder = q <=> prog[q].pc \in Locking)
      BY DEF CommandInv
    <3>2. Kept(prog[q].view, d.tip)
      BY <3>1, KeptTransitive DEF ProgramFits
    <3>3. prog[q].pc \in Locking => d = disk
      BY <2>2, <3>1
    <3> QED BY <1>1, <2>2, <3>1, <3>2, <3>3 DEF ProgramFits
  <2> QED BY <2>1, <2>2
<1>3. ASSUME NEW q \in Programs PROVE holder' = q <=> prog'[q].pc \in Locking
  <2>1. NoProgram # q /\ NoProgram # p
    BY CommandLineAssumption
  <2>2. holder = q <=> prog[q].pc \in Locking
    BY DEF CommandInv
  <2> QED BY <1>1, <2>1, <2>2
<1> QED BY <1>1, <1>2, <1>3 DEF CommandInv

\* What is known of a process that is about to step.
LEMMA ProgramKnown ==
  ASSUME CommandInv, NEW p \in Programs
  PROVE  /\ prog[p] \in ProgramState /\ ProgramFits(prog[p], disk) /\ disk \in Disk
         /\ (holder = p <=> prog[p].pc \in Locking)
         /\ settled \in Content /\ disk.tip \in Content /\ disk.published \in Content
         /\ Kept(disk.published, disk.tip) /\ Kept(disk.tip, disk.tip)
BY KeptReflexive DEF CommandInv, Disk

\* It ends; the lock goes with it.
LEMMA EndsStep ==
  ASSUME CommandInv, NEW p \in Programs, NEW r \in ProgramState, NEW code \in Nat, NEW d \in Disk,
         disk' = d, Ends(p, r, code), d = disk \/ holder = p, Kept(disk.tip, d.tip),
         Kept(r.view, d.tip), r.asked <= 1, CodeTells([r EXCEPT !.pc = "done", !.code = code])
  PROVE  CommandInv'
<1>1. PICK q : q = [r EXCEPT !.pc = "done", !.code = code]
  OBVIOUS
<1>2. /\ q \in ProgramState /\ q.pc = "done" /\ q.view = r.view /\ q.asked = r.asked
      /\ CodeTells(q)
  BY <1>1 DEF ProgramState
<1>3. ProgramFits(q, d)
  BY <1>2 DEF ProgramFits, Locking, Unmoved, Unasked
<1>4. q.pc \notin Locking
  BY <1>2 DEF Locking
<1>5. prog' = [prog EXCEPT ![p] = q] /\ holder' = IF holder = p THEN NoProgram ELSE holder
  BY <1>1 DEF Ends
<1>6. settled' \in Content
  BY ProgramKnown DEF Ends, Disk
<1> QED BY <1>2, <1>3, <1>4, <1>5, <1>6, ProgramStep

\* It goes on where it was, or somewhere without the lock.
LEMMA MovesStep ==
  ASSUME CommandInv, NEW p \in Programs, NEW r \in ProgramState, NEW d \in Disk,
         disk' = d, Moves(p, r), d = disk \/ holder = p, Kept(disk.tip, d.tip),
         ProgramFits(r, d), r.pc \in Locking <=> prog[p].pc \in Locking
  PROVE  CommandInv'
<1>1. r.pc \in Locking => holder = p
  BY ProgramKnown
<1>2. holder' = IF r.pc \in Locking THEN p ELSE IF holder = p THEN NoProgram ELSE holder
  BY <1>1, ProgramKnown DEF Moves
<1>3. settled' \in Content /\ prog' = [prog EXCEPT ![p] = r]
  BY ProgramKnown DEF Moves
<1> QED BY <1>1, <1>2, <1>3, ProgramStep

\* The code of a process that changed nothing.
LEMMA UnmovedTells ==
  ASSUME NEW r \in ProgramState, NEW code \in Nat, r.view = r.before,
         code = 0 => r.cmd.verb \in Passing
  PROVE  CodeTells([r EXCEPT !.pc = "done", !.code = code])
<1>1. PICK q : q = [r EXCEPT !.pc = "done", !.code = code]
  OBVIOUS
<1>2. q.view = r.view /\ q.before = r.before /\ q.code = code /\ q.cmd = r.cmd
  BY <1>1 DEF ProgramState
<1>3. q.code = 0 => q.cmd.verb # "import" /\ q.view \in Made(q.cmd, q.before)
  BY <1>2, PassingMakesNothing
<1> QED BY <1>1, <1>2, <1>3 DEF CodeTells

\* A code that tells nothing may follow anything.
LEMMA OtherTells ==
  ASSUME NEW r \in ProgramState, NEW code \in Nat, code \notin {0, 1}
  PROVE  CodeTells([r EXCEPT !.pc = "done", !.code = code])
BY DEF CodeTells, ProgramState

\* An error, a panic or a kill leaves everything where it was.
LEMMA FailsStep ==
  ASSUME CommandInv, NEW p \in Programs, NEW code \in Nat, code \notin {0, 1},
         NEW r, r = prog[p], disk' = disk, Ends(p, r, code)
  PROVE  CommandInv'
<1>1. r \in ProgramState /\ ProgramFits(r, disk)
  BY ProgramKnown
<1>2. Kept(r.view, disk.tip) /\ r.asked <= 1
  BY <1>1 DEF ProgramFits
<1>3. CodeTells([r EXCEPT !.pc = "done", !.code = code])
  BY <1>1, OtherTells
<1> QED BY <1>1, <1>2, <1>3, ProgramKnown, EndsStep

\* It ends having changed nothing, whatever it has shown.
LEMMA LeavesUnmovedStep ==
  ASSUME CommandInv, NEW p \in Programs, NEW r \in ProgramState, NEW code \in Nat,
         disk' = disk, Ends(p, r, code), r.view = r.before, Kept(r.view, disk.tip), r.asked <= 1,
         code = 0 => r.cmd.verb \in Passing
  PROVE  CommandInv'
BY UnmovedTells, ProgramKnown, EndsStep

\* A process is started.
LEMMA RunParsedStep ==
  ASSUME CommandInv, NEW p \in Programs, NEW cmd \in Startable, RunParsed(p, cmd)
  PROVE  CommandInv'
<1>1. PICK r : r = [Fresh(cmd, settled) EXCEPT
                 !.pc = IF cmd.verb \in Reads \cup {"scrub", "repl_ro"} THEN "open_readonly"
                        ELSE IF cmd.verb = "recover" THEN "recover" ELSE "open"]
  OBVIOUS
<1>2. /\ r.pc = IF cmd.verb \in Reads \cup {"scrub", "repl_ro"} THEN "open_readonly"
                ELSE IF cmd.verb = "recover" THEN "recover" ELSE "open"
      /\ r.cmd = cmd /\ r.view = Blank /\ r.before = Blank /\ r.asked = 0 /\ r.code = 0
      /\ r.shown = NotShown /\ r.left = 0 /\ r.known = settled
      /\ DOMAIN r = {"pc", "cmd", "view", "shown", "left", "asked", "code", "before", "known"}
  BY <1>1 DEF Fresh
<1>3. r \in ProgramState
  BY <1>1, <1>2, BlankTyped, ProgramKnown DEF Fresh, ProgramState, Commands, Shown, Unmoved
<1>4. ProgramFits(r, disk)
  BY <1>2, BlankKept DEF ProgramFits, Locking, Unmoved, Unasked, Passing
<1>5. prog[p].pc \notin Locking /\ r.pc \notin Locking
  BY <1>2 DEF RunParsed, ProgramAt, Locking
<1>6. Moves(p, r) /\ disk' = disk
  BY <1>1 DEF RunParsed
<1> QED BY <1>3, <1>4, <1>5, <1>6, ProgramKnown, MovesStep

LEMMA OpenReadonlyStep ==
  ASSUME CommandInv, NEW p \in Programs, OpenReadonly(p)
  PROVE  CommandInv'
<1>1. PICK r, asks : /\ r = prog[p]
                     /\ asks = IF AsksHere(r.cmd, disk.gen > 0) THEN r.asked + 1 ELSE r.asked
  OBVIOUS
<1>2. /\ r \in ProgramState /\ r.pc = "open_readonly" /\ r.asked = 0 /\ r.view = Blank
      /\ r.before = Blank /\ r.code = 0 /\ disk' = disk /\ prog[p].pc \notin Locking
  BY <1>1, ProgramKnown DEF OpenReadonly, ProgramAt, ProgramFits, Unmoved, Unasked, Locking
<1>3. asks \in Nat /\ asks <= 1 /\ (~ (disk.gen > 0) => asks = 0)
  BY <1>1, <1>2 DEF AsksHere
<1>4. CASE /\ disk.gen > 0
           /\ Moves(p, [r EXCEPT !.asked = asks, !.view = disk.published, !.before = disk.published,
                                 !.pc = IF r.cmd.verb = "repl_ro" THEN "session" ELSE "execute_ro"])
  <2>1. PICK q : q = [r EXCEPT !.asked = asks, !.view = disk.published, !.before = disk.published,
                                 !.pc = IF r.cmd.verb = "repl_ro" THEN "session" ELSE "execute_ro"]
    OBVIOUS
  <2>2. /\ q \in ProgramState /\ q.asked = asks /\ q.view = disk.published
        /\ q.before = disk.published /\ q.cmd = r.cmd /\ q.code = 0
        /\ q.pc = IF r.cmd.verb = "repl_ro" THEN "session" ELSE "execute_ro"
    BY <1>2, <1>3, <2>1, ProgramKnown DEF ProgramState, Unmoved
  <2>3. PICK verb : verb = r.cmd.verb
    OBVIOUS
  <2>4. verb \in Reads \cup {"scrub", "repl_ro"}
    BY <1>1, <1>2, <2>3, ProgramKnown DEF ProgramFits
  <2>5. ProgramFits(q, disk) /\ q.pc \notin Locking
    BY <1>3, <2>2, <2>3, <2>4, ProgramKnown DEF ProgramFits, Locking, Unmoved, Unasked, Passing
  <2> QED BY <1>2, <1>4, <2>1, <2>2, <2>5, ProgramKnown, MovesStep
<1>5. CASE /\ ~(disk.gen > 0) /\ Moves(p, [r EXCEPT !.asked = asks, !.pc = "open"])
  <2>1. PICK q : q = [r EXCEPT !.asked = asks, !.pc = "open"]
    OBVIOUS
  <2>2. /\ q \in ProgramState /\ q.asked = 0 /\ q.view = Blank
        /\ q.before = Blank /\ q.cmd = r.cmd /\ q.code = 0 /\ q.pc = "open"
    BY <1>2, <1>3, <1>5, <2>1 DEF ProgramState, Unmoved
  <2>3. ProgramFits(q, disk) /\ q.pc \notin Locking
    BY <2>2, BlankKept DEF ProgramFits, Locking, Unmoved, Unasked
  <2> QED BY <1>2, <1>5, <2>1, <2>2, <2>3, ProgramKnown, MovesStep
<1>6. CASE Ends(p, r, 2)
  BY <1>1, <1>2, <1>6, FailsStep
<1> QED BY <1>1, <1>4, <1>5, <1>6 DEF OpenReadonly
LEMMA ExecuteRoStep ==
  ASSUME CommandInv, NEW p \in Programs, ExecuteRo(p)
  PROVE  CommandInv'
<1>1. PICK r, s : r = prog[p] /\ s = Printed(r.cmd, r.view)
  OBVIOUS
<1>2. /\ r \in ProgramState /\ r.pc = "execute_ro" /\ r.view = r.before /\ r.asked <= 1
      /\ r.cmd.verb \in Reads \cup {"scrub"} /\ Kept(r.view, disk.tip) /\ disk' = disk
  BY <1>1, ProgramKnown DEF ExecuteRo, ProgramAt, ProgramFits, Unmoved
<1>3. CASE Ends(p, [r EXCEPT !.shown = s], CodeOf(s))
  <2>1. PICK q, code : q = [r EXCEPT !.shown = s] /\ code = CodeOf(s)
    OBVIOUS
  <2>2. s \in Shown
    BY <1>1, <1>2 DEF Shown, ProgramState
  <2>3. /\ q \in ProgramState /\ q.view = r.view /\ q.before = r.before /\ q.asked = r.asked
        /\ q.cmd = r.cmd
    BY <1>2, <2>1, <2>2 DEF ProgramState
  <2>4. code \in {0, 1}
    BY <2>1 DEF CodeOf
  <2>5. q.cmd.verb \in Passing
    BY <1>2, <2>3 DEF Passing
  <2> QED BY <1>2, <1>3, <2>1, <2>3, <2>4, <2>5, LeavesUnmovedStep
<1>4. CASE Ends(p, r, 2)
  BY <1>1, <1>2, <1>4, FailsStep
<1> QED BY <1>1, <1>3, <1>4 DEF ExecuteRo

LEMMA DoScrubStep ==
  ASSUME CommandInv, NEW p \in Programs, DoScrub(p)
  PROVE  CommandInv'
<1>1. PICK r : r = prog[p]
  OBVIOUS
<1>2. PICK code \in {0, 2} : Ends(p, r, code)
  BY <1>1 DEF DoScrub
<1>3. /\ r \in ProgramState /\ r.pc = "execute_ro" /\ r.view = r.before /\ r.asked <= 1
      /\ r.cmd.verb = "scrub" /\ Kept(r.view, disk.tip) /\ disk' = disk
  BY <1>1, ProgramKnown DEF DoScrub, ProgramAt, ProgramFits, Unmoved
<1>4. r.cmd.verb \in Passing
  BY <1>3 DEF Passing
<1> QED BY <1>2, <1>3, <1>4, LeavesUnmovedStep

LEMMA OpenWriterStep ==
  ASSUME CommandInv, NEW p \in Programs, OpenWriter(p)
  PROVE  CommandInv'
<1>1. PICK r : r = prog[p]
  OBVIOUS
<1>2. /\ r \in ProgramState /\ r.pc = "open" /\ r.asked = 0 /\ r.view = Blank /\ r.view = r.before
      /\ r.code = 0 /\ disk' = disk /\ r.cmd \in Commands
  BY <1>1, ProgramKnown DEF OpenWriter, ProgramAt, ProgramFits, Unmoved, Unasked, ProgramState
<1>3. CASE Ends(p, r, 1)
  BY <1>2, <1>3, BlankKept, LeavesUnmovedStep
<1>4. CASE /\ holder = NoProgram /\ holder' = p /\ settled' = settled
           /\ prog' = [prog EXCEPT ![p] =
                [r EXCEPT !.view = disk.tip, !.before = disk.tip, !.left = r.cmd.id,
                          !.pc = CASE r.cmd.verb = "import" -> "import"
                                   [] r.cmd.verb = "repl"   -> "prompt"
                                   [] OTHER                 -> "execute"]]
  <2>1. PICK q, where : /\ where = CASE r.cmd.verb = "import" -> "import"
                                     [] r.cmd.verb = "repl"   -> "prompt"
                                     [] OTHER                 -> "execute"
                        /\ q = [r EXCEPT !.view = disk.tip, !.before = disk.tip, !.left = r.cmd.id,
                                         !.pc = where]
    OBVIOUS
  <2>2. \/ where = "import" /\ r.cmd.verb = "import"
        \/ where = "prompt" /\ r.cmd.verb = "repl"
        \/ where = "execute" /\ r.cmd.verb # "import"
    BY <2>1
  <2>3. r.cmd.id \in Nat
    BY <1>2, CommandLineAssumption DEF Commands
  <2>4. /\ q \in ProgramState /\ q.view = disk.tip /\ q.before = disk.tip /\ q.left = r.cmd.id
        /\ q.pc = where /\ q.cmd = r.cmd /\ q.asked = 0 /\ q.code = 0
    BY <1>2, <2>1, <2>2, <2>3, ProgramKnown DEF ProgramState, Locking
  <2>5. q.view = Remembered(q.before, q.cmd.id - q.left)
    BY <2>3, <2>4, RememberedNone, ProgramKnown
  <2>6. ProgramFits(q, disk) /\ q.pc \in Locking
    BY <2>2, <2>3, <2>4, <2>5, ProgramKnown DEF ProgramFits, Locking, Unmoved, Unasked, Passing
  <2> QED BY <1>2, <1>4, <2>1, <2>4, <2>6, ProgramKnown, ProgramStep
<1> QED BY <1>1, <1>3, <1>4 DEF OpenWriter

LEMMA ExecuteStep ==
  ASSUME CommandInv, NEW p \in Programs, Execute(p)
  PROVE  CommandInv'
<1>1. PICK r : r = prog[p]
  OBVIOUS
<1>2. /\ r \in ProgramState /\ r.pc = "execute" /\ r.asked = 0 /\ r.view = r.before
      /\ r.view = disk.tip /\ r.cmd \in Commands /\ r.cmd.verb # "import" /\ holder = p
  BY <1>1, ProgramKnown
     DEF Execute, ProgramAt, ProgramFits, Unmoved, Unasked, Locking, ProgramState
<1>3. PICK o \in Executed(r.cmd, r) :
        Moves(p, [o.program EXCEPT !.pc = "exit", !.code = o.code]) /\ disk' = o.disk
  BY <1>1 DEF Execute
<1>4. Comes(r.cmd, r, o)
  BY <1>2, ExecutedComes, ProgramKnown
<1>5. PICK u, q, d : /\ u = o.program /\ d = o.disk
                     /\ q = [o.program EXCEPT !.pc = "exit", !.code = o.code]
  OBVIOUS
<1>6. /\ u \in ProgramState /\ d \in Disk /\ Kept(disk.tip, d.tip) /\ u.view = d.tip /\ u.asked <= 1
      /\ u.cmd = r.cmd /\ u.before = r.before /\ o.code \in {0, 1, 2}
      /\ o.code = 0 => u.view \in Made(r.cmd, r.before)
      /\ o.code = 1 => u.view = r.before
  BY <1>2, <1>4, <1>5 DEF Comes
<1>7. /\ q \in ProgramState /\ q.pc = "exit" /\ q.view = d.tip /\ q.asked <= 1 /\ q.cmd = r.cmd
      /\ q.before = r.before /\ q.code = o.code
  <2>1. PICK code \in Nat : code = o.code
    BY <1>6
  <2>2. q = [u EXCEPT !.pc = "exit", !.code = code]
    BY <1>5, <2>1
  <2> QED BY <1>6, <2>1, <2>2 DEF ProgramState, Locking
<1>8. CodeTells(q)
  BY <1>2, <1>6, <1>7 DEF CodeTells
<1>9. Kept(d.tip, d.tip)
  BY KeptReflexive
<1>10. ProgramFits(q, d)
  BY <1>7, <1>8, <1>9 DEF ProgramFits, Locking, Unmoved, Unasked
<1>11. prog[p].pc \in Locking /\ q.pc \in Locking
  BY <1>1, <1>2, <1>7 DEF Locking
<1> QED BY <1>2, <1>3, <1>5, <1>6, <1>7, <1>10, <1>11, MovesStep

LEMMA ExitStep ==
  ASSUME CommandInv, NEW p \in Programs, Exit(p)
  PROVE  CommandInv'
<1>1. PICK r : r = prog[p]
  OBVIOUS
<1>2. /\ r \in ProgramState /\ CodeTells(r) /\ Kept(r.view, disk.tip) /\ r.asked <= 1
      /\ disk' = disk /\ Ends(p, r, r.code) /\ r.code \in Nat
  BY <1>1, ProgramKnown DEF Exit, ProgramAt, ProgramFits, ProgramState
<1>3. PICK code \in Nat : code = r.code
  BY <1>2
<1>4. CodeTells([r EXCEPT !.pc = "done", !.code = code])
  BY <1>2, <1>3 DEF CodeTells, ProgramState
<1> QED BY <1>2, <1>3, <1>4, ProgramKnown, EndsStep

\* A batch of n of the lines that are left.
LEMMA BatchStep ==
  ASSUME CommandInv, NEW p \in Programs, ProgramAt(p, "import"), NEW n \in Nat,
         n <= prog[p].left, Batch(p, n)
  PROVE  CommandInv'
<1>1. PICK r : r = prog[p]
  OBVIOUS
<1>2. /\ r \in ProgramState /\ r.pc = "import" /\ r.asked = 0 /\ r.view = disk.tip /\ holder = p
      /\ r.cmd.verb = "import" /\ r.code = 0 /\ r.cmd.id \in Nat /\ r.left <= r.cmd.id
      /\ r.view = Remembered(r.before, r.cmd.id - r.left) /\ r.left \in Nat /\ n <= r.left
      /\ r.before \in Content /\ r.view \in Content
  BY <1>1, ProgramKnown DEF ProgramAt, ProgramFits, Locking, ProgramState
<1>3. PICK c, d, q : /\ c = Remembered(r.view, n) /\ d = disk'
                     /\ q = [r EXCEPT !.view = c, !.left = r.left - n,
                                      !.pc = IF r.left = n THEN "exit" ELSE "import"]
  OBVIOUS
<1>4. c \in Content /\ Kept(disk.tip, c)
  BY <1>2, <1>3, RememberedTyped, RememberedKeeps
<1>5. (n = 0 => c = disk.tip) /\ d \in IF n = 0 THEN {disk} ELSE Durable(c)
  BY <1>1, <1>2, <1>3, RememberedNone DEF Batch
<1>6. d \in Disk /\ d.tip = c
  BY <1>4, <1>5, DurableIsDisk, ProgramKnown
<1>7. /\ q \in ProgramState /\ q.view = c /\ q.left = r.left - n /\ q.asked = 0 /\ q.code = 0
      /\ q.pc = (IF r.left = n THEN "exit" ELSE "import") /\ q.cmd = r.cmd /\ q.before = r.before
  <2>1. PICK m \in Nat, where \in {"exit", "import"} :
          m = r.left - n /\ where = IF r.left = n THEN "exit" ELSE "import"
    BY <1>2
  <2>2. q = [r EXCEPT !.view = c, !.left = m, !.pc = where]
    BY <1>3, <2>1
  <2> QED BY <1>2, <1>4, <2>1, <2>2 DEF ProgramState, Locking
<1>8. c = Remembered(r.before, (r.cmd.id - r.left) + n)
  <2>1. r.cmd.id - r.left \in Nat
    BY <1>2
  <2>2. PICK m \in Nat : m = r.cmd.id - r.left
    BY <2>1
  <2>3. r.view = Remembered(r.before, m)
    BY <1>2, <2>2
  <2>4. Remembered(Remembered(r.before, m), n) = Remembered(r.before, m + n)
    BY <1>2, RememberedAgain
  <2> QED BY <1>3, <2>2, <2>3, <2>4
<1>9. (r.cmd.id - r.left) + n = r.cmd.id - (r.left - n)
  BY <1>2
<1>10. q.view = Remembered(q.before, q.cmd.id - q.left)
  BY <1>7, <1>8, <1>9
<1>11. Kept(c, c)
  BY KeptReflexive
<1>12. CASE r.left = n
  <2>1. q.cmd.id - q.left = q.cmd.id
    BY <1>2, <1>7, <1>12
  <2>2. CodeTells(q)
    BY <1>2, <1>7, <1>10, <2>1 DEF CodeTells
  <2>3. ProgramFits(q, d)
    BY <1>6, <1>7, <1>11, <1>12, <2>2 DEF ProgramFits, Locking, Unmoved, Unasked
  <2> QED BY <1>1, <1>2, <1>3, <1>4, <1>6, <1>7, <1>12, <2>3, MovesStep DEF Batch, Locking
<1>13. CASE r.left # n
  <2>1. q.left <= q.cmd.id /\ q.pc = "import"
    BY <1>2, <1>7, <1>13
  <2>2. ProgramFits(q, d)
    BY <1>2, <1>6, <1>7, <1>10, <1>11, <2>1 DEF ProgramFits, Locking, Unmoved, Unasked
  <2> QED BY <1>1, <1>2, <1>3, <1>4, <1>6, <1>7, <2>1, <2>2, MovesStep DEF Batch, Locking
<1> QED BY <1>12, <1>13

LEMMA ImportStep ==
  ASSUME CommandInv, NEW p \in Programs, ImportBatch(p) \/ ImportRest(p) \/ ImportBroken(p)
  PROVE  CommandInv'
<1>1. prog[p].left \in Nat
  BY ProgramKnown DEF ProgramState
<1>2. CASE ImportBatch(p)
  BY <1>1, <1>2, CommandLineAssumption, BatchStep DEF ImportBatch
<1>3. CASE ImportRest(p)
  BY <1>1, <1>3, BatchStep DEF ImportRest
<1>4. CASE ImportBroken(p)
  BY <1>4, FailsStep DEF ImportBroken
<1> QED BY <1>2, <1>3, <1>4

LEMMA ReplLineStep ==
  ASSUME CommandInv, NEW p \in Programs, NEW cmd \in Startable, ReplLine(p, cmd)
  PROVE  CommandInv'
<1>1. PICK r : r = prog[p]
  OBVIOUS
<1>2. /\ r \in ProgramState /\ r.pc = "prompt" /\ r.asked = 0 /\ r.view = r.before /\ r.code = 0
      /\ r.view = disk.tip /\ r.cmd.verb \in Passing /\ holder = p
  BY <1>1, ProgramKnown DEF ReplLine, ProgramAt, ProgramFits, Unmoved, Unasked, Locking
<1>3. PICK o \in Executed(cmd, r) :
        /\ disk' = o.disk /\ settled' = o.disk.tip
        /\ prog' = [prog EXCEPT ![p] =
             [o.program EXCEPT !.before = o.program.view, !.shown = NotShown, !.asked = 0]]
  BY <1>1 DEF ReplLine
<1>4. Comes(cmd, r, o)
  BY <1>2, ExecutedComes, ProgramKnown DEF Commands
<1>5. PICK u, q, d : /\ u = o.program /\ d = o.disk
                     /\ q = [u EXCEPT !.before = u.view, !.shown = NotShown, !.asked = 0]
  OBVIOUS
<1>6. /\ u \in ProgramState /\ d \in Disk /\ Kept(disk.tip, d.tip) /\ u.view = d.tip
      /\ u.cmd = r.cmd /\ u.pc = "prompt" /\ u.code = 0
  BY <1>2, <1>4, <1>5 DEF Comes
<1>7. /\ q \in ProgramState /\ q.pc = "prompt" /\ q.view = d.tip /\ q.before = d.tip /\ q.asked = 0
      /\ q.cmd = r.cmd /\ q.code = 0
  <2>1. PICK v \in Content, s \in Shown : v = u.view /\ s = NotShown
    BY <1>6 DEF ProgramState, Shown
  <2>2. q = [u EXCEPT !.before = v, !.shown = s, !.asked = 0]
    BY <1>5, <2>1
  <2> QED BY <1>6, <2>1, <2>2 DEF ProgramState
<1>8. Kept(d.tip, d.tip) /\ d.tip \in Content
  BY <1>6, KeptReflexive DEF Disk
<1>9. ProgramFits(q, d) /\ q.pc \in Locking
  BY <1>2, <1>7, <1>8 DEF ProgramFits, Locking, Unmoved, Unasked
<1>10. prog' = [prog EXCEPT ![p] = q] /\ disk' = d /\ settled' \in Content /\ holder' = holder
  BY <1>3, <1>5, <1>8 DEF ReplLine
<1> QED BY <1>2, <1>6, <1>7, <1>9, <1>10, ProgramStep

LEMMA ReplExitStep ==
  ASSUME CommandInv, NEW p \in Programs, ReplExit(p)
  PROVE  CommandInv'
<1>1. PICK r : r = prog[p]
  OBVIOUS
<1>2. /\ r \in ProgramState /\ r.asked = 0 /\ r.view = r.before /\ r.view = disk.tip
      /\ r.cmd.verb \in Passing /\ holder = p
  BY <1>1, ProgramKnown DEF ReplExit, ProgramAt, ProgramFits, Unmoved, Unasked, Locking
<1>3. CASE disk' = NewGeneration(r.view) /\ Ends(p, r, 0)
  <2>1. PICK d : d = NewGeneration(r.view)
    OBVIOUS
  <2>2. d \in Disk /\ d.tip = r.view /\ Kept(disk.tip, d.tip) /\ Kept(r.view, d.tip)
    BY <1>2, <2>1, DurableIsDisk, ProgramKnown
  <2>3. CodeTells([r EXCEPT !.pc = "done", !.code = 0])
    BY <1>2, UnmovedTells
  <2>4. disk' = d /\ Ends(p, r, 0) /\ r.asked <= 1 /\ 0 \in Nat
    BY <1>2, <1>3, <2>1
  <2> QED BY <1>2, <2>2, <2>3, <2>4, EndsStep
<1>4. CASE disk' = disk /\ Ends(p, r, 2)
  BY <1>1, <1>4, FailsStep
<1> QED BY <1>1, <1>3, <1>4 DEF ReplExit

LEMMA SessionStep ==
  ASSUME CommandInv, NEW p \in Programs, ProgramAt(p, "session"),
         \/ \E cmd \in Startable : SessionLine(p, cmd)
         \/ SessionRefresh(p) \/ SessionExit(p)
  PROVE  CommandInv'
<1>1. PICK r : r = prog[p]
  OBVIOUS
<1>2. /\ r \in ProgramState /\ r.pc = "session" /\ r.asked <= 1 /\ r.view = r.before /\ r.code = 0
      /\ r.cmd.verb \in Passing /\ Kept(r.view, disk.tip) /\ ProgramFits(r, disk)
      /\ r.pc \notin Locking
  BY <1>1, ProgramKnown DEF ProgramAt, ProgramFits, Unmoved, Unasked, Locking
<1>3. ASSUME NEW cmd \in Startable, SessionLine(p, cmd) PROVE CommandInv'
  <2>1. CASE cmd.verb \in Reads
    <3>1. PICK s : s = Printed(cmd, r.view)
      OBVIOUS
    <3>2. s \in Shown
      BY <1>2, <3>1 DEF Shown, ProgramState, Commands
    <3>3. PICK q : q = [r EXCEPT !.shown = s]
      OBVIOUS
    <3>4. /\ q \in ProgramState /\ q.pc = "session" /\ q.asked = r.asked /\ q.view = r.view
          /\ q.before = r.before /\ q.code = 0 /\ q.cmd = r.cmd
      BY <1>2, <3>2, <3>3 DEF ProgramState
    <3>5. ProgramFits(q, disk) /\ q.pc \notin Locking
      BY <1>2, <3>4 DEF ProgramFits, Locking, Unmoved, Unasked
    <3>6. Moves(p, q) /\ disk' = disk
      BY <1>1, <1>3, <2>1, <3>1, <3>3 DEF SessionLine
    <3> QED BY <1>1, <1>2, <3>4, <3>5, <3>6, ProgramKnown, MovesStep
  <2>2. CASE cmd.verb \notin Reads
    <3>1. Moves(p, r) /\ disk' = disk
      BY <1>1, <1>3, <2>2 DEF SessionLine
    <3> QED BY <1>1, <1>2, <3>1, ProgramKnown, MovesStep
  <2> QED BY <2>1, <2>2
<1>4. CASE SessionRefresh(p)
  <2>1. PICK q : q = [r EXCEPT !.view = disk.published, !.before = disk.published]
    OBVIOUS
  <2>2. /\ q \in ProgramState /\ q.pc = "session" /\ q.asked = r.asked /\ q.view = disk.published
        /\ q.before = disk.published /\ q.code = 0 /\ q.cmd = r.cmd
    BY <1>2, <2>1, ProgramKnown DEF ProgramState
  <2>3. ProgramFits(q, disk) /\ q.pc \notin Locking
    BY <1>2, <2>2, ProgramKnown DEF ProgramFits, Locking, Unmoved, Unasked
  <2>4. Moves(p, q) /\ disk' = disk
    BY <1>1, <1>4, <2>1 DEF SessionRefresh
  <2> QED BY <1>1, <1>2, <2>2, <2>3, <2>4, ProgramKnown, MovesStep
<1>5. CASE SessionExit(p)
  <2>1. Ends(p, r, 0) /\ disk' = disk
    BY <1>1, <1>5 DEF SessionExit
  <2> QED BY <1>2, <2>1, LeavesUnmovedStep
<1> QED BY <1>3, <1>4, <1>5

LEMMA DoRecoverStep ==
  ASSUME CommandInv, NEW p \in Programs, DoRecover(p)
  PROVE  CommandInv'
<1>1. PICK r : r = prog[p]
  OBVIOUS
<1>2. /\ r \in ProgramState /\ r.asked = 0 /\ r.view = r.before /\ Kept(r.view, disk.tip)
      /\ r.cmd.verb \in Passing /\ disk' = disk
  BY <1>1, ProgramKnown DEF DoRecover, ProgramAt, ProgramFits, Unmoved, Unasked
<1>3. PICK code \in {0, 1, 2} : Ends(p, r, code)
  BY <1>1 DEF DoRecover
<1> QED BY <1>2, <1>3, LeavesUnmovedStep

\* Every step keeps the invariant.
LEMMA CommandKeeps == CommandInv /\ [CommandNext]_commandVars => CommandInv'
<1> SUFFICES ASSUME CommandInv, [CommandNext]_commandVars PROVE CommandInv'
  OBVIOUS
<1>1. CASE UNCHANGED commandVars
  BY <1>1 DEF commandVars, CommandInv
<1>2. ASSUME NEW p \in Programs, NEW cmd \in Startable,
             RunParsed(p, cmd) \/ ReplLine(p, cmd) \/ ReplPanics(p, cmd) \/ SessionLine(p, cmd)
      PROVE  CommandInv'
  <2>1. CASE RunParsed(p, cmd)
    BY <2>1, RunParsedStep
  <2>2. CASE ReplLine(p, cmd)
    BY <2>2, ReplLineStep
  <2>3. CASE ReplPanics(p, cmd)
    BY <2>3, FailsStep DEF ReplPanics
  <2>4. CASE SessionLine(p, cmd)
    <3>1. ProgramAt(p, "session")
      BY <2>4 DEF SessionLine
    <3> QED BY <2>4, <3>1, SessionStep
  <2> QED BY <1>2, <2>1, <2>2, <2>3, <2>4
<1>3. ASSUME NEW p \in Programs,
             OpenReadonly(p) \/ ExecuteRo(p) \/ DoScrub(p) \/ OpenWriter(p) \/ Execute(p) \/ Exit(p)
      PROVE  CommandInv'
  BY <1>3, OpenReadonlyStep, ExecuteRoStep, DoScrubStep, OpenWriterStep, ExecuteStep, ExitStep
<1>4. ASSUME NEW p \in Programs, ImportBatch(p) \/ ImportRest(p) \/ ImportBroken(p)
      PROVE  CommandInv'
  BY <1>4, ImportStep
<1>5. ASSUME NEW p \in Programs,
             ReplExit(p) \/ SessionRefresh(p) \/ SessionExit(p) \/ DoRecover(p) \/ Killed(p)
      PROVE  CommandInv'
  <2>1. CASE ReplExit(p)
    BY <2>1, ReplExitStep
  <2>2. CASE SessionRefresh(p) \/ SessionExit(p)
    <3>1. ProgramAt(p, "session")
      BY <2>2 DEF SessionRefresh, SessionExit
    <3> QED BY <2>2, <3>1, SessionStep
  <2>3. CASE DoRecover(p)
    BY <2>3, DoRecoverStep
  <2>4. CASE Killed(p)
    BY <2>4, FailsStep DEF Killed
  <2> QED BY <1>5, <2>1, <2>2, <2>3, <2>4
<1> QED BY <1>1, <1>2, <1>3, <1>4, <1>5 DEF CommandNext

\* Whatever processes are started, killed or panic, side by side and over any number of
\* commands: one at most has the lock, the one that writes; it sees what the disk
\* holds; what is published is a past of it; an import has written the lines it is
\* past, in their order, and no other.
THEOREM CommandsHold == CommandSpec => []CommandInv
<1>1. CommandInit => CommandInv
  BY CommandStarts
<1>2. CommandInv /\ [CommandNext]_commandVars => CommandInv'
  BY CommandKeeps
<1> QED BY <1>1, <1>2, PTL DEF CommandSpec

\* The exit code tells what the command did, whatever the others do meanwhile; what a
\* process did or showed is kept; a command asks for one embedding at most
\* (run_parsed, execute, do_import, embed_recall_query).
THEOREM CodesAreTrue == CommandSpec => []CommandsTell
<1>1. CommandInv => CommandsTell
  <2> SUFFICES ASSUME CommandInv PROVE CommandsTell
    OBVIOUS
  <2>1. ASSUME NEW p \in Programs, ProgramAt(p, "done")
        PROVE  /\ prog[p].code = 0 =>
                    \/ prog[p].cmd.verb = "import" /\ prog[p].view = Remembered(prog[p].before, prog[p].cmd.id)
                    \/ prog[p].cmd.verb # "import" /\ prog[p].view \in Made(prog[p].cmd, prog[p].before)
               /\ prog[p].code = 1 => prog[p].view = prog[p].before
               /\ Kept(prog[p].view, disk.tip)
    <3>1. ProgramFits(prog[p], disk)
      BY ProgramKnown
    <3>2. CodeTells(prog[p]) /\ Kept(prog[p].view, disk.tip)
      BY <2>1, <3>1 DEF ProgramFits, ProgramAt
    <3> QED BY <3>2 DEF CodeTells
  <2>2. ExitCodesTell
    BY <2>1 DEF ExitCodesTell
  <2>3. EmbeddedOnce
    BY ProgramKnown DEF EmbeddedOnce, ProgramFits
  <2> QED BY <2>2, <2>3 DEF CommandsTell
<1> QED BY <1>1, CommandsHold, PTL

-----------------------------------------------------------------------------
(* A dump and its import.                                                  *)

Lines  == [kind : {"fact", "edge"}, id : Nat, edge : DumpEdges \cup {0}, from : Nat]
States == {"open", "closed", "gone"}

TransferTypes ==
  /\ source.facts \in Seq(States) /\ source.edges \in [DumpEdges -> Nat]
  /\ walk \in [pc : {"facts", "edges", "done"}, cursor : Nat \ {0}, limit : Nat \ {0}]
  /\ file \in Seq(Lines)
  /\ load = [pc |-> load.pc, at |-> load.at, batch |-> load.batch, remap |-> load.remap,
             again |-> load.again]
  /\ load.pc \in {"idle", "reading", "done"} /\ load.at \in Nat \ {0} /\ load.batch \in Seq(Nat)
  /\ target = [facts |-> target.facts, links |-> target.links]
  /\ target.facts \in Seq(Nat)

\* No line of f repeats another's fact or edge; facts come first.
Distinct(f) ==
  /\ \A k, n \in DOMAIN f : f[k].kind = "fact" /\ f[n] = f[k] => k = n
  /\ \A k, n \in DOMAIN f :
       f[k].kind = "edge" /\ f[n].kind = "edge" /\ f[n].edge = f[k].edge => k = n
  /\ \A k, n \in DOMAIN f : f[k].kind = "edge" /\ f[n].kind = "fact" => n < k

\* The facts in f are numbered below c.
FactsBelow(f, c) ==
  \A k \in DOMAIN f : f[k].kind = "fact" => f[k] = FactLine(f[k].id) /\ 1 <= f[k].id /\ f[k].id < c

\* The facts of S below c are in f.
Carries(f, S, c) == \A i \in S : i < c => \E k \in DOMAIN f : f[k] = FactLine(i)

\* What the export has written so far.
WalkFits ==
  /\ Distinct(file) /\ FactsBelow(file, walk.cursor) /\ Carries(file, steady, walk.cursor)
  /\ steady \subseteq {i \in DOMAIN source.facts : source.facts[i] = "open"}
  /\ walk.cursor <= Len(source.facts) + 1
  /\ walk.pc # "facts" => \A i \in steady : i < walk.cursor
  /\ walk.pc # "done" => \A k \in DOMAIN file : file[k].kind = "fact"

\* The map leads each id of the file to its copy.
Leads(remap, facts) == \A id \in DOMAIN remap : remap[id] \in DOMAIN facts /\ facts[remap[id]] = id

\* The import has read the lines before at: the last of them are its batch, and the
\* facts of the ones before the batch are in its map.
Pending(batch, remap, at) ==
  /\ \E s \in Nat : /\ at = s + Len(batch) + 1 /\ at <= Len(file) + 1
                    /\ \A k \in DOMAIN batch : file[s + k] = FactLine(batch[k])
                    /\ \A n \in 1..s : file[n].kind = "fact" => file[n].id \in DOMAIN remap
  /\ \A id \in DOMAIN remap : \E n \in 1..(at - 1) : file[n] = FactLine(id)

\* Every fact of the file has a copy.
Copied(facts) ==
  \A n \in DOMAIN file : file[n].kind = "fact" => \E i \in DOMAIN facts : facts[i] = file[n].id

LoadFits ==
  /\ load.pc = "idle" => /\ load.at = 1 /\ load.batch = <<>> /\ DOMAIN load.remap = {}
                         /\ target.links = {}
  /\ load.pc # "idle" => walk.pc = "done"
  /\ load.at <= Len(file) + 1
  /\ load.pc = "reading" => /\ Pending(load.batch, load.remap, load.at)
                            /\ Leads(load.remap, target.facts)
  /\ load.pc = "done" => Copied(target.facts)

\* A link leads where its line says, among the copies there are.
Follows(facts, link, line) ==
  IF \E n \in DOMAIN file : file[n] = FactLine(line.from)
  THEN link.from \in DOMAIN facts /\ facts[link.from] = line.from
  ELSE link.from = 0

LinksLead(links, facts) ==
  \A link \in links : \E k \in DOMAIN file :
    file[k].kind = "edge" /\ file[k].edge = link.edge /\ Follows(facts, link, file[k])

LinksFit ==
  /\ \A k \in 1..(load.at - 1) :
       file[k].kind = "edge" => \E link \in target.links : link.edge = file[k].edge
  /\ LinksLead(target.links, target.facts)

TransferInv == TransferTypes /\ WalkFits /\ LoadFits /\ LinksFit

-----------------------------------------------------------------------------
(* Lines, listings and batches.                                            *)

\* g is f with the lines of a after it.
Joined(f, a, g) ==
  /\ g \in Seq(Lines)
  /\ \A k \in DOMAIN f : k \in DOMAIN g /\ g[k] = f[k]
  /\ \A k \in DOMAIN a : Len(f) + k \in DOMAIN g /\ g[Len(f) + k] = a[k]
  /\ \A k \in DOMAIN g : k \in DOMAIN f \/ \E j \in DOMAIN a : k = Len(f) + j

LEMMA AddedLines ==
  ASSUME NEW f \in Seq(Lines), NEW a \in Seq(Lines)
  PROVE  Joined(f, a, f \o a)
<1>1. PICK g : g = f \o a
  OBVIOUS
<1>2. /\ g \in Seq(Lines) /\ Len(g) = Len(f) + Len(a) /\ Len(f) \in Nat /\ Len(a) \in Nat
      /\ DOMAIN f = 1..Len(f) /\ DOMAIN a = 1..Len(a) /\ DOMAIN g = 1..Len(g)
  BY <1>1
<1>3. /\ \A k \in 1..Len(f) : g[k] = f[k]
      /\ \A k \in 1..Len(a) : g[Len(f) + k] = a[k]
  BY <1>1
<1>4. ASSUME NEW k \in DOMAIN g, k \notin DOMAIN f
      PROVE  \E j \in DOMAIN a : k = Len(f) + j
  <2>1. k \in Nat /\ 1 <= k /\ k <= Len(f) + Len(a)
    BY <1>2
  <2>2. k > Len(f)
    BY <1>2, <1>4, <2>1
  <2>3. k - Len(f) \in DOMAIN a /\ k = Len(f) + (k - Len(f))
    BY <1>2, <2>1, <2>2
  <2> QED BY <2>3
<1>5. ASSUME NEW k \in DOMAIN a PROVE Len(f) + k \in DOMAIN g
  <2>1. k \in Nat /\ 1 <= k /\ k <= Len(a)
    BY <1>2
  <2> QED BY <1>2, <2>1
<1>6. \A k \in DOMAIN f : k \in DOMAIN g /\ g[k] = f[k]
  BY <1>2, <1>3
<1>7. \A k \in DOMAIN a : Len(f) + k \in DOMAIN g /\ g[Len(f) + k] = a[k]
  BY <1>2, <1>3, <1>5
<1>8. Joined(f, a, g)
  BY <1>2, <1>4, <1>6, <1>7 DEF Joined
<1> QED BY <1>1, <1>8

LEMMA FactLineTyped ==
  ASSUME NEW i \in Nat
  PROVE  /\ FactLine(i) \in Lines /\ FactLine(i).kind = "fact" /\ FactLine(i).id = i
         /\ \A j : FactLine(j) = FactLine(i) => j = i
BY DEF FactLine, Lines

LEMMA EdgeLineTyped ==
  ASSUME NEW e \in DumpEdges, NEW i \in Nat
  PROVE  /\ EdgeLine(e, i) \in Lines /\ EdgeLine(e, i).kind = "edge"
         /\ EdgeLine(e, i).edge = e /\ EdgeLine(e, i).from = i
BY DEF EdgeLine, Lines

LEMMA ListingFits ==
  ASSUME NEW S, IsFiniteSet(S), NEW s \in Listings(S)
  PROVE  /\ s \in Seq(S) /\ Len(s) = Cardinality(S)
         /\ \A i \in S : \E k \in DOMAIN s : s[k] = i
         /\ \A k, n \in DOMAIN s : s[k] = s[n] => k = n
<1>1. PICK m \in Nat : m = Cardinality(S)
  BY FS_CardinalityType
<1>2. s \in [1..m -> S] /\ \A i \in S : \E k \in 1..m : s[k] = i
  BY <1>1 DEF Listings
<1>3. IsFiniteSet(1..m) /\ Cardinality(1..m) = m
  BY <1>1, FS_Interval
<1>4. s \in Surjection(1..m, S)
  BY <1>2 DEF Surjection
<1>5. s \in Injection(1..m, S)
  BY <1>1, <1>3, <1>4, FS_SurjSameCardinalityImpliesInj
<1>6. \A k, n \in 1..m : s[k] = s[n] => k = n
  BY <1>2, <1>5 DEF Injection, IsInjective
<1> QED BY <1>1, <1>2, <1>6

\* A batch that names each fact once.
LEMMA LastOfFits ==
  ASSUME NEW b \in Seq(Nat), \A k, n \in DOMAIN b : b[k] = b[n] => k = n,
         NEW k \in DOMAIN b
  PROVE  LastOf(b, b[k]) = k
<1>1. b[k] = b[k] /\ \A n \in DOMAIN b : b[n] = b[k] => n <= k
  OBVIOUS
<1>2. \A m \in DOMAIN b : b[m] = b[k] => m = k
  OBVIOUS
<1> QED BY <1>1, <1>2 DEF LastOf

\* A batch written: its facts after those there were, the map leading to them.
BatchWritten(b, m, facts, u) ==
  /\ u.facts \in Seq(Nat)
  /\ DOMAIN u.remap = DOMAIN m \cup {b[k] : k \in DOMAIN b}
  /\ Leads(u.remap, u.facts)
  /\ \A i \in DOMAIN facts : i \in DOMAIN u.facts /\ u.facts[i] = facts[i]
  /\ \A k \in DOMAIN b : \E i \in DOMAIN u.facts : u.facts[i] = b[k]

LEMMA FlushFits ==
  ASSUME NEW l, NEW t, t.facts \in Seq(Nat), l.batch \in Seq(Nat),
         \A k, n \in DOMAIN l.batch : l.batch[k] = l.batch[n] => k = n,
         Leads(l.remap, t.facts)
  PROVE  BatchWritten(l.batch, l.remap, t.facts, Flush(l, t))
<1>1. PICK b, f, m : b = l.batch /\ f = t.facts /\ m = l.remap
  OBVIOUS
<1>2. /\ b \in Seq(Nat) /\ f \in Seq(Nat) /\ Leads(m, f)
      /\ \A k, n \in DOMAIN b : b[k] = b[n] => k = n
  BY <1>1
<1>3. PICK g, r : /\ g = f \o b
                  /\ r = [id \in DOMAIN m \cup {b[k] : k \in DOMAIN b} |->
                            IF id \in {b[k] : k \in DOMAIN b} THEN Len(f) + LastOf(b, id) ELSE m[id]]
  OBVIOUS
<1>4. Flush(l, t).facts = g /\ Flush(l, t).remap = r
  BY <1>1, <1>3 DEF Flush
<1>5. /\ g \in Seq(Nat) /\ \A i \in DOMAIN f : i \in DOMAIN g /\ g[i] = f[i]
      /\ \A k \in DOMAIN b : Len(f) + k \in DOMAIN g /\ g[Len(f) + k] = b[k]
  BY <1>2, <1>3
<1>6. DOMAIN r = DOMAIN m \cup {b[k] : k \in DOMAIN b}
  BY <1>3
<1>7. ASSUME NEW id \in DOMAIN r PROVE r[id] \in DOMAIN g /\ g[r[id]] = id
  <2>1. CASE id \in {b[k] : k \in DOMAIN b}
    <3>1. PICK k \in DOMAIN b : id = b[k]
      BY <2>1
    <3>2. LastOf(b, id) = k
      BY <1>2, <3>1, LastOfFits
    <3>3. r[id] = Len(f) + k
      BY <1>3, <1>7, <2>1, <3>2
    <3> QED BY <1>5, <3>1, <3>3
  <2>2. CASE id \notin {b[k] : k \in DOMAIN b}
    <3>1. id \in DOMAIN m /\ r[id] = m[id]
      BY <1>3, <1>6, <1>7, <2>2
    <3>2. m[id] \in DOMAIN f /\ f[m[id]] = id
      BY <1>2, <3>1 DEF Leads
    <3> QED BY <1>5, <3>1, <3>2
  <2> QED BY <2>1, <2>2
<1>8. Leads(r, g)
  BY <1>7 DEF Leads
<1>9. \A k \in DOMAIN b : \E i \in DOMAIN g : g[i] = b[k]
  BY <1>5
<1>10. PICK u : u = Flush(l, t)
  OBVIOUS
<1>11. BatchWritten(b, m, f, u)
  BY <1>4, <1>5, <1>6, <1>8, <1>9, <1>10 DEF BatchWritten
<1> QED BY <1>1, <1>10, <1>11

-----------------------------------------------------------------------------
(* The steps.                                                              *)

LEMMA TransferStarts == TransferInit => TransferInv
<1> SUFFICES ASSUME TransferInit PROVE TransferInv
  OBVIOUS
<1>1. source.facts \in Seq(States) /\ source.edges \in [DumpEdges -> Nat]
  <2>1. PICK s : s = source.facts
    OBVIOUS
  <2>2. s = <<"open", "open">> \/ s = <<"open", "closed", "open">>
    BY <2>1 DEF TransferInit
  <2>3. s \in Seq(States)
    <3>1. "open" \in States /\ "closed" \in States
      BY DEF States
    <3>2. <<"open", "open">> \in Seq(States) /\ <<"open", "closed", "open">> \in Seq(States)
      BY <3>1
    <3> QED BY <2>2, <3>2
  <2>4. source.edges \in [DumpEdges -> 0..2]
    BY DEF TransferInit
  <2> QED BY <2>1, <2>3, <2>4
<1>2. walk \in [pc : {"facts", "edges", "done"}, cursor : Nat \ {0}, limit : Nat \ {0}]
      /\ walk.pc = "facts" /\ walk.cursor = 1
  <2>1. walk \in [pc : {"facts"}, cursor : {1}, limit : PageLimits]
    BY DEF TransferInit
  <2>2. PICK n \in PageLimits : walk.limit = n
    BY <2>1
  <2>3. walk = [pc |-> "facts", cursor |-> 1, limit |-> n] /\ n \in Nat \ {0}
    BY <2>1, <2>2, TransferAssumption
  <2> QED BY <2>3
<1>3. file = <<>> /\ target.facts = [i \in 1..Already |-> 0] /\ target.links = {}
      /\ target = [facts |-> target.facts, links |-> target.links]
  BY DEF TransferInit
<1>4. target.facts \in Seq(Nat)
  BY <1>3, TransferAssumption
<1>5. /\ load = [pc |-> load.pc, at |-> load.at, batch |-> load.batch, remap |-> load.remap,
             again |-> load.again]
      /\ load.pc = "idle" /\ load.at = 1 /\ load.batch = <<>> /\ DOMAIN load.remap = {}
  BY DEF TransferInit, NoIds
<1>6. TransferTypes
  BY <1>1, <1>2, <1>3, <1>4, <1>5 DEF TransferTypes
<1>7. WalkFits
  <2>1. steady = {i \in DOMAIN source.facts : source.facts[i] = "open"}
    BY DEF TransferInit
  <2>2. \A i \in steady : ~(i < 1)
    BY <1>1, <2>1
  <2>3. 1 <= Len(source.facts) + 1
    BY <1>1
  <2> QED BY <1>2, <1>3, <2>1, <2>2, <2>3 DEF WalkFits, Distinct, FactsBelow, Carries
<1>8. LoadFits /\ LinksFit
  BY <1>3, <1>5 DEF LoadFits, LinksFit, LinksLead
<1> QED BY <1>6, <1>7, <1>8 DEF TransferInv

\* Nothing of the import's moves.
LEMMA ImportStands ==
  ASSUME LoadFits, LinksFit, UNCHANGED <<walk, file, load, target>>
  PROVE  LoadFits' /\ LinksFit'
<1>1. LoadFits'
  BY DEF LoadFits, Pending, Copied
<1>3. LinksFit'
  BY DEF LinksFit, LinksLead, Follows
<1> QED BY <1>1, <1>3

LEMMA MeanwhileStep ==
  ASSUME TransferInv, NEW facts \in Seq(States), NEW edges \in [DumpEdges -> Nat],
         Len(source.facts) <= Len(facts), Meanwhile(facts, edges)
  PROVE  TransferInv'
<1>1. /\ source'.facts = facts /\ source'.edges = edges
      /\ steady' = {i \in steady : facts[i] = "open"}
      /\ UNCHANGED <<walk, file, load, target>>
  BY DEF Meanwhile
<1>2. TransferTypes'
  BY <1>1 DEF TransferInv, TransferTypes
<1>3. steady' \subseteq steady /\ \A i \in steady : i \in DOMAIN facts
  BY <1>1 DEF TransferInv, TransferTypes, WalkFits
<1>4. WalkFits'
  <2>1. walk.cursor <= Len(facts) + 1
    BY <1>1 DEF TransferInv, TransferTypes, WalkFits
  <2> QED BY <1>1, <1>3, <2>1 DEF TransferInv, WalkFits, Carries
<1>5. LoadFits' /\ LinksFit'
  BY <1>1, ImportStands DEF TransferInv
<1> QED BY <1>2, <1>4, <1>5 DEF TransferInv

LEMMA SourceStep ==
  ASSUME TransferInv, SourceSays \/ SourceDrops \/ SourceLinks
  PROVE  TransferInv'
<1>1. source.facts \in Seq(States) /\ source.edges \in [DumpEdges -> Nat]
  BY DEF TransferInv, TransferTypes
<1>2. PICK f : f = source.facts
  OBVIOUS
<1>3. CASE SourceSays
  <2>1. Append(f, "open") \in Seq(States) /\ Len(f) <= Len(Append(f, "open"))
    BY <1>1, <1>2 DEF States
  <2> QED BY <1>1, <1>2, <1>3, <2>1, MeanwhileStep DEF SourceSays
<1>4. CASE SourceDrops
  <2>1. PICK i \in DOMAIN f, s \in {"closed", "gone"} : Meanwhile([f EXCEPT ![i] = s], source.edges)
    BY <1>2, <1>4 DEF SourceDrops
  <2>2. s \in States
    BY DEF States
  <2>3. [f EXCEPT ![i] = s] \in Seq(States) /\ Len(f) <= Len([f EXCEPT ![i] = s])
    BY <1>1, <1>2, <2>2
  <2> QED BY <1>1, <1>2, <2>1, <2>3, MeanwhileStep
<1>5. CASE SourceLinks
  <2>1. PICK e \in DOMAIN source.edges, i \in DOMAIN f :
          Meanwhile(f, [source.edges EXCEPT ![e] = i])
    BY <1>2, <1>5 DEF SourceLinks
  <2>2. [source.edges EXCEPT ![e] = i] \in [DumpEdges -> Nat]
    BY <1>1, <1>2
  <2>3. f \in Seq(States) /\ Len(source.facts) <= Len(f)
    BY <1>1, <1>2
  <2> QED BY <2>1, <2>2, <2>3, MeanwhileStep
<1> QED BY <1>3, <1>4, <1>5

\* An import that has read nothing.
LEMMA NothingRead ==
  ASSUME load'.pc \in {"idle", "reading"}, load'.pc = "reading" => walk'.pc = "done",
         load'.at = 1, load'.batch = <<>>, DOMAIN load'.remap = {}, target'.links = {},
         file' \in Seq(Lines)
  PROVE  LoadFits' /\ LinksFit'
<1>1. Len(file') \in Nat /\ Len(load'.batch) = 0 /\ DOMAIN load'.batch = {}
  OBVIOUS
<1>2. 1..(load'.at - 1) = {}
  OBVIOUS
<1>3. Pending(load.batch, load.remap, load.at)'
  <2>1. 0 \in Nat /\ load'.at = 0 + Len(load'.batch) + 1 /\ load'.at <= Len(file') + 1
    BY <1>1
  <2>2. /\ \A k \in DOMAIN load'.batch : file'[0 + k] = FactLine(load'.batch[k])
        /\ \A n \in 1..0 : file'[n].kind = "fact" => file'[n].id \in DOMAIN load'.remap
    BY <1>1
  <2>3. \A id \in DOMAIN load'.remap : \E n \in 1..(load'.at - 1) : file'[n] = FactLine(id)
    OBVIOUS
  <2> QED BY <2>1, <2>2, <2>3 DEF Pending
<1>4. LoadFits'
  BY <1>1, <1>3 DEF LoadFits, Leads
<1>5. LinksFit'
  BY <1>2 DEF LinksFit, LinksLead
<1> QED BY <1>4, <1>5

LEMMA IdleReadsNothing ==
  ASSUME TransferInv, walk.pc # "done"
  PROVE  /\ load.pc = "idle" /\ load.at = 1 /\ load.batch = <<>> /\ DOMAIN load.remap = {}
         /\ target.links = {}
BY DEF TransferInv, TransferTypes, LoadFits

LEMMA ExportPageStep ==
  ASSUME TransferInv, ExportPage
  PROVE  TransferInv'
<1>1. PICK facts, c, limit, end, page, next :
        /\ facts = source.facts /\ c = walk.cursor /\ limit = walk.limit /\ end = Len(facts)
        /\ page = {i \in DOMAIN facts : c <= i /\ i < c + limit /\ facts[i] = "open"}
        /\ next = NextCursor(c, limit, end, Cardinality(page))
  OBVIOUS
<1>2. /\ facts \in Seq(States) /\ end \in Nat /\ c \in Nat \ {0} /\ limit \in Nat \ {0}
      /\ walk.pc = "facts" /\ file \in Seq(Lines)
      /\ walk \in [pc : {"facts", "edges", "done"}, cursor : Nat \ {0}, limit : Nat \ {0}]
      /\ c <= end + 1
  BY <1>1 DEF TransferInv, TransferTypes, WalkFits, ExportPage
<1>3. PICK seen \in Listings(page) :
        /\ \A k, n \in DOMAIN seen : k < n => seen[k] < seen[n]
        /\ file' = file \o [k \in DOMAIN seen |-> FactLine(seen[k])]
  BY <1>1 DEF ExportPage
<1>4. IsFiniteSet(page) /\ page \subseteq Nat
  <2>1. DOMAIN facts = 1..end
    BY <1>1, <1>2
  <2>2. IsFiniteSet(1..end)
    BY <1>2, FS_Interval
  <2>3. page \subseteq 1..end
    BY <1>1, <2>1
  <2>4. page \subseteq Nat
    BY <2>3
  <2> QED BY <2>2, <2>3, <2>4, FS_Subset
<1>5. /\ seen \in Seq(page) /\ \A i \in page : \E k \in DOMAIN seen : seen[k] = i
  BY <1>4, ListingFits
<1>6. PICK add : add = [k \in DOMAIN seen |-> FactLine(seen[k])]
  OBVIOUS
<1>7. /\ add \in Seq(Lines) /\ DOMAIN add = DOMAIN seen
      /\ \A k \in DOMAIN seen : seen[k] \in page /\ seen[k] \in Nat /\ add[k] = FactLine(seen[k])
  <2>1. DOMAIN seen = 1..Len(seen) /\ Len(seen) \in Nat
    BY <1>5
  <2>2. ASSUME NEW k \in DOMAIN seen PROVE seen[k] \in page /\ seen[k] \in Nat /\ FactLine(seen[k]) \in Lines
    <3>1. seen[k] \in page
      BY <1>5
    <3>2. seen[k] \in Nat
      BY <1>4, <3>1
    <3> QED BY <3>1, <3>2, FactLineTyped
  <2> QED BY <1>6, <2>1, <2>2
<1>8. PICK g : g = file \o add /\ file' = g
  BY <1>3, <1>6
<1>9. /\ g \in Seq(Lines)
      /\ \A k \in DOMAIN file : k \in DOMAIN g /\ g[k] = file[k]
      /\ \A k \in DOMAIN add : Len(file) + k \in DOMAIN g /\ g[Len(file) + k] = add[k]
      /\ \A k \in DOMAIN g : k \in DOMAIN file \/ \E j \in DOMAIN add : k = Len(file) + j
  <2>1. file \in Seq(Lines) /\ add \in Seq(Lines)
    BY <1>2, <1>7
  <2>2. Joined(file, add, g)
    BY <1>8, <2>1, AddedLines
  <2> QED BY <2>2 DEF Joined
<1>10. /\ next \in Nat \ {0} /\ c <= next
       /\ \A i \in page : c <= i /\ i < next
       /\ \A i \in DOMAIN facts : i < next => i < c + limit
       /\ next > end => \A i \in DOMAIN facts : i < next
       /\ \A i \in DOMAIN facts : i \in 1..end
  <2>1. CASE c + limit <= end
    BY <1>1, <1>2, <2>1 DEF NextCursor
  <2>2. CASE ~ (c + limit <= end)
    <3>1. next = end + 1
      BY <1>1, <2>2 DEF NextCursor
    <3>2. DOMAIN facts = 1..end
      BY <1>1, <1>2
    <3>3. \A i \in DOMAIN facts : i \in Nat /\ i < next
      BY <1>2, <3>1, <3>2
    <3>4. \A i \in DOMAIN facts : i < c + limit
      BY <1>2, <2>2, <3>2
    <3>5. page \subseteq DOMAIN facts /\ \A i \in page : c <= i
      BY <1>1
    <3>6. next \in Nat \ {0} /\ c <= next
      BY <1>2, <3>1
    <3> QED BY <3>2, <3>3, <3>4, <3>5, <3>6
  <2> QED BY <2>1, <2>2
<1>11. ASSUME NEW k \in DOMAIN file
       PROVE  k \in 1..Len(file) /\ g[k] = FactLine(g[k].id) /\ g[k].id \in Nat /\ 1 <= g[k].id /\ g[k].id < c
              /\ g[k].kind = "fact" /\ file[k] = g[k]
  <2>1. file[k].kind = "fact" /\ file[k] \in Lines /\ k \in 1..Len(file)
    BY <1>2 DEF TransferInv, WalkFits
  <2>2. file[k] = FactLine(file[k].id) /\ 1 <= file[k].id /\ file[k].id < c
    BY <1>1, <2>1 DEF TransferInv, WalkFits, FactsBelow
  <2>3. file[k].id \in Nat
    BY <2>1 DEF Lines
  <2> QED BY <1>9, <2>1, <2>2, <2>3
<1>12. ASSUME NEW k \in DOMAIN seen
       PROVE  /\ Len(file) + k \in DOMAIN g /\ g[Len(file) + k] = FactLine(seen[k]) /\ seen[k] \in page
              /\ seen[k] \in Nat /\ g[Len(file) + k].id = seen[k] /\ g[Len(file) + k].kind = "fact"
  BY <1>7, <1>9, FactLineTyped
<1>13. ASSUME NEW k \in DOMAIN g
       PROVE  \/ k \in DOMAIN file
              \/ \E j \in DOMAIN seen : k = Len(file) + j
  BY <1>7, <1>9
<1>14. Distinct(g)
  <2>1. ASSUME NEW k \in DOMAIN g PROVE g[k].kind = "fact"
    BY <1>11, <1>12, <1>13
  <2>2. ASSUME NEW k \in DOMAIN g, NEW n \in DOMAIN g, g[n] = g[k] PROVE k = n
    <3>1. CASE k \in DOMAIN file /\ n \in DOMAIN file
      BY <1>11, <2>2, <3>1 DEF TransferInv, WalkFits, Distinct
    <3>2. CASE k \in DOMAIN file /\ n \notin DOMAIN file
      <4>1. PICK j \in DOMAIN seen : n = Len(file) + j
        BY <1>13, <3>2
      <4>2. g[n].id \in page /\ g[k].id < c /\ g[k].id \in Nat
        BY <1>11, <1>12, <3>2, <4>1
      <4>3. c <= g[n].id
        BY <1>10, <4>2
      <4> QED BY <1>2, <2>2, <4>2, <4>3
    <3>3. CASE k \notin DOMAIN file /\ n \in DOMAIN file
      <4>1. PICK j \in DOMAIN seen : k = Len(file) + j
        BY <1>13, <3>3
      <4>2. g[k].id \in page /\ g[n].id < c /\ g[n].id \in Nat
        BY <1>11, <1>12, <3>3, <4>1
      <4>3. c <= g[k].id
        BY <1>10, <4>2
      <4> QED BY <1>2, <2>2, <4>2, <4>3
    <3>4. CASE k \notin DOMAIN file /\ n \notin DOMAIN file
      <4>1. PICK i \in DOMAIN seen, j \in DOMAIN seen : k = Len(file) + i /\ n = Len(file) + j
        BY <1>13, <3>4
      <4>2. seen[i] = seen[j] /\ seen[i] \in Nat
        BY <1>12, <2>2, <4>1
      <4>3. i \in Nat /\ j \in Nat
        BY <1>5
      <4>4. ~(i < j) /\ ~(j < i)
        BY <1>3, <1>12, <4>2
      <4> QED BY <4>1, <4>3, <4>4
    <3> QED BY <3>1, <3>2, <3>3, <3>4
  <2> QED BY <2>1, <2>2 DEF Distinct
<1>15. FactsBelow(g, next)
  <2>1. ASSUME NEW k \in DOMAIN g PROVE g[k] = FactLine(g[k].id) /\ 1 <= g[k].id /\ g[k].id < next
    <3>1. CASE k \in DOMAIN file
      BY <1>2, <1>10, <1>11, <3>1
    <3>2. CASE \E j \in DOMAIN seen : k = Len(file) + j
      <4>1. PICK j \in DOMAIN seen : k = Len(file) + j
        BY <3>2
      <4>2. g[k] = FactLine(seen[j]) /\ g[k].id = seen[j] /\ seen[j] \in page /\ seen[j] \in Nat
        BY <1>12, <4>1
      <4> QED BY <1>2, <1>10, <4>2
    <3> QED BY <1>13, <3>1, <3>2
  <2> QED BY <2>1 DEF FactsBelow
<1>16. /\ steady \subseteq {i \in DOMAIN facts : facts[i] = "open"}
       /\ Carries(file, steady, c)
  BY <1>1 DEF TransferInv, WalkFits
<1>17. Carries(g, steady, next)
  <2>1. ASSUME NEW i \in steady, i < next PROVE \E k \in DOMAIN g : g[k] = FactLine(i)
    <3>1. i \in DOMAIN facts /\ i \in Nat /\ facts[i] = "open" /\ i < c + limit
      BY <1>2, <1>10, <1>16, <2>1
    <3>2. CASE i < c
      BY <1>9, <1>16, <3>2 DEF Carries
    <3>3. CASE ~(i < c)
      <4>1. i \in page
        BY <1>1, <1>2, <3>1, <3>3
      <4>2. PICK k \in DOMAIN seen : seen[k] = i
        BY <1>5, <4>1
      <4> QED BY <1>12, <4>2
    <3> QED BY <3>2, <3>3
  <2> QED BY <2>1 DEF Carries
<1>18. /\ walk' = [walk EXCEPT !.cursor = next, !.pc = IF next > end THEN "edges" ELSE "facts"]
       /\ UNCHANGED <<source, steady, load, target>>
  BY <1>1 DEF ExportPage
<1>19. /\ walk' \in [pc : {"facts", "edges", "done"}, cursor : Nat \ {0}, limit : Nat \ {0}]
       /\ walk'.cursor = next /\ walk'.pc = IF next > end THEN "edges" ELSE "facts"
  BY <1>2, <1>10, <1>18
<1>20. TransferTypes'
  BY <1>8, <1>9, <1>18, <1>19 DEF TransferInv, TransferTypes
<1>21. WalkFits'
  <2>1. walk'.pc # "facts" => \A i \in steady : i < next
    BY <1>10, <1>16, <1>19
  <2>2. \A k \in DOMAIN g : g[k].kind = "fact"
    BY <1>11, <1>12, <1>13
  <2>3. next <= Len(facts) + 1
    BY <1>1, <1>2 DEF NextCursor
  <2> QED BY <1>1, <1>8, <1>14, <1>15, <1>16, <1>17, <1>18, <1>19, <2>1, <2>2, <2>3 DEF WalkFits
<1>22. LoadFits' /\ LinksFit'
  BY <1>2, <1>8, <1>9, <1>18, IdleReadsNothing, NothingRead
<1> QED BY <1>20, <1>21, <1>22 DEF TransferInv

LEMMA ExportEdgesStep ==
  ASSUME TransferInv, ExportEdges
  PROVE  TransferInv'
<1>1. PICK seen \in Listings(DumpEdges) :
        file' = file \o [k \in DOMAIN seen |-> EdgeLine(seen[k], source.edges[seen[k]])]
  BY DEF ExportEdges
<1>2. PICK add, edges : /\ edges = source.edges
                        /\ add = [k \in DOMAIN seen |-> EdgeLine(seen[k], edges[seen[k]])]
  OBVIOUS
<1>3. /\ seen \in Seq(DumpEdges) /\ Len(seen) = Cardinality(DumpEdges) /\ edges \in [DumpEdges -> Nat]
      /\ file \in Seq(Lines) /\ walk.pc = "edges"
      /\ \A i \in DumpEdges : \E k \in DOMAIN seen : seen[k] = i
      /\ \A k, n \in DOMAIN seen : seen[k] = seen[n] => k = n
      /\ walk \in [pc : {"facts", "edges", "done"}, cursor : Nat \ {0}, limit : Nat \ {0}]
  BY <1>2, ListingFits, TransferAssumption DEF TransferInv, TransferTypes, ExportEdges
<1>4. ASSUME NEW k \in DOMAIN seen
      PROVE  seen[k] \in DumpEdges /\ edges[seen[k]] \in Nat
  <2>1. seen[k] \in DumpEdges
    BY <1>3
  <2> QED BY <1>3, <2>1
<1>5. /\ add \in Seq(Lines) /\ DOMAIN add = DOMAIN seen
      /\ \A k \in DOMAIN seen : add[k].kind = "edge" /\ add[k].edge = seen[k]
  <2>1. DOMAIN seen = 1..Len(seen) /\ Len(seen) \in Nat
    BY <1>3
  <2>2. ASSUME NEW k \in DOMAIN seen
        PROVE  /\ add[k] \in Lines /\ add[k].kind = "edge" /\ add[k].edge = seen[k]
    BY <1>2, <1>4, EdgeLineTyped
  <2> QED BY <1>2, <2>1, <2>2
<1>6. PICK g : g = file \o add /\ file' = g
  BY <1>1, <1>2
<1>7. /\ g \in Seq(Lines)
      /\ \A k \in DOMAIN file : k \in DOMAIN g /\ g[k] = file[k]
      /\ \A k \in DOMAIN add : Len(file) + k \in DOMAIN g /\ g[Len(file) + k] = add[k]
      /\ \A k \in DOMAIN g : k \in DOMAIN file \/ \E j \in DOMAIN add : k = Len(file) + j
  <2>1. file \in Seq(Lines) /\ add \in Seq(Lines)
    BY <1>3, <1>5
  <2>2. Joined(file, add, g)
    BY <1>6, <2>1, AddedLines
  <2> QED BY <2>2 DEF Joined
<1>8. ASSUME NEW k \in DOMAIN file
      PROVE  k \in 1..Len(file) /\ g[k] = file[k] /\ g[k].kind = "fact"
  BY <1>3, <1>7 DEF TransferInv, WalkFits
<1>9. ASSUME NEW k \in DOMAIN g, k \notin DOMAIN file
      PROVE  \E j \in DOMAIN seen : /\ k = Len(file) + j /\ k > Len(file)
                                   /\ g[k].kind = "edge" /\ g[k].edge = seen[j]
  <2>1. PICK j \in DOMAIN add : k = Len(file) + j
    BY <1>7, <1>9
  <2>2. g[k] = add[j] /\ j \in DOMAIN seen
    BY <1>5, <1>7, <2>1
  <2>3. j \in 1..Len(add) /\ Len(file) \in Nat
    BY <1>3, <1>5
  <2>4. k > Len(file)
    BY <2>1, <2>3
  <2> QED BY <1>5, <2>1, <2>2, <2>4
<1>10. Distinct(g)
  <2>1. ASSUME NEW k \in DOMAIN g, NEW n \in DOMAIN g, g[k].kind = "fact", g[n] = g[k] PROVE k = n
    <3>1. k \in DOMAIN file /\ n \in DOMAIN file
      BY <1>9, <2>1
    <3> QED BY <1>8, <2>1, <3>1 DEF TransferInv, WalkFits, Distinct
  <2>2. ASSUME NEW k \in DOMAIN g, NEW n \in DOMAIN g, g[k].kind = "edge", g[n].kind = "edge",
               g[n].edge = g[k].edge
        PROVE  k = n
    <3>1. k \notin DOMAIN file /\ n \notin DOMAIN file
      BY <1>8, <2>2
    <3>2. PICK i \in DOMAIN seen : k = Len(file) + i /\ g[k].edge = seen[i]
      BY <1>9, <3>1
    <3>3. PICK j \in DOMAIN seen : n = Len(file) + j /\ g[n].edge = seen[j]
      BY <1>9, <3>1
    <3>4. i = j
      BY <1>3, <2>2, <3>2, <3>3
    <3> QED BY <3>2, <3>3, <3>4
  <2>3. ASSUME NEW k \in DOMAIN g, NEW n \in DOMAIN g, g[k].kind = "edge", g[n].kind = "fact"
        PROVE  n < k
    <3>1. k \notin DOMAIN file /\ n \in DOMAIN file
      BY <1>8, <1>9, <2>3
    <3>2. PICK j \in DOMAIN seen : k = Len(file) + j /\ k > Len(file)
      BY <1>9, <3>1
    <3>3. n \in 1..Len(file) /\ j \in Nat /\ Len(file) \in Nat
      BY <1>3, <1>8, <3>1
    <3> QED BY <3>2, <3>3
  <2> QED BY <2>1, <2>2, <2>3 DEF Distinct
<1>11. FactsBelow(g, walk.cursor)
  <2>1. ASSUME NEW k \in DOMAIN g, g[k].kind = "fact" PROVE k \in DOMAIN file /\ g[k] = file[k]
    BY <1>8, <1>9, <2>1
  <2> QED BY <2>1 DEF FactsBelow, TransferInv, WalkFits
<1>12. Carries(g, steady, walk.cursor)
  BY <1>7 DEF Carries, TransferInv, WalkFits
<1>13. /\ walk' = [walk EXCEPT !.pc = "done"] /\ load' = [load EXCEPT !.pc = "reading"]
       /\ UNCHANGED <<source, steady, target>>
  BY DEF ExportEdges
<1>14. /\ walk' \in [pc : {"facts", "edges", "done"}, cursor : Nat \ {0}, limit : Nat \ {0}]
       /\ walk'.cursor = walk.cursor /\ walk'.pc = "done"
  BY <1>3, <1>13
<1>15. /\ load' = [pc |-> "reading", at |-> load.at, batch |-> load.batch, remap |-> load.remap,
                   again |-> load.again]
       /\ load'.pc = "reading" /\ load'.at = load.at /\ load'.batch = load.batch
       /\ load'.remap = load.remap /\ load'.again = load.again
  BY <1>13 DEF TransferInv, TransferTypes
<1>16. TransferTypes'
  BY <1>6, <1>7, <1>13, <1>14, <1>15 DEF TransferInv, TransferTypes
<1>17. WalkFits'
  BY <1>3, <1>6, <1>10, <1>11, <1>12, <1>13, <1>14 DEF TransferInv, WalkFits
<1>18. LoadFits' /\ LinksFit'
  BY <1>3, <1>6, <1>7, <1>13, <1>14, <1>15, IdleReadsNothing, NothingRead
<1> QED BY <1>16, <1>17, <1>18 DEF TransferInv

-----------------------------------------------------------------------------
(* The import's steps.                                                     *)

LEMMA PendingOnce ==
  ASSUME file \in Seq(Lines), Distinct(file),
         NEW b \in Seq(Nat), NEW m, NEW at \in Nat, Pending(b, m, at)
  PROVE  \A k, n \in DOMAIN b : b[k] = b[n] => k = n
<1>1. PICK s \in Nat : /\ at = s + Len(b) + 1 /\ at <= Len(file) + 1
                       /\ \A k \in DOMAIN b : file[s + k] = FactLine(b[k])
  BY DEF Pending
<1>2. ASSUME NEW k \in DOMAIN b
      PROVE  k \in Nat /\ b[k] \in Nat /\ s + k \in DOMAIN file /\ file[s + k].kind = "fact"
  <2>1. k \in 1..Len(b) /\ Len(b) \in Nat /\ b[k] \in Nat /\ Len(file) \in Nat /\ DOMAIN file = 1..Len(file)
    OBVIOUS
  <2>2. s + k \in DOMAIN file
    BY <1>1, <2>1
  <2> QED BY <1>1, <2>1, <2>2, FactLineTyped
<1>3. ASSUME NEW k \in DOMAIN b, NEW n \in DOMAIN b, b[k] = b[n] PROVE k = n
  <2>1. file[s + k] = file[s + n]
    BY <1>1, <1>3
  <2>2. s + k = s + n
    BY <1>2, <2>1 DEF Distinct
  <2> QED BY <1>2, <2>2
<1> QED BY <1>3

\* A fact joins the batch.
LEMMA PendingGrows ==
  ASSUME file \in Seq(Lines), NEW c, FactsBelow(file, c),
         NEW b \in Seq(Nat), NEW m, NEW at \in Nat \ {0}, Pending(b, m, at),
         at <= Len(file), file[at].kind = "fact"
  PROVE  file[at].id \in Nat /\ Pending(Append(b, file[at].id), m, at + 1)
<1>1. at \in DOMAIN file /\ Len(file) \in Nat /\ file[at] \in Lines
  OBVIOUS
<1>2. PICK i \in Nat : i = file[at].id /\ file[at] = FactLine(i)
  BY <1>1 DEF FactsBelow, Lines
<1>3. PICK s \in Nat : /\ at = s + Len(b) + 1
                       /\ \A k \in DOMAIN b : file[s + k] = FactLine(b[k])
                       /\ \A n \in 1..s : file[n].kind = "fact" => file[n].id \in DOMAIN m
  BY DEF Pending
<1>4. PICK a : a = Append(b, i)
  OBVIOUS
<1>5. /\ Len(a) = Len(b) + 1 /\ Len(b) \in Nat /\ DOMAIN a = 1..(Len(b) + 1)
      /\ \A k \in DOMAIN b : a[k] = b[k]
      /\ a[Len(b) + 1] = i /\ DOMAIN b = 1..Len(b)
  BY <1>4
<1>6. ASSUME NEW k \in DOMAIN a PROVE file[s + k] = FactLine(a[k])
  <2>1. CASE k \in DOMAIN b
    BY <1>3, <1>5, <2>1
  <2>2. CASE k \notin DOMAIN b
    <3>1. k = Len(b) + 1
      BY <1>5, <1>6, <2>2
    <3>2. s + k = at
      BY <1>3, <1>5, <3>1
    <3> QED BY <1>2, <1>5, <3>1, <3>2
  <2> QED BY <2>1, <2>2
<1>7. at + 1 = s + Len(a) + 1 /\ at + 1 <= Len(file) + 1
  BY <1>1, <1>3, <1>5
<1>8. \A id \in DOMAIN m : \E n \in 1..((at + 1) - 1) : file[n] = FactLine(id)
  <2>1. \A id \in DOMAIN m : \E n \in 1..(at - 1) : file[n] = FactLine(id)
    BY DEF Pending
  <2>2. 1..(at - 1) \subseteq 1..((at + 1) - 1)
    OBVIOUS
  <2> QED BY <2>1, <2>2
<1>9. Pending(a, m, at + 1)
  BY <1>3, <1>6, <1>7, <1>8 DEF Pending
<1> QED BY <1>2, <1>4, <1>9

\* The batch is written.
LEMMA PendingFlushed ==
  ASSUME NEW b \in Seq(Nat), NEW m, NEW r, NEW at \in Nat \ {0}, Pending(b, m, at),
         DOMAIN r = DOMAIN m \cup {b[k] : k \in DOMAIN b}
  PROVE  Pending(<<>>, r, at)
<1>1. PICK s \in Nat : /\ at = s + Len(b) + 1 /\ at <= Len(file) + 1
                       /\ \A k \in DOMAIN b : file[s + k] = FactLine(b[k])
                       /\ \A n \in 1..s : file[n].kind = "fact" => file[n].id \in DOMAIN m
  BY DEF Pending
<1>2. Len(b) \in Nat /\ DOMAIN b = 1..Len(b) /\ Len(<<>>) = 0 /\ DOMAIN <<>> = {}
  OBVIOUS
<1>3. PICK q \in Nat : q = at - 1
  OBVIOUS
<1>4. at = q + 0 + 1 /\ q = s + Len(b)
  BY <1>1, <1>2, <1>3
<1>5. ASSUME NEW n \in 1..q, file[n].kind = "fact" PROVE file[n].id \in DOMAIN r
  <2>1. CASE n \in 1..s
    BY <1>1, <1>5, <2>1
  <2>2. CASE n \notin 1..s
    <3>1. PICK k \in Nat : k = n - s
      BY <1>4, <2>2
    <3>2. k \in DOMAIN b /\ n = s + k
      BY <1>2, <1>4, <2>2, <3>1
    <3>3. file[n].id = b[k]
      BY <1>1, <3>2, FactLineTyped
    <3> QED BY <3>2, <3>3
  <2> QED BY <2>1, <2>2
<1>6. ASSUME NEW id \in DOMAIN r PROVE \E n \in 1..(at - 1) : file[n] = FactLine(id)
  <2>1. CASE id \in DOMAIN m
    BY <2>1 DEF Pending
  <2>2. CASE id \notin DOMAIN m
    <3>1. PICK k \in DOMAIN b : id = b[k]
      BY <1>6, <2>2
    <3>2. s + k \in 1..(at - 1)
      BY <1>1, <1>2, <3>1
    <3> QED BY <1>1, <3>1, <3>2
  <2> QED BY <2>1, <2>2
<1> QED BY <1>1, <1>2, <1>3, <1>4, <1>5, <1>6 DEF Pending

\* The copies there are stay where they are.
LEMMA LeadingStays ==
  ASSUME NEW links, NEW facts, NEW more, LinksLead(links, facts),
         \A i \in DOMAIN facts : i \in DOMAIN more /\ more[i] = facts[i]
  PROVE  LinksLead(links, more)
BY DEF LinksLead, Follows
\* What a batch and the map become when it is written.
Landed(b, at, facts, u) ==
  /\ u.facts \in Seq(Nat)
  /\ Pending(<<>>, u.remap, at) /\ Leads(u.remap, u.facts)
  /\ \A i \in DOMAIN facts : i \in DOMAIN u.facts /\ u.facts[i] = facts[i]
  /\ \A k \in DOMAIN b : \E i \in DOMAIN u.facts : u.facts[i] = b[k]

LEMMA FlushLands ==
  ASSUME file \in Seq(Lines), Distinct(file),
         NEW l, NEW t, l.batch \in Seq(Nat), t.facts \in Seq(Nat), l.at \in Nat \ {0},
         Pending(l.batch, l.remap, l.at), Leads(l.remap, t.facts)
  PROVE  Landed(l.batch, l.at, t.facts, Flush(l, t))
<1>1. \A k, n \in DOMAIN l.batch : l.batch[k] = l.batch[n] => k = n
  BY PendingOnce
<1>2. PICK u : u = Flush(l, t)
  OBVIOUS
<1>3. BatchWritten(l.batch, l.remap, t.facts, u)
  BY <1>1, <1>2, FlushFits
<1>4. Pending(<<>>, u.remap, l.at)
  BY <1>3, PendingFlushed DEF BatchWritten
<1> QED BY <1>2, <1>3, <1>4 DEF Landed, BatchWritten

\* What an import reading its file may count on.
Reading ==
  /\ load.pc = "reading" /\ walk.pc = "done"
  /\ file \in Seq(Lines) /\ Distinct(file) /\ FactsBelow(file, walk.cursor)
  /\ load = [pc |-> load.pc, at |-> load.at, batch |-> load.batch, remap |-> load.remap,
             again |-> load.again]
  /\ load.at \in Nat \ {0} /\ load.batch \in Seq(Nat)
  /\ target = [facts |-> target.facts, links |-> target.links] /\ target.facts \in Seq(Nat)
  /\ Pending(load.batch, load.remap, load.at) /\ Leads(load.remap, target.facts)
  /\ load.at <= Len(file) + 1
  /\ LinksLead(target.links, target.facts)
  /\ \A k \in 1..(load.at - 1) :
       file[k].kind = "edge" => \E link \in target.links : link.edge = file[k].edge

LEMMA ImportReads ==
  ASSUME TransferInv, load.pc = "reading"
  PROVE  Reading
BY DEF TransferInv, TransferTypes, WalkFits, LoadFits, LinksFit, Reading

\* The import touches neither the source nor the file.
LEMMA ExportStands ==
  ASSUME TransferInv, UNCHANGED <<source, steady, walk, changes, file>>,
         load' = [pc |-> load'.pc, at |-> load'.at, batch |-> load'.batch, remap |-> load'.remap,
                  again |-> load'.again],
         load'.pc \in {"reading", "done"}, load'.at \in Nat \ {0}, load'.batch \in Seq(Nat),
         target' = [facts |-> target'.facts, links |-> target'.links], target'.facts \in Seq(Nat)
  PROVE  TransferTypes' /\ WalkFits'
<1>1. TransferTypes'
  BY DEF TransferInv, TransferTypes
<1>2. WalkFits'
  BY DEF TransferInv, WalkFits, Carries
<1> QED BY <1>1, <1>2

LEMMA ReadFactStep ==
  ASSUME TransferInv, ReadFact
  PROVE  TransferInv'
<1>1. Reading
  BY ImportReads DEF ReadFact
<1>2. PICK b, i, n : b = load.batch /\ i = Line.id /\ n = load.at
  OBVIOUS
<1>3. /\ n <= Len(file) /\ Line = file[n] /\ file[n].kind = "fact" /\ i = file[n].id
      /\ UNCHANGED <<source, steady, walk, changes, file>> /\ n \in Nat \ {0}
  BY <1>1, <1>2 DEF ReadFact, Line, Reading
<1>4. i \in Nat /\ Pending(Append(b, i), load.remap, n + 1) /\ Append(b, i) \in Seq(Nat)
  <2>1. i \in Nat /\ Pending(Append(b, i), load.remap, n + 1)
    BY <1>1, <1>2, <1>3, PendingGrows DEF Reading
  <2> QED BY <1>1, <1>2, <2>1 DEF Reading
<1>5. PICK l : l = [load EXCEPT !.batch = Append(b, i), !.at = n + 1]
  OBVIOUS
<1>6. /\ l = [pc |-> "reading", at |-> n + 1, batch |-> Append(b, i), remap |-> load.remap,
              again |-> load.again]
      /\ l.pc = "reading" /\ l.at = n + 1 /\ l.batch = Append(b, i) /\ l.remap = load.remap
      /\ l.again = load.again
  BY <1>1, <1>5 DEF Reading
<1>7. n + 1 \in Nat \ {0} /\ n + 1 <= Len(file) + 1
  BY <1>1, <1>3 DEF Reading
<1>8. ASSUME NEW k \in 1..((n + 1) - 1), file[k].kind = "edge"
      PROVE  \E link \in target.links : link.edge = file[k].edge
  <2>1. k \in 1..(n - 1)
    BY <1>3, <1>8
  <2> QED BY <1>1, <1>2, <1>8, <2>1 DEF Reading
<1>9. PICK u : u = Flush(l, target)
  OBVIOUS
<1>10. \/ load' = [l EXCEPT !.batch = <<>>, !.remap = u.remap] /\ target' = [target EXCEPT !.facts = u.facts]
       \/ load' = l /\ UNCHANGED target
  BY <1>2, <1>5, <1>9 DEF ReadFact
<1>11. CASE load' = [l EXCEPT !.batch = <<>>, !.remap = u.remap]
            /\ target' = [target EXCEPT !.facts = u.facts]
  <2>1. Landed(l.batch, n + 1, target.facts, u)
    BY <1>1, <1>4, <1>6, <1>7, <1>9, FlushLands DEF Reading
  <2>2. /\ load' = [pc |-> "reading", at |-> n + 1, batch |-> <<>>, remap |-> u.remap,
                    again |-> load.again]
        /\ load'.pc = "reading" /\ load'.at = n + 1 /\ load'.batch = <<>> /\ load'.remap = u.remap
        /\ load'.again = load.again
    BY <1>6, <1>11
  <2>3. /\ target' = [facts |-> u.facts, links |-> target.links]
        /\ target'.facts = u.facts /\ target'.links = target.links
    BY <1>1, <1>11 DEF Reading
  <2>4. u.facts \in Seq(Nat) /\ <<>> \in Seq(Nat)
    BY <2>1 DEF Landed
  <2>5. TransferTypes' /\ WalkFits'
    BY <1>3, <1>7, <2>2, <2>3, <2>4, ExportStands
  <2>6. Pending(load.batch, load.remap, load.at)'
    BY <1>3, <2>1, <2>2 DEF Landed, Pending
  <2>7. LoadFits'
    BY <1>1, <1>3, <1>7, <2>1, <2>2, <2>3, <2>6 DEF LoadFits, Landed, Leads, Reading
  <2>8. LinksLead(target.links, u.facts)
    BY <1>1, <2>1, LeadingStays DEF Landed, Reading
  <2>9. LinksFit'
    BY <1>3, <1>8, <2>2, <2>3, <2>8 DEF LinksFit, LinksLead, Follows
  <2> QED BY <2>5, <2>7, <2>9 DEF TransferInv
<1>12. CASE load' = l /\ UNCHANGED target
  <2>1. TransferTypes' /\ WalkFits'
    BY <1>1, <1>3, <1>4, <1>6, <1>7, <1>12, ExportStands DEF Reading
  <2>2. Pending(load.batch, load.remap, load.at)'
    BY <1>3, <1>4, <1>6, <1>12 DEF Pending
  <2>3. LoadFits'
    BY <1>1, <1>3, <1>6, <1>7, <1>12, <2>2 DEF LoadFits, Leads, Reading
  <2>4. LinksFit'
    BY <1>1, <1>3, <1>6, <1>8, <1>12 DEF LinksFit, LinksLead, Follows, Reading
  <2> QED BY <2>1, <2>3, <2>4 DEF TransferInv
<1> QED BY <1>10, <1>11, <1>12
LEMMA ReadEdgeStep ==
  ASSUME TransferInv, ReadEdge
  PROVE  TransferInv'
<1>1. Reading
  BY ImportReads DEF ReadEdge
<1>2. PICK n, u, line, link :
        /\ n = load.at /\ u = Flush(load, target) /\ line = file[n]
        /\ link = EdgeLine(line.edge, Translated(line.from, u.remap))
  OBVIOUS
<1>3. /\ n <= Len(file) /\ n \in Nat \ {0} /\ n \in DOMAIN file /\ line.kind = "edge"
      /\ UNCHANGED <<source, steady, walk, changes, file>>
      /\ load' = [load EXCEPT !.batch = <<>>, !.remap = u.remap, !.at = n + 1]
      /\ target' = [facts |-> u.facts, links |-> target.links \cup {link}]
  BY <1>1, <1>2 DEF ReadEdge, BeforeEdge, Line, Reading
<1>4. Landed(load.batch, n, target.facts, u)
  BY <1>1, <1>2, FlushLands DEF Reading
<1>5. /\ Pending(<<>>, u.remap, n) /\ Leads(u.remap, u.facts) /\ u.facts \in Seq(Nat)
      /\ \A i \in DOMAIN target.facts : i \in DOMAIN u.facts /\ u.facts[i] = target.facts[i]
  BY <1>4 DEF Landed
<1>6. /\ \A k \in 1..(n - 1) : file[k].kind = "fact" => file[k].id \in DOMAIN u.remap
      /\ \A id \in DOMAIN u.remap : \E k \in 1..(n - 1) : file[k] = FactLine(id)
  <2>1. PICK s \in Nat : /\ n = s + Len(<<>>) + 1
                         /\ \A k \in 1..s : file[k].kind = "fact" => file[k].id \in DOMAIN u.remap
    BY <1>5 DEF Pending
  <2>2. s = n - 1
    BY <1>3, <2>1
  <2> QED BY <1>5, <2>1, <2>2 DEF Pending
<1>7. ASSUME NEW id
      PROVE  id \in DOMAIN u.remap <=> \E k \in DOMAIN file : file[k] = FactLine(id)
  <2>1. DOMAIN file = 1..Len(file) /\ Len(file) \in Nat
    BY <1>1 DEF Reading
  <2>2. 1..(n - 1) \subseteq DOMAIN file
    BY <1>3, <2>1
  <2>3. ASSUME NEW k \in DOMAIN file, file[k] = FactLine(id) PROVE id \in DOMAIN u.remap
    <3>1. file[k].kind = "fact" /\ file[k].id = id
      BY <2>3 DEF FactLine
    <3>2. k < n
      BY <1>1, <1>2, <1>3, <3>1 DEF Reading, Distinct
    <3>3. k \in 1..(n - 1)
      BY <1>3, <2>1, <3>2
    <3> QED BY <1>6, <3>1, <3>3
  <2> QED BY <1>6, <2>2, <2>3
<1>8. link.edge = line.edge /\ Follows(u.facts, link, line)
  <2>1. link.edge = line.edge /\ link.from = Translated(line.from, u.remap)
    BY <1>2 DEF EdgeLine
  <2>2. CASE line.from \in DOMAIN u.remap
    <3>1. link.from = u.remap[line.from]
      BY <2>1, <2>2 DEF Translated
    <3> QED BY <1>5, <1>7, <2>1, <2>2, <3>1 DEF Follows, Leads
  <2>3. CASE line.from \notin DOMAIN u.remap
    <3>1. link.from = 0
      BY <2>1, <2>3 DEF Translated
    <3> QED BY <1>7, <2>1, <2>3, <3>1 DEF Follows
  <2> QED BY <2>2, <2>3
<1>9. LinksLead(target.links \cup {link}, u.facts)
  <2>1. LinksLead(target.links, u.facts)
    BY <1>1, <1>5, LeadingStays DEF Reading
  <2> QED BY <1>2, <1>3, <1>8, <2>1 DEF LinksLead
<1>10. ASSUME NEW k \in 1..((n + 1) - 1), file[k].kind = "edge"
       PROVE  \E other \in target.links \cup {link} : other.edge = file[k].edge
  <2>1. CASE k = n
    BY <1>2, <1>8, <2>1
  <2>2. CASE k # n
    <3>1. k \in 1..(n - 1)
      BY <1>3, <2>2
    <3> QED BY <1>1, <1>2, <1>10, <3>1 DEF Reading
  <2> QED BY <2>1, <2>2
<1>11. /\ load' = [pc |-> "reading", at |-> n + 1, batch |-> <<>>, remap |-> u.remap,
                   again |-> load.again]
       /\ load'.pc = "reading" /\ load'.at = n + 1 /\ load'.batch = <<>> /\ load'.remap = u.remap
       /\ load'.again = load.again
  BY <1>1, <1>3 DEF Reading
<1>12. target'.facts = u.facts /\ target'.links = target.links \cup {link}
       /\ target' = [facts |-> target'.facts, links |-> target'.links]
  BY <1>3
<1>13. n + 1 \in Nat \ {0} /\ n + 1 <= Len(file) + 1 /\ <<>> \in Seq(Nat)
  BY <1>1, <1>3 DEF Reading
<1>14. TransferTypes' /\ WalkFits'
  BY <1>3, <1>5, <1>11, <1>12, <1>13, ExportStands
<1>15. Pending(<<>>, u.remap, n + 1)
  <2>1. n + 1 = n + Len(<<>>) + 1 /\ 1..(n - 1) \subseteq 1..((n + 1) - 1)
    BY <1>3
  <2>2. \A k \in 1..n : file[k].kind = "fact" => file[k].id \in DOMAIN u.remap
    <3>1. \A k \in 1..n : k = n \/ k \in 1..(n - 1)
      BY <1>3
    <3> QED BY <1>2, <1>3, <1>6, <3>1
  <2> QED BY <1>3, <1>6, <1>13, <2>1, <2>2 DEF Pending
<1>16. Pending(load.batch, load.remap, load.at)'
  BY <1>3, <1>11, <1>15 DEF Pending
<1>17. LoadFits'
  BY <1>1, <1>3, <1>5, <1>11, <1>12, <1>13, <1>16 DEF LoadFits, Leads, Reading
<1>18. LinksFit'
  BY <1>3, <1>9, <1>10, <1>11, <1>12 DEF LinksFit, LinksLead, Follows
<1> QED BY <1>14, <1>17, <1>18 DEF TransferInv

LEMMA ReadEndStep ==
  ASSUME TransferInv, ReadEnd
  PROVE  TransferInv'
<1>1. Reading
  BY ImportReads DEF ReadEnd
<1>2. PICK n, u : n = load.at /\ u = Flush(load, target)
  OBVIOUS
<1>3. /\ n > Len(file) /\ n \in Nat \ {0}
      /\ UNCHANGED <<source, steady, walk, changes, file>>
      /\ load' = [load EXCEPT !.pc = "done", !.batch = <<>>]
      /\ target' = [target EXCEPT !.facts = u.facts]
  BY <1>1, <1>2 DEF ReadEnd, Reading
<1>4. Landed(load.batch, n, target.facts, u)
  BY <1>1, <1>2, FlushLands DEF Reading
<1>5. /\ Pending(<<>>, u.remap, n) /\ Leads(u.remap, u.facts) /\ u.facts \in Seq(Nat)
      /\ \A i \in DOMAIN target.facts : i \in DOMAIN u.facts /\ u.facts[i] = target.facts[i]
  BY <1>4 DEF Landed
<1>6. Copied(u.facts)
  <2>1. PICK s \in Nat : /\ n = s + Len(<<>>) + 1
                         /\ \A k \in 1..s : file[k].kind = "fact" => file[k].id \in DOMAIN u.remap
    BY <1>5 DEF Pending
  <2>2. n <= Len(file) + 1 /\ Len(file) \in Nat /\ DOMAIN file = 1..Len(file)
    BY <1>1, <1>2 DEF Reading
  <2>3. DOMAIN file = 1..s
    BY <1>3, <2>1, <2>2
  <2> QED BY <1>5, <2>1, <2>3 DEF Copied, Leads
<1>7. /\ load' = [pc |-> "done", at |-> n, batch |-> <<>>, remap |-> load.remap,
                  again |-> load.again]
      /\ load'.pc = "done" /\ load'.at = n /\ load'.batch = <<>> /\ load'.remap = load.remap
      /\ load'.again = load.again
  BY <1>1, <1>2, <1>3 DEF Reading
<1>8. /\ target' = [facts |-> u.facts, links |-> target.links]
      /\ target'.facts = u.facts /\ target'.links = target.links
  BY <1>1, <1>3 DEF Reading
<1>9. TransferTypes' /\ WalkFits'
  <2>1. <<>> \in Seq(Nat)
    OBVIOUS
  <2> QED BY <1>3, <1>5, <1>7, <1>8, <2>1, ExportStands
<1>10. LoadFits'
  BY <1>1, <1>2, <1>3, <1>6, <1>7, <1>8 DEF LoadFits, Copied, Reading
<1>11. LinksLead(target.links, u.facts)
  BY <1>1, <1>5, LeadingStays DEF Reading
<1>12. LinksFit'
  BY <1>1, <1>2, <1>3, <1>7, <1>8, <1>11 DEF LinksFit, LinksLead, Follows, Reading
<1> QED BY <1>9, <1>10, <1>12 DEF TransferInv

LEMMA LoadFailsStep ==
  ASSUME TransferInv, LoadFails
  PROVE  TransferInv'
<1>1. Reading
  BY ImportReads DEF LoadFails
<1>2. /\ UNCHANGED <<source, steady, walk, changes, file, target>>
      /\ load' = [pc |-> "reading", at |-> 1, batch |-> <<>>, remap |-> NoIds, again |-> TRUE]
      /\ load'.pc = "reading" /\ load'.at = 1 /\ load'.batch = <<>> /\ load'.remap = NoIds
      /\ load'.again = TRUE
  BY <1>1 DEF LoadFails, Reading
<1>3. DOMAIN NoIds = {} /\ <<>> \in Seq(Nat) /\ Len(file) \in Nat /\ 1..(1 - 1) = {}
  BY <1>1 DEF NoIds, Reading
<1>4. TransferTypes' /\ WalkFits'
  BY <1>1, <1>2, <1>3, ExportStands DEF Reading
<1>5. Pending(<<>>, NoIds, 1)
  <2>1. 0 \in Nat /\ 1 = 0 + Len(<<>>) + 1 /\ 1 <= Len(file) + 1 /\ 1..0 = {} /\ DOMAIN <<>> = {}
    BY <1>3
  <2> QED BY <1>3, <2>1 DEF Pending
<1>6. Pending(load.batch, load.remap, load.at)'
  BY <1>2, <1>5 DEF Pending
<1>7. LoadFits'
  BY <1>1, <1>2, <1>3, <1>6 DEF LoadFits, Leads, Reading
<1>8. LinksFit'
  BY <1>1, <1>2, <1>3 DEF LinksFit, LinksLead, Follows, Reading
<1> QED BY <1>4, <1>7, <1>8 DEF TransferInv

LEMMA TransferStep ==
  ASSUME TransferInv, [TransferNext]_transferVars
  PROVE  TransferInv'
<1>1. CASE UNCHANGED transferVars
  BY <1>1 DEF transferVars, TransferInv, TransferTypes, WalkFits, Distinct, FactsBelow, Carries,
              LoadFits, Pending, Leads, Copied, LinksFit, LinksLead, Follows
<1>2. CASE TransferNext
  BY <1>2, SourceStep, ExportPageStep, ExportEdgesStep, ReadFactStep, ReadEdgeStep, ReadEndStep,
     LoadFailsStep DEF TransferNext
<1> QED BY <1>1, <1>2

\* At every step of an export and an import the file holds each fact the pages have
\* passed once, facts before edges; the batch is the lines just read; the map leads
\* each id of the file read before them to its copy; and every link is to the copy of
\* what its line names (export_facts_page, do_import, flush_import_batch).
THEOREM TransferHolds == TransferSpec => []TransferInv
<1>1. TransferInit => TransferInv
  BY TransferStarts
<1>2. TransferInv /\ [TransferNext]_transferVars => TransferInv'
  BY TransferStep
<1> QED BY <1>1, <1>2, PTL DEF TransferSpec

LEMMA WholePages ==
  ASSUME TransferInv
  PROVE  PagesAreWhole
<1> SUFFICES ASSUME walk.pc = "done", NEW i \in DOMAIN source.facts,
                    NEW K, K = {k \in DOMAIN file : file[k] = FactLine(i)}
             PROVE  Cardinality(K) <= 1 /\ (i \in steady => Cardinality(K) = 1)
  BY DEF PagesAreWhole
<1>1. /\ Distinct(file) /\ Carries(file, steady, walk.cursor)
      /\ \A j \in steady : j < walk.cursor
  BY DEF TransferInv, WalkFits
<1>2. \A k \in K : file[k].kind = "fact"
  BY DEF FactLine
<1>3. CASE K = {}
  <2>1. Cardinality(K) = 0
    BY <1>3, FS_EmptySet
  <2>2. i \notin steady
    BY <1>1, <1>3 DEF Carries
  <2> QED BY <2>1, <2>2
<1>4. CASE K # {}
  <2>1. PICK k : k \in K
    BY <1>4
  <2>2. K = {k}
    BY <1>1, <1>2, <2>1 DEF Distinct
  <2>3. Cardinality(K) = 1
    BY <2>2, FS_Singleton
  <2> QED BY <2>3
<1> QED BY <1>3, <1>4

LEMMA FollowedProvenance ==
  ASSUME TransferInv
  PROVE  ProvenanceFollows
<1> SUFFICES ASSUME NEW k \in 1..(load.at - 1), file[k].kind = "edge",
                    NEW links, links = {link \in target.links : link.edge = file[k].edge}
             PROVE  /\ links # {}
                    /\ \A link \in links :
                         IF \E n \in DOMAIN file : file[n] = FactLine(file[k].from)
                         THEN link.from # 0 /\ target.facts[link.from] = file[k].from
                         ELSE link.from = 0
  BY DEF ProvenanceFollows
<1>1. /\ file \in Seq(Lines) /\ target.facts \in Seq(Nat) /\ load.at \in Nat
      /\ load.at <= Len(file) + 1 /\ Distinct(file) /\ LinksFit
  BY DEF TransferInv, TransferTypes, WalkFits, LoadFits
<1>2. k \in DOMAIN file
  <2>1. DOMAIN file = 1..Len(file) /\ Len(file) \in Nat
    BY <1>1
  <2> QED BY <1>1, <2>1
<1>3. links # {}
  BY <1>1 DEF LinksFit
<1>4. ASSUME NEW link \in links PROVE Follows(target.facts, link, file[k])
  <2>1. PICK n \in DOMAIN file : /\ file[n].kind = "edge" /\ file[n].edge = link.edge
                                 /\ Follows(target.facts, link, file[n])
    BY <1>1 DEF LinksFit, LinksLead
  <2>2. n = k
    BY <1>1, <1>2, <2>1 DEF Distinct
  <2> QED BY <2>1, <2>2
<1>5. \A j \in DOMAIN target.facts : j # 0
  BY <1>1
<1> QED BY <1>3, <1>4, <1>5 DEF Follows

\* However the pages fall and whatever is written between them, a fact that stays open
\* is in the file once; and however the import's batches fall and wherever it starts
\* again, an edge arrives with the copy of the fact it was learned from, and the whole
\* file is in the target when the import is done (export_facts_page, do_import).
THEOREM DumpsLoad == TransferSpec => []DumpLoads
<1>1. ASSUME TransferInv PROVE DumpLoads
  BY <1>1, WholePages, FollowedProvenance DEF DumpLoads, TransferInv, LoadFits, Copied
<1>2. TransferInv => DumpLoads
  BY <1>1
<1> QED BY <1>2, TransferHolds, PTL

-----------------------------------------------------------------------------
(* Settings.  RunsWith asks, key by key, what a database shows of a value; *)
(* the lemmas answer it for what may come from the environment or the file *)
(* (OverriddenRuns) and for what only a file has (WrittenRuns).            *)

\* The file that governs is the first one named, and it was read.
LEMMA Governing ==
  ASSUME NEW p \in Places, Source(p) \notin {Missing, NoToml}, NEW named,
         named = IF p.flag # NoFlag THEN p.flag
                ELSE IF p.variable # NoFlag THEN p.variable ELSE p.platform
  PROVE  /\ named # NoToml /\ (named = Missing => p.flag = NoFlag)
         /\ Source(p).table = IF named \in {NoFlag, Missing} THEN <<>> ELSE named.table
         /\ Keyed(Source(p).table)
<1>1. \/ named \in {NoFlag, Missing, NoToml}
      \/ named = File(named.table) /\ Keyed(named.table)
  BY SettingsConstants
<1>2. Keyed(<<>>) BY DEF Keyed
<1>3. /\ Source(p) = IF p.flag = NoFlag /\ named \in {NoFlag, Missing} THEN File(<<>>) ELSE named
  BY DEF Source
<1>4. NoFlag # Missing /\ NoToml # NoFlag /\ NoToml # Missing
  BY DEF NoFlag, Missing, NoToml
<1>5. File(<<>>).table = <<>> BY DEF File
<1>6. CASE p.flag # NoFlag
  <2>1. Source(p) = named /\ named = p.flag BY <1>6, <1>3
  <2> QED BY <2>1, <1>1, <1>4, <1>6
<1>7. CASE p.flag = NoFlag /\ named \in {NoFlag, Missing}
  <2>1. Source(p) = File(<<>>) BY <1>7, <1>3
  <2> QED BY <2>1, <1>2, <1>4, <1>5, <1>7
<1>8. CASE p.flag = NoFlag /\ named \notin {NoFlag, Missing}
  <2>1. Source(p) = named BY <1>8, <1>3
  <2> QED BY <2>1, <1>1, <1>4, <1>8
<1> QED BY <1>6, <1>7, <1>8

\* A number that is not negative, a boolean, a string: what the parsers let through.
LEMMA ValuesRead ==
  ASSUME NEW v \in TypedValues
  PROVE  /\ v = <<v[1], v[2]>> /\ v # Unset
         /\ v[1] = "bool" => v[2] \in BOOLEAN
         /\ IsUint(v) => v[1] = "int" /\ v[2] \in Nat
BY DEF TypedValues, Unset, IsUint

\* What an environment and a file come to when neither was refused.
Accepted(e, t) == /\ Keyed(t) /\ Keyed(e) /\ DOMAIN e \subseteq Milliseconds \cup {"enabled", "on_error"}
               /\ ~FileRefused(t) /\ ~EnvRefused(e)
               /\ ConfigValid(ConfigOf(t)) /\ ~EmbedderRefused(e, t)

\* What a database built from settings shows of them.
Shows(m, e, t) ==
  /\ m.config = ConfigOf(t)
  /\ m.embedder = IF EmbedderWanted(e, t)
                  THEN <<t["url"][2], t["model"][2], Timeout(Overridden(e, t, "timeout_ms"))>>
                  ELSE <<>>
  /\ m.onError = Or(Overridden(e, t, "on_error"), "fail")
  /\ m.retry = RetryOf(Overridden(e, t, "retry_after_ms"), Overridden(e, t, "retry_max_ms"))
  /\ m.every = OrIgnored(Of(t, "snapshot_every_ops"), Defaults.every)

LEMMA BuiltShows ==
  ASSUME NEW e, NEW t, NEW f, NEW m, m = Built(Resolved(e, t), f)
  PROVE  Shows(m, e, t) /\ m.fsync = f
BY DEF Built, Resolved, Shows

\* The keys the environment may set, wherever their value is from.
LEMMA OverriddenRuns ==
  ASSUME NEW e, NEW t, Accepted(e, t), NEW m, Shows(m, e, t),
         NEW k \in Milliseconds \cup {"enabled", "on_error"}, NEW v, v = Overridden(e, t, k),
         k \in DOMAIN e \cup DOMAIN t
  PROVE  RunsWith(m, k, v[2])
<1>1. v \in TypedValues BY DEF Overridden, HasKey, Of, Accepted, Keyed
<1>2. /\ v = <<v[1], v[2]>> /\ v # Unset
      /\ v[1] = "bool" => v[2] \in BOOLEAN
      /\ IsUint(v) => v[1] = "int" /\ v[2] \in Nat
  BY <1>1, ValuesRead
<1>3. /\ k \in Milliseconds => IsUint(v)
      /\ k = "enabled" => v[1] = "bool"
  BY DEF Accepted, FileRefused, EnvRefused, Overridden, HasKey, Of
<1>4. CASE k = "enabled"
  <2>1. EmbedderWanted(e, t) = v[2] BY <1>4, <1>2 DEF EmbedderWanted
  <2>2. v[2] \in BOOLEAN BY <1>4, <1>2, <1>3
  <2>3. (m.embedder # <<>>) <=> EmbedderWanted(e, t)
    <3>1. m.embedder = IF EmbedderWanted(e, t)
                       THEN <<t["url"][2], t["model"][2], Timeout(Overridden(e, t, "timeout_ms"))>>
                       ELSE <<>>
      BY DEF Shows
    <3>2. \A a, b, c : <<a, b, c>> # <<>> OBVIOUS
    <3> QED BY <3>1, <3>2
  <2>4. RunsWith(m, "enabled", v[2]) <=> (m.embedder # <<>>) = v[2] BY DEF RunsWith
  <2>5. (m.embedder # <<>>) <=> v[2] BY <2>1, <2>3, Zenon
  <2>6. (m.embedder # <<>>) = v[2] BY <2>5, <2>2, Zenon
  <2> QED BY <2>4, <2>6, <1>4
<1>5. CASE k = "timeout_ms"
  <2>1. m.embedder = IF EmbedderWanted(e, t)
                     THEN <<t["url"][2], t["model"][2], Timeout(v)>> ELSE <<>>
    BY <1>5 DEF Shows
  <2>2. m.embedder # <<>> => m.embedder[3] = Timeout(v) BY <2>1
  <2>3. Timeout(v) = IF v[2] = 0 THEN "none" ELSE v[2] BY <1>2 DEF Timeout
  <2>4. RunsWith(m, "timeout_ms", v[2]) BY <2>2, <2>3 DEF RunsWith
  <2> QED BY <2>4, <1>5
<1>6. CASE k = "retry_after_ms"
  <2>1. m.retry = RetryOf(v, Overridden(e, t, "retry_max_ms")) BY <1>6 DEF Shows
  <2>2. v[1] = "int" BY <1>6, <1>3, <1>2 DEF Milliseconds
  <2>3. m.retry = IF v[2] = 0 THEN <<"manual", 0>> ELSE <<"fixed", v[2]>>
    BY <2>1, <2>2, <1>2 DEF RetryOf
  <2>4. RunsWith(m, "retry_after_ms", v[2]) BY <2>3 DEF RunsWith
  <2> QED BY <2>4, <1>6
<1>7. CASE k = "retry_max_ms"
  <2> DEFINE after == Overridden(e, t, "retry_after_ms")
  <2>1. m.retry = RetryOf(after, v) BY <1>7 DEF Shows
  <2> HIDE DEF after
  <2>2. m.retry \in {<<"backoff", v[2]>>, <<"manual", 0>>, <<"fixed", after[2]>>}
    BY <2>1, <1>2 DEF RetryOf, Or
  <2>3. m.retry[1] = "backoff" => m.retry[2] = v[2] BY <2>2
  <2>4. RunsWith(m, "retry_max_ms", v[2]) BY <2>3 DEF RunsWith
  <2> QED BY <2>4, <1>7
<1>8. CASE k = "on_error"
  <2>1. m.onError = v[2]
    <3>1. m.onError = Or(v, "fail") BY <1>8 DEF Shows
    <3> QED BY <3>1, <1>2 DEF Or
  <2>2. RunsWith(m, "on_error", v[2]) BY <2>1 DEF RunsWith
  <2> QED BY <2>2, <1>8
<1> QED BY <1>4, <1>5, <1>6, <1>7, <1>8 DEF Milliseconds

\* The keys only a file has.
LEMMA WrittenRuns ==
  ASSUME NEW e, NEW t, Accepted(e, t), NEW m, Shows(m, e, t),
         NEW k \in DOMAIN t, k \notin Milliseconds \cup {"enabled", "on_error"}, Plain(k, t[k])
  PROVE  RunsWith(m, k, t[k][2])
<1> DEFINE v == t[k]
<1>0. /\ m.config = ConfigOf(t)
      /\ m.every = OrIgnored(Of(t, "snapshot_every_ops"), Defaults.every)
  BY DEF Shows
<1>1. v \in TypedValues BY DEF Accepted, Keyed
<1>2. /\ v = <<v[1], v[2]>> /\ v # Unset
      /\ IsUint(v) => v[1] = "int" /\ v[2] \in Nat
  BY <1>1, ValuesRead
<1>3. Of(t, k) = v BY DEF Of
<1>4. ~FileRefused(t) BY DEF Accepted
<1>5. CASE k = "url" \/ k = "model"
  <2>1. m.embedder = IF EmbedderWanted(e, t)
                     THEN <<t["url"][2], t["model"][2], Timeout(Overridden(e, t, "timeout_ms"))>>
                     ELSE <<>>
    BY DEF Shows
  <2>2. m.embedder # <<>> => m.embedder[1] = t["url"][2] /\ m.embedder[2] = t["model"][2] BY <2>1
  <2>3. RunsWith(m, "url", t["url"][2]) /\ RunsWith(m, "model", t["model"][2]) BY <2>2 DEF RunsWith
  <2> QED BY <2>3, <1>5
<1>6. CASE k = "dim"
  <2>1. m.config.dim = v[2]
    <3> HIDE DEF v
    <3>1. m.config.dim = Or(v, Defaults.dim) BY <1>0, <1>6, <1>3 DEF ConfigOf
    <3> QED BY <3>1, <1>2 DEF Or
  <2>2. RunsWith(m, "dim", v[2]) BY <2>1 DEF RunsWith
  <2> QED BY <2>2, <1>6
<1>7. CASE k = "half_life_days"
  <2>1. m.config.half = v[2] % U32
    <3> HIDE DEF v
    <3>1. m.config.half = Or(v, Defaults.half) % U32 BY <1>0, <1>7, <1>3 DEF ConfigOf
    <3> QED BY <3>1, <1>2 DEF Or
  <2>2. IsUint(v) BY <1>4, <1>7 DEF FileRefused, Uints
  <2>3. v[2] < U32 => v[2] % U32 = v[2]
    <3>1. v[2] \in Nat /\ U32 \in Nat \ {0} BY <2>2, <1>2, SettingsConstants
    <3>2. \A x \in Nat, u \in Nat \ {0} : x < u => x % u = x OBVIOUS
    <3> QED BY <3>1, <3>2
  <2>4. RunsWith(m, "half_life_days", v[2]) BY <2>1, <2>3 DEF RunsWith
  <2> QED BY <2>4, <1>7
<1>8. CASE k = "w_vec"
  <2>1. m.config.w = v[2]
    <3> HIDE DEF v
    <3>1. m.config.w = Or(v, Defaults.w) BY <1>0, <1>8, <1>3 DEF ConfigOf
    <3> QED BY <3>1, <1>2 DEF Or
  <2>2. RunsWith(m, "w_vec", v[2]) BY <2>1 DEF RunsWith
  <2> QED BY <2>2, <1>8
<1>9. CASE k = "snapshot_every_ops"
  <2>1. IsUint(v) BY <1>9 DEF Plain, Lax
  <2>2. m.every = v[2]
    <3> HIDE DEF v
    <3> QED BY <1>0, <2>1, <1>9, <1>3 DEF OrIgnored
  <2>3. RunsWith(m, "snapshot_every_ops", v[2]) BY <2>2 DEF RunsWith
  <2> QED BY <2>3, <1>9
<1>10. CASE k \notin {"url", "model", "dim", "half_life_days", "w_vec", "snapshot_every_ops"}
  <2> HIDE DEF v
  <2>1. RunsWith(m, k, v[2]) BY <1>10 DEF RunsWith, Milliseconds
  <2> QED BY <2>1 DEF v
<1> QED BY <1>5, <1>6, <1>7, <1>8, <1>9, <1>10

-----------------------------------------------------------------------------
(* The invariant.                                                          *)

\* Settings are loaded only where nothing is refused, and a database runs with what
\* was loaded, a pool's without its fsync.
SettingsInv ==
  /\ places \in Places /\ environ \in Environs
  /\ \/ loaded \in {Nothing, [at |-> "refused"]}
     \/ /\ loaded = [at |-> "loaded", settings |-> Resolved(environ, Source(places).table)]
        /\ ~Refusals(places, environ)
  /\ \/ running = Nothing
     \/ /\ loaded.at = "loaded"
        /\ \/ running = [at |-> "single",
                         memory |-> Built(loaded.settings, loaded.settings.fsync)]
           \/ running = [at |-> "pool", memory |-> Built(loaded.settings, "each_op"),
                         limit |-> loaded.settings.maxOpen]

\* It holds at the start.
LEMMA SettingsStart == SettingsInit => SettingsInv
BY DEF SettingsInit, SettingsInv

\* Loading and opening keep it.
LEMMA SettingsStep == SettingsInv /\ [SettingsNext]_settingsVars => SettingsInv'
<1> SUFFICES ASSUME SettingsInv, [SettingsNext]_settingsVars PROVE SettingsInv'
  OBVIOUS
<1>1. CASE Load
  <2>1. running = Nothing
    <3>1. Nothing.at # "loaded" BY DEF Nothing
    <3> QED BY <3>1, <1>1 DEF Load, SettingsInv
  <2> QED BY <1>1, <2>1 DEF Load, SettingsInv
<1>2. CASE OpenSingle BY <1>2 DEF OpenSingle, Ready, SettingsInv
<1>3. CASE OpenPool BY <1>3 DEF OpenPool, Ready, SettingsInv
<1>4. CASE UNCHANGED settingsVars BY <1>4 DEF settingsVars, SettingsInv
<1> QED BY <1>1, <1>2, <1>3, <1>4 DEF SettingsNext

\* And what was loaded means what the environment and the file say.
LEMMA SettingsMeant == SettingsInv => SettingsHold
<1> SUFFICES ASSUME SettingsInv, running # Nothing PROVE SettingsHold
  BY DEF SettingsHold
<1> DEFINE e == environ
           t == Source(places).table
           s == Resolved(e, t)
           m == running.memory
           named == IF places.flag # NoFlag THEN places.flag
                   ELSE IF places.variable # NoFlag THEN places.variable ELSE places.platform
<1>1. loaded.at = "loaded" BY DEF SettingsInv
<1>2. /\ loaded.settings = s /\ ~Refusals(places, e)
  <2>1. Nothing.at # "loaded" /\ [at |-> "refused"].at # "loaded" BY DEF Nothing
  <2> QED BY <1>1, <2>1 DEF SettingsInv
<1>3. /\ named # NoToml /\ (named = Missing => places.flag = NoFlag)
      /\ t = IF named \in {NoFlag, Missing} THEN <<>> ELSE named.table
      /\ Keyed(t)
  <2>1. places \in Places /\ Source(places) \notin {Missing, NoToml}
    BY <1>2 DEF SettingsInv, Refusals
  <2> QED BY <2>1, Governing
<1>4. Accepted(e, t)
  BY <1>2, <1>3, SettingsConstants DEF Accepted, Refusals, SettingsInv
<1>5. \/ running.at = "single" /\ m = Built(s, s.fsync)
      \/ running.at = "pool" /\ m = Built(s, "each_op") /\ running.limit = s.maxOpen
  BY <1>2 DEF SettingsInv
<1>6. s.fsync = Or(Of(t, "fsync"), "each_op") /\ s.maxOpen = OrIgnored(Of(t, "max_open"), Defaults.maxOpen)
  BY DEF Resolved
<1> HIDE DEF t, named
<1>7. PICK f : /\ m = Built(s, f) /\ Shows(m, e, t) /\ m.fsync = f
               /\ running.at = "single" => f = Or(Of(t, "fsync"), "each_op")
               /\ f \in {"each_op", Or(Of(t, "fsync"), "each_op")}
  BY <1>5, <1>6, BuiltShows
<1>8. m.fsync = f /\ m.config = ConfigOf(t)
      /\ m.embedder = IF EmbedderWanted(e, t)
                      THEN <<t["url"][2], t["model"][2], Timeout(Overridden(e, t, "timeout_ms"))>>
                      ELSE <<>>
  BY <1>7 DEF Shows
<1> HIDE DEF m
<1>9. \A k \in DOMAIN e : RunsWith(m, k, e[k][2])
  <2> SUFFICES ASSUME NEW k \in DOMAIN e PROVE RunsWith(m, k, e[k][2])
    OBVIOUS
  <2>1. k \in Milliseconds \cup {"enabled", "on_error"} BY <1>4 DEF Accepted
  <2>2. e[k] = Overridden(e, t, k) BY DEF Overridden, HasKey
  <2> QED BY <1>4, <1>7, <2>1, <2>2, OverriddenRuns
<1>10. \A k \in DOMAIN t \ DOMAIN e : Plain(k, t[k]) => RunsWith(m, k, t[k][2])
  <2> SUFFICES ASSUME NEW k \in DOMAIN t \ DOMAIN e, Plain(k, t[k]) PROVE RunsWith(m, k, t[k][2])
    OBVIOUS
  <2>1. CASE k \in Milliseconds \cup {"enabled", "on_error"}
    <3>1. t[k] = Overridden(e, t, k) BY DEF Overridden, HasKey, Of
    <3> QED BY <1>4, <1>7, <2>1, <3>1, OverriddenRuns
  <2>2. CASE k \notin Milliseconds \cup {"enabled", "on_error"}
    BY <1>4, <1>7, <2>2, WrittenRuns
  <2> QED BY <2>1, <2>2
<1>11. m.embedder # <<>> => m.config.dim > 0 /\ {"url", "model"} \subseteq DOMAIN t
  <2> SUFFICES ASSUME m.embedder # <<>> PROVE m.config.dim > 0 /\ {"url", "model"} \subseteq DOMAIN t
    OBVIOUS
  <2>1. EmbedderWanted(e, t) BY <1>8
  <2>2. /\ StringOf(t, "url") # Unset /\ StringOf(t, "model") # Unset /\ ConfigOf(t).dim # 0
    BY <1>4, <2>1 DEF Accepted, EmbedderRefused
  <2>3. {"url", "model"} \subseteq DOMAIN t BY <2>2 DEF StringOf, Of, Unset
  <2>4. ConfigOf(t).dim \in Nat
    <3>1. CASE "dim" \in DOMAIN t
      <4>1. t["dim"] \in TypedValues /\ IsUint(t["dim"])
        BY <1>4, <3>1 DEF Accepted, Keyed, FileRefused, Uints
      <4>2. t["dim"] # Unset /\ t["dim"][2] \in Nat BY <4>1, ValuesRead
      <4> QED BY <4>2, <3>1 DEF ConfigOf, Or, Of
    <3>2. CASE "dim" \notin DOMAIN t BY <3>2, SettingsConstants DEF ConfigOf, Or, Of
    <3> QED BY <3>1, <3>2
  <2> QED BY <1>8, <2>2, <2>3, <2>4
<1>12. m.fsync = "on_snapshot" => t["fsync"][2] = "on_snapshot"
  <2>1. CASE "fsync" \in DOMAIN t BY <1>7, <1>8, <2>1 DEF Or, Of
  <2>2. CASE "fsync" \notin DOMAIN t BY <1>7, <1>8, <2>2 DEF Or, Of
  <2> QED BY <2>1, <2>2
<1>13. running.at = "single" => m.fsync = Or(Of(t, "fsync"), "each_op") BY <1>7, <1>8
<1>14. running.at = "pool" => running.limit \in 1..MaxOpen
  <2> SUFFICES ASSUME running.at = "pool" PROVE s.maxOpen \in 1..MaxOpen
    BY <1>5
  <2>1. Unset[1] # "int" BY DEF Unset
  <2>2. CASE IsUint(Of(t, "max_open"))
    <3>1. Of(t, "max_open") = t["max_open"] BY <2>1, <2>2 DEF Of, IsUint
    <3>2. t["max_open"][2] \in 1..MaxOpen BY <1>4, <2>2, <3>1 DEF Accepted, FileRefused
    <3> QED BY <1>6, <2>2, <3>1, <3>2 DEF OrIgnored
  <2>3. CASE ~IsUint(Of(t, "max_open")) BY <1>6, <2>3, SettingsConstants DEF OrIgnored
  <2> QED BY <2>2, <2>3
<1>15. LET r == IF named \in {NoFlag, Missing} THEN <<>> ELSE named.table
       IN  /\ named # NoToml /\ (named = Missing => places.flag = NoFlag)
           /\ \A k \in DOMAIN environ : RunsWith(m, k, environ[k][2])
           /\ \A k \in DOMAIN r \ DOMAIN environ : Plain(k, r[k]) => RunsWith(m, k, r[k][2])
           /\ m.embedder # <<>> => m.config.dim > 0 /\ {"url", "model"} \subseteq DOMAIN r
           /\ m.fsync = "on_snapshot" => r["fsync"][2] = "on_snapshot"
           /\ running.at = "single" => m.fsync = Or(Of(r, "fsync"), "each_op")
           /\ running.at = "pool" => running.limit \in 1..MaxOpen
  BY <1>3, <1>9, <1>10, <1>11, <1>12, <1>13, <1>14
<1> QED BY <1>15 DEF SettingsHold, m, named

\* Every database runs with what the environment says, and where it says nothing with
\* what the file that governs says; no ill-formed key is dropped but the documented
\* ones, and nothing runs with less durability than was asked for (settings.rs:1-4,
\* 37-47, 256-259, 422-430).
THEOREM SettingsAreKept == SettingsSpec => []SettingsHold
<1>1. SettingsSpec => []SettingsInv BY SettingsStart, SettingsStep, PTL DEF SettingsSpec
<1> QED BY <1>1, SettingsMeant, PTL

-----------------------------------------------------------------------------
(* A salvaged copy.                                                        *)

\* Ascending order gives every place once.
LEMMA Ranked ==
  ASSUME NEW S, IsFiniteSet(S), S \subseteq Nat
  PROVE  /\ Cardinality(S) \in Nat
         /\ \A f \in S : Rank(S, f) \in 0..Cardinality(S) - 1 /\ AtRank(S, Rank(S, f)) = f
         /\ \A n \in 0..Cardinality(S) - 1 : AtRank(S, n) \in S /\ Rank(S, AtRank(S, n)) = n
<1> DEFINE below(f) == {g \in S : g < f}
           c == Cardinality(S)
           spots == 0..c - 1
           rank == [f \in S |-> Rank(S, f)]
<1>1. c \in Nat BY FS_CardinalityType
<1>2. \A f \in S : IsFiniteSet(below(f)) /\ Cardinality(below(f)) \in Nat
  BY FS_Subset, FS_CardinalityType
<1>3. ASSUME NEW f \in S, NEW g \in S, f < g PROVE Cardinality(below(f)) < Cardinality(below(g))
  <2>1. \A h \in S : h < f => h < g
    <3> SUFFICES ASSUME NEW h \in S, h < f PROVE h < g
      OBVIOUS
    <3>1. h \in Nat /\ f \in Nat /\ g \in Nat OBVIOUS
    <3> QED BY <1>3, <3>1
  <2>2. below(f) \in SUBSET below(g) BY <2>1
  <2>3. f \in below(g) /\ f \notin below(f) BY <1>3
  <2> HIDE DEF below
  <2>4. Cardinality(below(f)) <= Cardinality(below(g)) /\ Cardinality(below(g)) # Cardinality(below(f))
    BY <1>2, <2>2, <2>3, FS_Subset
  <2> QED BY <1>2, <2>4
<1>4. ASSUME NEW f \in S PROVE Cardinality(below(f)) < c
  <2>1. below(f) \in SUBSET S /\ f \notin below(f) BY <1>4
  <2> HIDE DEF below
  <2>2. Cardinality(below(f)) <= c /\ c # Cardinality(below(f))
    BY <1>4, <2>1, FS_Subset
  <2> QED BY <1>1, <1>2, <2>2
<1>5. \A f \in S : Rank(S, f) \in spots BY <1>1, <1>2, <1>4 DEF Rank
<1>6. \A f, g \in S : Rank(S, f) = Rank(S, g) => f = g
  <2> SUFFICES ASSUME NEW f \in S, NEW g \in S, f # g PROVE Rank(S, f) # Rank(S, g)
    OBVIOUS
  <2>1. f < g \/ g < f OBVIOUS
  <2>2. Rank(S, f) < Rank(S, g) \/ Rank(S, g) < Rank(S, f) BY <1>3, <2>1 DEF Rank
  <2>3. Rank(S, f) \in Nat /\ Rank(S, g) \in Nat BY <1>2 DEF Rank
  <2> QED BY <2>2, <2>3
<1>7. rank \in Injection(S, spots) BY <1>5, <1>6 DEF Injection, IsInjective
<1>8. IsFiniteSet(spots) /\ Cardinality(spots) = c
  <2> HIDE DEF c
  <2>1. 0 \in Int /\ c - 1 \in Int BY <1>1
  <2>2. IsFiniteSet(spots) /\ Cardinality(spots) = IF 0 > c - 1 THEN 0 ELSE (c - 1) - 0 + 1
    BY <2>1, FS_Interval
  <2> QED BY <1>1, <2>2
<1>9. rank \in Surjection(S, spots)
  <2> HIDE DEF rank, spots, c
  <2>1. Cardinality(S) = Cardinality(spots) <=> rank \in Surjection(S, spots) BY <1>7, <1>8, FS_Injection
  <2> QED BY <1>8, <2>1 DEF c
<1>10. \A n \in spots : \E f \in S : Rank(S, f) = n BY <1>9 DEF Surjection
<1>11. \A f \in S : AtRank(S, Rank(S, f)) = f BY <1>6 DEF AtRank
<1>12. \A n \in spots : AtRank(S, n) \in S /\ Rank(S, AtRank(S, n)) = n BY <1>10 DEF AtRank
<1> QED BY <1>1, <1>5, <1>11, <1>12

\* A fact of an image with so many slots.
FactFits(r, n) ==
  /\ {"state", "text", "slot", "meta"} \subseteq DOMAIN r
  /\ r.state \in {"live", "tombstone"}
  /\ r.slot \in {NoSlot} \cup 0..n - 1

\* An image that only such damage was done to as faulty_facts looks at, or that does
\* not parse.
IsImage(m) ==
  /\ {"facts", "pool", "names", "parses"} \subseteq DOMAIN m
  /\ DOMAIN m.facts = Ids
  /\ Len(m.pool) \in Nat /\ DOMAIN m.pool = 1..Len(m.pool)
  /\ \A f \in Ids : FactFits(m.facts[f], Len(m.pool))
  /\ \A i \in 1..Len(m.pool) : /\ {"owner", "sound"} \subseteq DOMAIN m.pool[i]
                               /\ m.pool[i].sound
  /\ m.names

\* The facts that have a vector.
WithVector(m) == {f \in DOMAIN m.facts : m.facts[f].slot # NoSlot}

\* An image as it was written: a slot and its fact name each other.
AsWritten(m) ==
  /\ IsImage(m) /\ Verifies(m)
  /\ \A i \in 1..Len(m.pool) : /\ m.pool[i].owner \in Ids
                               /\ m.facts[m.pool[i].owner].slot = i - 1

\* What damage leaves of an image.
Alike(m, x) ==
  /\ Len(x.pool) = Len(m.pool)
  /\ \A f \in Ids : x.facts[f].state = m.facts[f].state
  /\ WithVector(x) = WithVector(m)

\* The facts are few and numbered.
LEMMA IdsFinite == IsFiniteSet(Ids) /\ Ids \subseteq Nat
<1>1. MaxFacts \in Nat BY SalvageAssumption
<1> QED BY <1>1, FS_Interval DEF Ids

\* Forgetting changes nothing but what is alive.
LEMMA ForgettingFits ==
  ASSUME NEW m, IsImage(m), NEW G, G \subseteq Ids, NEW x, x = Forgetting(m, G)
  PROVE  /\ IsImage(x) /\ x.pool = m.pool /\ x.parses = m.parses /\ x.names = m.names
         /\ WithVector(x) = WithVector(m) /\ Alive(x) = Alive(m) \ G
         /\ \A f \in Ids : /\ x.facts[f].slot = m.facts[f].slot
                           /\ x.facts[f].text = m.facts[f].text
                           /\ x.facts[f].meta = m.facts[f].meta
                           /\ x.facts[f].state = IF f \in G THEN "tombstone" ELSE m.facts[f].state
<1> DEFINE gone(f) == IF f \in G THEN [m.facts[f] EXCEPT !.state = "tombstone"] ELSE m.facts[f]
           facts == [f \in Ids |-> gone(f)]
<1>1. x = [m EXCEPT !.facts = facts] BY DEF Forgetting, IsImage
<1>2. \A f \in Ids : /\ gone(f).slot = m.facts[f].slot
                     /\ gone(f).text = m.facts[f].text
                     /\ gone(f).meta = m.facts[f].meta
                     /\ gone(f).state = IF f \in G THEN "tombstone" ELSE m.facts[f].state
                     /\ DOMAIN gone(f) = DOMAIN m.facts[f]
  BY DEF IsImage, FactFits
<1> HIDE DEF gone
<1>3. /\ x.facts = facts /\ x.pool = m.pool /\ x.parses = m.parses /\ x.names = m.names
      /\ DOMAIN x = DOMAIN m
  BY <1>1 DEF IsImage
<1>4. DOMAIN x.facts = Ids /\ \A f \in Ids : x.facts[f] = gone(f) BY <1>3
<1> HIDE DEF facts
<1>5. \A f \in Ids : /\ x.facts[f].slot = m.facts[f].slot
                     /\ x.facts[f].text = m.facts[f].text
                     /\ x.facts[f].meta = m.facts[f].meta
                     /\ x.facts[f].state = IF f \in G THEN "tombstone" ELSE m.facts[f].state
                     /\ DOMAIN x.facts[f] = DOMAIN m.facts[f]
  BY <1>2, <1>4
<1>6. \A f \in Ids : FactFits(x.facts[f], Len(x.pool)) BY <1>3, <1>5 DEF IsImage, FactFits
<1>7. IsImage(x) BY <1>3, <1>4, <1>6 DEF IsImage
<1>8. WithVector(x) = WithVector(m) BY <1>4, <1>5 DEF WithVector, IsImage
<1>9. Alive(x) = Alive(m) \ G BY <1>4, <1>5 DEF Alive, IsImage
<1> QED BY <1>3, <1>5, <1>7, <1>8, <1>9

\* So what was written stays as written.
LEMMA ForgettingWritten ==
  ASSUME NEW m, AsWritten(m), NEW G, G \subseteq Ids
  PROVE  AsWritten(Forgetting(m, G))
<1> DEFINE x == Forgetting(m, G)
<1>1. /\ IsImage(x) /\ x.pool = m.pool /\ x.parses = m.parses /\ x.names = m.names
      /\ WithVector(x) = WithVector(m)
      /\ \A f \in Ids : /\ x.facts[f].slot = m.facts[f].slot
                        /\ x.facts[f].text = m.facts[f].text
                        /\ x.facts[f].meta = m.facts[f].meta
  BY ForgettingFits DEF AsWritten
<1> HIDE DEF x
<1>2. DOMAIN x.facts = Ids /\ DOMAIN m.facts = Ids BY <1>1 DEF AsWritten, IsImage
<1>3. /\ x.parses /\ x.names /\ \A i \in DOMAIN x.pool : x.pool[i].sound
  BY <1>1 DEF AsWritten, Verifies
<1>4. \A f \in Ids : x.facts[f].text /\ x.facts[f].meta # "bad"
  BY <1>1, <1>2 DEF AsWritten, Verifies
<1>5. \A f \in Ids : NamedBy(x, f)
  <2>1. \A f \in Ids : NamedBy(m, f) BY <1>2 DEF AsWritten, Verifies
  <2> QED BY <1>1, <2>1 DEF NamedBy
<1>6. Cardinality({f \in Ids : x.facts[f].slot # NoSlot}) = Len(x.pool)
  <2>1. Cardinality({f \in Ids : m.facts[f].slot # NoSlot}) = Len(m.pool)
    BY <1>2 DEF AsWritten, Verifies
  <2>2. {f \in Ids : x.facts[f].slot # NoSlot} = {f \in Ids : m.facts[f].slot # NoSlot} BY <1>1
  <2> QED BY <1>1, <2>1, <2>2
<1>7. Verifies(x) BY <1>2, <1>3, <1>4, <1>5, <1>6 DEF Verifies
<1> QED BY <1>1, <1>7 DEF AsWritten, x

\* What is alike stays alike when the same facts are forgotten.
LEMMA ForgettingAlike ==
  ASSUME NEW m, NEW y, IsImage(m), IsImage(y), Alike(m, y), NEW G, G \subseteq Ids
  PROVE  Alike(Forgetting(m, G), Forgetting(y, G))
<1> DEFINE x == Forgetting(m, G)
           z == Forgetting(y, G)
<1>1. /\ x.pool = m.pool /\ WithVector(x) = WithVector(m)
      /\ \A f \in Ids : x.facts[f].state = IF f \in G THEN "tombstone" ELSE m.facts[f].state
  BY ForgettingFits
<1>2. /\ z.pool = y.pool /\ WithVector(z) = WithVector(y)
      /\ \A f \in Ids : z.facts[f].state = IF f \in G THEN "tombstone" ELSE y.facts[f].state
  BY ForgettingFits
<1> HIDE DEF x, z
<1>3. Alike(x, z) BY <1>1, <1>2 DEF Alike
<1> QED BY <1>3 DEF x, z

\* What a copy is made of: no live fact is faulty.
Sounds(m) == \A f \in Alive(m) : m.facts[f].text /\ m.facts[f].meta # "bad" /\ NamedBy(m, f)

\* A copy of an image whose live facts are sound has them, and verifies.
LEMMA CopyVerifies ==
  ASSUME NEW m, IsImage(m), m.parses, Sounds(m),
         Cardinality(WithVector(m)) = Len(m.pool),
         NEW x, x = Compacted(m)
  PROVE  /\ Verifies(x) /\ DOMAIN x.facts = Alive(m) /\ Alive(x) = Alive(m)
         /\ \A f \in Alive(m) : x.facts[f].slot = NoSlot <=> m.facts[f].slot = NoSlot
<1> DEFINE live == Alive(m)
           owners == {f \in live : m.facts[f].slot # NoSlot}
           slot(i) == m.facts[AtRank(owners, i - 1)].slot
           kept(f) == [m.facts[f] EXCEPT !.slot = IF @ = NoSlot THEN NoSlot ELSE Rank(owners, f)]
           facts == [f \in live |-> kept(f)]
           c == Cardinality(owners)
           pool == [i \in 1..c |-> m.pool[slot(i) + 1]]
<1>1. DOMAIN m.facts = Ids /\ live \subseteq Ids BY DEF IsImage, Alive
<1>2. CASE live = Ids
  <2>1. x = m BY <1>1, <1>2 DEF Compacted
  <2>2. Verifies(m) BY <1>1, <1>2 DEF Verifies, Sounds, IsImage, WithVector
  <2> QED BY <1>1, <1>2, <2>1, <2>2
<1>3. CASE live # Ids
  <2>1. x = [m EXCEPT !.facts = facts, !.pool = pool] BY <1>1, <1>3 DEF Compacted
  <2>2. IsFiniteSet(owners) /\ owners \subseteq Nat BY <1>1, IdsFinite, FS_Subset
  <2>3. /\ c \in Nat
        /\ \A f \in owners : Rank(owners, f) \in 0..c - 1 /\ AtRank(owners, Rank(owners, f)) = f
        /\ \A n \in 0..c - 1 : AtRank(owners, n) \in owners
    BY <2>2, Ranked
  <2>4. \A f \in live : /\ kept(f).state = m.facts[f].state /\ kept(f).text = m.facts[f].text
                        /\ kept(f).meta = m.facts[f].meta
                        /\ kept(f).slot = IF m.facts[f].slot = NoSlot THEN NoSlot ELSE Rank(owners, f)
    BY <1>1 DEF IsImage, FactFits
  <2>5. \A f \in owners : m.facts[f].slot \in 0..Len(m.pool) - 1 /\ m.pool[m.facts[f].slot + 1].owner = f
    <3> SUFFICES ASSUME NEW f \in owners
                 PROVE  m.facts[f].slot \in 0..Len(m.pool) - 1 /\ m.pool[m.facts[f].slot + 1].owner = f
      OBVIOUS
    <3>1. NamedBy(m, f) /\ FactFits(m.facts[f], Len(m.pool)) BY <1>1 DEF Sounds, IsImage
    <3> QED BY <3>1 DEF NamedBy, FactFits
  <2> HIDE DEF owners, kept, live
  <2>6. /\ x.facts = facts /\ x.pool = pool /\ x.parses = m.parses /\ x.names = m.names
    BY <2>1 DEF IsImage
  <2>7. DOMAIN x.facts = live /\ \A f \in live : x.facts[f] = kept(f) BY <2>6
  <2>8. Len(x.pool) = c /\ DOMAIN x.pool = 1..c BY <2>3, <2>6
  <2>9. \A i \in 1..c : x.pool[i] = m.pool[slot(i) + 1] BY <2>6
  <2> HIDE DEF facts, pool, c
  <2>10. \A i \in 1..c : x.pool[i].sound
    <3> SUFFICES ASSUME NEW i \in 1..c PROVE x.pool[i].sound
      OBVIOUS
    <3>1. AtRank(owners, i - 1) \in owners BY <2>3
    <3>2. slot(i) + 1 \in 1..Len(m.pool) BY <2>5, <3>1 DEF IsImage
    <3>3. m.pool[slot(i) + 1].sound BY <3>2 DEF IsImage
    <3> QED BY <2>9, <3>3
  <2>11. \A f \in owners : f \in live /\ m.facts[f].slot # NoSlot BY DEF owners
  <2>12. \A f \in live : f \notin owners => m.facts[f].slot = NoSlot BY DEF owners
  <2>13. \A f \in live : NamedBy(x, f)
    <3> SUFFICES ASSUME NEW f \in live PROVE NamedBy(x, f)
      OBVIOUS
    <3>1. CASE f \in owners
      <4> DEFINE r == Rank(owners, f)
      <4>1. r \in 0..c - 1 /\ AtRank(owners, r) = f BY <2>3, <3>1
      <4>2. x.facts[f].slot = r BY <2>4, <2>7, <2>11, <3>1
      <4> HIDE DEF r
      <4>3. r + 1 \in 1..c /\ (r + 1) - 1 = r BY <2>3, <4>1
      <4>4. x.pool[r + 1] = m.pool[slot(r + 1) + 1] BY <2>9, <4>3
      <4>5. slot(r + 1) = m.facts[f].slot BY <4>1, <4>3
      <4>6. x.pool[r + 1].owner = f BY <2>5, <3>1, <4>4, <4>5
      <4> QED BY <2>3, <2>8, <4>1, <4>2, <4>6 DEF NamedBy
    <3>2. CASE f \notin owners BY <2>4, <2>7, <2>12, <3>2 DEF NamedBy
    <3> QED BY <3>1, <3>2
  <2>14. \A f \in live : m.facts[f].text /\ m.facts[f].meta # "bad" BY DEF Sounds, live
  <2>15. \A f \in live : x.facts[f].text /\ x.facts[f].meta # "bad" BY <2>4, <2>7, <2>14
  <2>16. \A f \in live : x.facts[f].slot = NoSlot <=> m.facts[f].slot = NoSlot
    <3>1. \A f \in owners : Rank(owners, f) # NoSlot BY <2>3 DEF NoSlot
    <3> QED BY <2>4, <2>7, <2>12, <3>1
  <2>17. {f \in live : x.facts[f].slot # NoSlot} = owners BY <2>16 DEF owners
  <2>18. x.names BY <2>6 DEF IsImage
  <2>19. Verifies(x)
    <3>1. Cardinality({f \in live : x.facts[f].slot # NoSlot}) = Len(x.pool) BY <2>8, <2>17 DEF c
    <3> QED BY <2>6, <2>7, <2>8, <2>10, <2>13, <2>15, <2>18, <3>1 DEF Verifies
  <2>20. Alive(x) = live BY <2>4, <2>7 DEF Alive, live
  <2> QED BY <2>7, <2>16, <2>19, <2>20 DEF live
<1> QED BY <1>2, <1>3

\* What a disk spoils here leaves an image whose facts have or have not a vector as
\* before.
LEMMA SpoiltAlike ==
  ASSUME NEW m, IsImage(m), NEW p, Alike(p, m),
         NEW kind \in {"text", "metadata", "owner", "slot", "structure"},
         NEW x \in Spoilt(m, kind)
  PROVE  IsImage(x) /\ Alike(p, x)
<1>1. DOMAIN m.facts = Ids /\ DOMAIN m.pool = 1..Len(m.pool) BY DEF IsImage
<1>2. ASSUME NEW f \in Ids, NEW r, {"state", "text", "slot", "meta"} \subseteq DOMAIN r,
             r.state = m.facts[f].state, r.slot \in {NoSlot} \cup 0..Len(m.pool) - 1,
             r.slot = NoSlot <=> m.facts[f].slot = NoSlot,
             x = [m EXCEPT !.facts = [m.facts EXCEPT ![f] = r]]
      PROVE  IsImage(x) /\ Alike(p, x)
  <2>1. DOMAIN x = DOMAIN m /\ x.pool = m.pool /\ x.names = m.names
        /\ x.facts = [m.facts EXCEPT ![f] = r]
    BY <1>2 DEF IsImage
  <2>2. DOMAIN x.facts = Ids /\ x.facts[f] = r /\ \A g \in Ids \ {f} : x.facts[g] = m.facts[g]
    BY <1>1, <2>1
  <2>3. FactFits(r, Len(x.pool)) BY <1>2, <2>1 DEF IsImage, FactFits
  <2>4. \A g \in Ids : FactFits(x.facts[g], Len(x.pool)) BY <2>1, <2>2, <2>3 DEF IsImage
  <2>5. IsImage(x) BY <2>1, <2>2, <2>4 DEF IsImage
  <2>6. \A g \in Ids : x.facts[g].state = m.facts[g].state BY <1>2, <2>2
  <2>7. \A g \in Ids : x.facts[g].slot = NoSlot <=> m.facts[g].slot = NoSlot BY <1>2, <2>2
  <2>8. WithVector(x) = WithVector(m) BY <1>1, <2>2, <2>7 DEF WithVector
  <2>9. Alike(p, x) BY <2>1, <2>6, <2>8 DEF Alike
  <2> QED BY <2>5, <2>9
<1>3. CASE kind = "text"
  <2>1. PICK f \in Ids : x = [m EXCEPT !.facts[f].text = FALSE] BY <1>1, <1>3 DEF Spoilt
  <2>2. PICK r : r = [m.facts[f] EXCEPT !.text = FALSE] OBVIOUS
  <2>3. FactFits(m.facts[f], Len(m.pool)) BY DEF IsImage
  <2>4. /\ DOMAIN r = DOMAIN m.facts[f] /\ r.state = m.facts[f].state /\ r.slot = m.facts[f].slot
    BY <2>2, <2>3 DEF FactFits
  <2>5. x = [m EXCEPT !.facts = [m.facts EXCEPT ![f] = r]] BY <2>1, <2>2
  <2> QED BY <1>2, <2>3, <2>4, <2>5 DEF FactFits
<1>4. CASE kind = "metadata"
  <2>1. PICK f \in Ids : x = [m EXCEPT !.facts[f].meta = "bad"] BY <1>1, <1>4 DEF Spoilt
  <2>2. PICK r : r = [m.facts[f] EXCEPT !.meta = "bad"] OBVIOUS
  <2>3. FactFits(m.facts[f], Len(m.pool)) BY DEF IsImage
  <2>4. /\ DOMAIN r = DOMAIN m.facts[f] /\ r.state = m.facts[f].state /\ r.slot = m.facts[f].slot
    BY <2>2, <2>3 DEF FactFits
  <2>5. x = [m EXCEPT !.facts = [m.facts EXCEPT ![f] = r]] BY <2>1, <2>2
  <2> QED BY <1>2, <2>3, <2>4, <2>5 DEF FactFits
<1>5. CASE kind = "slot"
  <2>1. PICK f \in Ids, i \in 1..Len(m.pool) :
          m.facts[f].slot # NoSlot /\ x = [m EXCEPT !.facts[f].slot = i - 1]
    BY <1>1, <1>5 DEF Spoilt
  <2>2. PICK r : r = [m.facts[f] EXCEPT !.slot = i - 1] OBVIOUS
  <2>3. FactFits(m.facts[f], Len(m.pool)) BY DEF IsImage
  <2>4. /\ DOMAIN r = DOMAIN m.facts[f] /\ r.state = m.facts[f].state /\ r.slot = i - 1
    BY <2>2, <2>3 DEF FactFits
  <2>5. i - 1 \in 0..Len(m.pool) - 1 /\ i - 1 # NoSlot BY DEF IsImage, NoSlot
  <2>6. x = [m EXCEPT !.facts = [m.facts EXCEPT ![f] = r]] BY <2>1, <2>2
  <2> QED BY <1>2, <2>1, <2>3, <2>4, <2>5, <2>6 DEF FactFits
<1>6. CASE kind = "owner"
  <2>1. PICK f \in Ids, i \in 1..Len(m.pool) : x = [m EXCEPT !.pool[i].owner = f]
    BY <1>1, <1>6 DEF Spoilt
  <2>2. PICK r : r = [m.pool[i] EXCEPT !.owner = f] OBVIOUS
  <2>3. {"owner", "sound"} \subseteq DOMAIN m.pool[i] /\ m.pool[i].sound BY DEF IsImage
  <2>4. DOMAIN r = DOMAIN m.pool[i] /\ r.sound BY <2>2, <2>3
  <2>5. PICK pool : pool = [m.pool EXCEPT ![i] = r] OBVIOUS
  <2>6. x = [m EXCEPT !.pool = pool] BY <2>1, <2>2, <2>5
  <2>7. /\ DOMAIN pool = 1..Len(m.pool) /\ pool[i] = r
        /\ \A j \in 1..Len(m.pool) : j # i => pool[j] = m.pool[j]
    BY <1>1, <2>5
  <2>8. Len(pool) = Len(m.pool) BY <2>7 DEF IsImage
  <2>9. DOMAIN x = DOMAIN m /\ x.pool = pool /\ x.names = m.names /\ x.facts = m.facts
    BY <2>6 DEF IsImage
  <2>10. \A j \in 1..Len(m.pool) : {"owner", "sound"} \subseteq DOMAIN pool[j] /\ pool[j].sound
    BY <2>3, <2>4, <2>7 DEF IsImage
  <2>11. IsImage(x) BY <2>7, <2>8, <2>9, <2>10 DEF IsImage
  <2>12. Alike(p, x) BY <2>8, <2>9 DEF Alike, WithVector
  <2> QED BY <2>11, <2>12
<1>7. CASE kind = "structure"
  <2>1. x = [m EXCEPT !.parses = FALSE] BY <1>7 DEF Spoilt
  <2>2. /\ DOMAIN x = DOMAIN m /\ x.pool = m.pool /\ x.names = m.names /\ x.facts = m.facts
    BY <2>1 DEF IsImage
  <2>3. IsImage(x) BY <2>2 DEF IsImage
  <2>4. Alike(p, x) BY <2>2 DEF Alike, WithVector
  <2> QED BY <2>3, <2>4
<1> QED BY <1>3, <1>4, <1>5, <1>6, <1>7

\* An image is laid out with each slot and its fact naming each other.
LEMMA LaidIsWritten ==
  ASSUME NEW V \in SUBSET Ids, NEW M \in SUBSET Ids, NEW m, m = Laid(V, M)
  PROVE  AsWritten(m) /\ DOMAIN m = {"facts", "pool", "names", "parses"}
<1> DEFINE c == Cardinality(V)
<1>1. IsFiniteSet(V) /\ V \subseteq Nat BY IdsFinite, FS_Subset
<1>2. /\ c \in Nat
      /\ \A f \in V : Rank(V, f) \in 0..c - 1 /\ AtRank(V, Rank(V, f)) = f
      /\ \A n \in 0..c - 1 : AtRank(V, n) \in V /\ Rank(V, AtRank(V, n)) = n
  BY <1>1, Ranked
<1>3. /\ m.facts = [f \in Ids |-> Intact(f \in V, f \in M, Rank(V, f))]
      /\ m.pool = [i \in 1..c |-> [owner |-> AtRank(V, i - 1), sound |-> TRUE]]
      /\ m.names /\ m.parses /\ DOMAIN m = {"facts", "pool", "names", "parses"}
  BY DEF Laid
<1> HIDE DEF c
<1>4. DOMAIN m.facts = Ids /\ DOMAIN m.pool = 1..c /\ Len(m.pool) = c BY <1>2, <1>3
<1>5. \A f \in Ids : /\ DOMAIN m.facts[f] = {"state", "text", "slot", "meta"}
                     /\ m.facts[f].state = "live" /\ m.facts[f].text /\ m.facts[f].meta # "bad"
                     /\ m.facts[f].slot = IF f \in V THEN Rank(V, f) ELSE NoSlot
  BY <1>3 DEF Intact
<1>6. \A i \in 1..c : /\ DOMAIN m.pool[i] = {"owner", "sound"} /\ m.pool[i].sound
                      /\ m.pool[i].owner = AtRank(V, i - 1)
  BY <1>3
<1>7. \A f \in Ids : FactFits(m.facts[f], c) BY <1>2, <1>5 DEF FactFits
<1>8. IsImage(m) BY <1>2, <1>3, <1>4, <1>6, <1>7 DEF IsImage
<1>9. ASSUME NEW i \in 1..c PROVE m.pool[i].owner \in Ids /\ m.facts[m.pool[i].owner].slot = i - 1
  <2>1. i - 1 \in 0..c - 1 BY <1>2
  <2>2. AtRank(V, i - 1) \in V /\ Rank(V, AtRank(V, i - 1)) = i - 1 BY <1>2, <2>1
  <2> QED BY <1>5, <1>6, <2>2
<1>10. ASSUME NEW f \in Ids PROVE NamedBy(m, f)
  <2>1. CASE f \in V
    <3> DEFINE r == Rank(V, f)
    <3>1. r \in 0..c - 1 /\ AtRank(V, r) = f BY <1>2, <2>1
    <3>2. m.facts[f].slot = r BY <1>5, <2>1
    <3> HIDE DEF r
    <3>3. r + 1 \in 1..c /\ (r + 1) - 1 = r /\ r < c BY <1>2, <3>1
    <3>4. m.pool[r + 1].owner = f BY <1>6, <3>1, <3>3
    <3> QED BY <1>4, <3>2, <3>3, <3>4 DEF NamedBy
  <2>2. CASE f \notin V BY <1>5, <2>2 DEF NamedBy
  <2> QED BY <2>1, <2>2
<1>11. \A f \in V : Rank(V, f) # NoSlot BY <1>2 DEF NoSlot
<1>12. {f \in Ids : m.facts[f].slot # NoSlot} = V BY <1>5, <1>11
<1>13. Cardinality({f \in Ids : m.facts[f].slot # NoSlot}) = Len(m.pool) BY <1>4, <1>12 DEF c
<1>14. Verifies(m) BY <1>3, <1>4, <1>5, <1>6, <1>10, <1>13 DEF Verifies
<1> QED BY <1>3, <1>4, <1>8, <1>9, <1>14 DEF AsWritten

\* The source as recover opens it, and without what it finds faulty.
Opened  == Forgetting(src.image, src.journal)
Cleaned == Forgetting(Opened, Faulty(Opened))

\* What a salvage works on, and what it has at each point.
SalvageInv ==
  /\ AsWritten(pristine) /\ IsImage(src.image) /\ Alike(pristine, src.image)
  /\ {"image", "journal", "damage"} \subseteq DOMAIN src
  /\ src.journal \subseteq Ids
  /\ src.damage \in Nat /\ (src.damage = 0 => src.image = pristine)
  /\ salvage.at \in {"idle", "refused", "failed", "staging", "done"}
  /\ salvage.at \in {"staging", "done"} => Opened.parses /\ salvage.dropped = Faulty(Opened)
  /\ salvage.at = "staging" => salvage.image = Cleaned
  /\ salvage.at = "done" => dst = Compacted(Cleaned) /\ salvage.kept = Cardinality(DOMAIN dst.facts)

\* A salvage starts with an image as it was written, which nothing has spoilt.
LEMMA SalvageStart == SalvageInit => SalvageInv
<1> SUFFICES ASSUME SalvageInit PROVE SalvageInv
  OBVIOUS
<1>1. PICK V \in SUBSET Ids, M \in SUBSET Ids : pristine = Laid(V, M) BY DEF SalvageInit
<1>2. AsWritten(pristine) BY <1>1, LaidIsWritten
<1>3. src = [image |-> pristine, journal |-> {}, damage |-> 0] /\ salvage = [at |-> "idle"]
  BY DEF SalvageInit
<1>4. src.image = pristine /\ src.journal = {} /\ src.damage = 0 /\ salvage.at = "idle"
      /\ {"image", "journal", "damage"} \subseteq DOMAIN src
  BY <1>3
<1>5. Alike(pristine, pristine) BY DEF Alike
<1> QED BY <1>2, <1>4, <1>5 DEF SalvageInv, AsWritten

\* Damage faulty_facts looks for, or that keeps the image from opening.
FactDamage == DamageKinds \subseteq {"text", "metadata", "owner", "slot", "structure"}

\* No step of a disk, of the program before it or of a salvage leaves that.
LEMMA SalvageStep == FactDamage /\ SalvageInv /\ [SalvageNext]_salvageVars => SalvageInv'
<1> SUFFICES ASSUME FactDamage, SalvageInv, [SalvageNext]_salvageVars PROVE SalvageInv'
  OBVIOUS
<1>1. ASSUME Idle, NEW i, NEW j, NEW d,
             src' = [src EXCEPT !.image = i, !.journal = j, !.damage = d],
             AsWritten(pristine'), IsImage(i), Alike(pristine', i), j \subseteq Ids,
             d \in Nat, d = 0 => i = pristine', salvage' = salvage
      PROVE  SalvageInv'
  <2>1. /\ src'.image = i /\ src'.journal = j /\ src'.damage = d /\ DOMAIN src' = DOMAIN src
    BY <1>1 DEF SalvageInv
  <2> QED BY <1>1, <2>1 DEF SalvageInv, Idle
<1>2. ASSUME NEW f \in Ids, ForgetLive(f) PROVE SalvageInv'
  <2>1. src' = [src EXCEPT !.journal = @ \cup {f}] /\ UNCHANGED <<salvage, pristine>> /\ Idle
    BY <1>2 DEF ForgetLive
  <2>2. PICK i, j, d : i = src.image /\ j = src.journal \cup {f} /\ d = src.damage OBVIOUS
  <2>3. src' = [src EXCEPT !.image = i, !.journal = j, !.damage = d] BY <2>1, <2>2 DEF SalvageInv
  <2>4. AsWritten(pristine') /\ IsImage(i) /\ Alike(pristine', i) BY <2>1, <2>2 DEF SalvageInv
  <2>5. j \subseteq Ids /\ d \in Nat /\ (d = 0 => i = pristine') BY <2>1, <2>2 DEF SalvageInv
  <2>6. salvage' = salvage BY <2>1
  <2> QED BY <1>1, <2>1, <2>3, <2>4, <2>5, <2>6
<1>3. CASE PublishLive
  <2>1. PICK x : x = Forgetting(src.image, src.journal) OBVIOUS
  <2>2. /\ src.damage = 0 /\ src' = [src EXCEPT !.image = x, !.journal = {}] /\ Idle
        /\ pristine' = src'.image /\ salvage' = salvage
    BY <1>3, <2>1 DEF PublishLive
  <2>3. PICK j, d : j = {} /\ d = 0 OBVIOUS
  <2>4. src' = [src EXCEPT !.image = x, !.journal = j, !.damage = d] /\ pristine' = x
    BY <2>2, <2>3 DEF SalvageInv
  <2>5. AsWritten(x) BY <2>1, <2>2, ForgettingWritten DEF SalvageInv
  <2>6. Alike(x, x) /\ IsImage(x) BY <2>5 DEF Alike, AsWritten
  <2>7. j \subseteq Ids /\ d \in Nat /\ (d = 0 => x = pristine') BY <2>3, <2>4
  <2>8. AsWritten(pristine') /\ Alike(pristine', x) BY <2>4, <2>5, <2>6
  <2> QED BY <1>1, <2>2, <2>4, <2>6, <2>7, <2>8
<1>4. ASSUME NEW kind \in DamageKinds, Spoil(kind) PROVE SalvageInv'
  <2>1. PICK x \in Spoilt(src.image, kind) : src' = [src EXCEPT !.image = x, !.damage = @ + 1]
    BY <1>4 DEF Spoil
  <2>2. Idle /\ salvage' = salvage /\ pristine' = pristine BY <1>4 DEF Spoil
  <2>3. PICK j, d : j = src.journal /\ d = src.damage + 1 OBVIOUS
  <2>4. src' = [src EXCEPT !.image = x, !.journal = j, !.damage = d] BY <2>1, <2>3 DEF SalvageInv
  <2>5. IsImage(x) /\ Alike(pristine, x) BY <1>4, SpoiltAlike DEF SalvageInv, FactDamage
  <2>6. j \subseteq Ids /\ d \in Nat /\ (d = 0 => x = pristine') BY <2>3 DEF SalvageInv
  <2>7. AsWritten(pristine') /\ Alike(pristine', x) BY <2>2, <2>5 DEF SalvageInv
  <2> QED BY <1>1, <2>2, <2>4, <2>5, <2>6, <2>7
<1>5. CASE Recover
  <2>1. /\ UNCHANGED <<src, dst, pristine>>
        /\ salvage' = IF ~Opened.parses THEN [at |-> "refused"]
              ELSE [at |-> "staging", dropped |-> Faulty(Opened), image |-> Cleaned]
    BY <1>5 DEF Recover, Opened, Cleaned
  <2>2. Opened' = Opened /\ Cleaned' = Cleaned BY <2>1 DEF Opened, Cleaned
  <2>3. CASE Opened.parses
    <3>1. salvage'.at = "staging" /\ salvage'.dropped = Faulty(Opened) /\ salvage'.image = Cleaned
      BY <2>1, <2>3
    <3> QED BY <2>1, <2>2, <2>3, <3>1 DEF SalvageInv
  <2>4. CASE ~Opened.parses
    <3>1. salvage'.at = "refused" BY <2>1, <2>4
    <3> QED BY <2>1, <3>1 DEF SalvageInv
  <2> QED BY <2>3, <2>4
<1>6. CASE CommitCopy
  <2>1. /\ UNCHANGED <<src, pristine>> /\ salvage.at = "staging" /\ dst' = Compacted(salvage.image)
        /\ salvage' = [at |-> "done", dropped |-> salvage.dropped,
                       kept |-> Cardinality(DOMAIN dst'.facts)]
    BY <1>6 DEF CommitCopy
  <2>2. Opened' = Opened /\ Cleaned' = Cleaned BY <2>1 DEF Opened, Cleaned
  <2>3. salvage'.at = "done" /\ salvage'.dropped = salvage.dropped
        /\ salvage'.kept = Cardinality(DOMAIN dst'.facts)
    BY <2>1
  <2> QED BY <2>1, <2>2, <2>3 DEF SalvageInv
<1>7. CASE CopyFails
  <2>1. UNCHANGED <<src, pristine>> /\ salvage' = [at |-> "failed"] BY <1>7 DEF CopyFails
  <2>2. salvage'.at = "failed" BY <2>1
  <2> QED BY <2>1, <2>2 DEF SalvageInv
<1>8. CASE UNCHANGED salvageVars BY <1>8 DEF salvageVars, SalvageInv, Opened, Cleaned
<1> QED BY <1>2, <1>3, <1>4, <1>5, <1>6, <1>7, <1>8 DEF SalvageNext

\* A salvage then does what it promises: it keeps every live fact that is sound, with the
\* vector it was written with, and drops a fact only where it was spoilt.
LEMMA SalvageMeant == SalvageInv => SalvageKeepsTheRest
<1> SUFFICES ASSUME SalvageInv, salvage.at = "done" PROVE SalvageKeepsTheRest
  BY DEF SalvageKeepsTheRest
<1>1. PICK before : before = Forgetting(pristine, src.journal) OBVIOUS
<1>2. PICK now : now = Forgetting(src.image, src.journal) OBVIOUS
<1>3. PICK lost : lost = Faulty(now) OBVIOUS
<1>4. PICK left : left = Forgetting(now, lost) OBVIOUS
<1>5. /\ now.parses /\ salvage.dropped = lost /\ dst = Compacted(left)
      /\ salvage.kept = Cardinality(DOMAIN dst.facts)
  BY <1>2, <1>3, <1>4 DEF SalvageInv, Opened, Cleaned
<1>6. AsWritten(before) BY <1>1, ForgettingWritten DEF SalvageInv
<1>7. IsImage(now) BY <1>2, ForgettingFits DEF SalvageInv
<1>8. Alike(before, now) BY <1>1, <1>2, ForgettingAlike DEF SalvageInv, AsWritten
<1>9. IsImage(before) BY <1>6 DEF AsWritten
<1>10. DOMAIN now.facts = Ids /\ DOMAIN before.facts = Ids BY <1>7, <1>9 DEF IsImage
<1>11. lost \subseteq Alive(now) /\ Alive(now) \subseteq Ids BY <1>3, <1>10 DEF Faulty, Alive
<1>12. Alive(now) = Alive(before) BY <1>8, <1>10 DEF Alive, Alike
<1>13. /\ IsImage(left) /\ left.pool = now.pool /\ left.parses = now.parses
       /\ WithVector(left) = WithVector(now) /\ Alive(left) = Alive(now) \ lost
       /\ \A f \in Ids : /\ left.facts[f].slot = now.facts[f].slot
                         /\ left.facts[f].text = now.facts[f].text
                         /\ left.facts[f].meta = now.facts[f].meta
  BY <1>4, <1>7, <1>11, ForgettingFits
<1>14. Cardinality(WithVector(left)) = Len(left.pool)
  <2>1. Cardinality(WithVector(before)) = Len(before.pool) BY <1>6 DEF AsWritten, Verifies, WithVector
  <2> QED BY <1>8, <1>13, <2>1 DEF Alike
<1>15. ASSUME NEW f \in Alive(left)
       PROVE  /\ f \in Ids /\ now.facts[f].text /\ now.facts[f].meta # "bad" /\ NamedBy(now, f)
              /\ NamedBy(left, f)
  <2>1. f \in Alive(now) /\ f \notin lost /\ f \in Ids BY <1>11, <1>13
  <2>2. now.facts[f].text /\ now.facts[f].meta # "bad" /\ NamedBy(now, f) BY <1>3, <2>1 DEF Faulty
  <2> QED BY <1>13, <2>1, <2>2 DEF NamedBy
<1>16. Sounds(left) BY <1>13, <1>15 DEF Sounds
<1>17. left.parses BY <1>5, <1>13
<1>18. /\ Verifies(dst) /\ DOMAIN dst.facts = Alive(left) /\ Alive(dst) = Alive(left)
       /\ \A f \in Alive(left) : dst.facts[f].slot = NoSlot <=> left.facts[f].slot = NoSlot
  BY <1>5, <1>13, <1>14, <1>16, <1>17, CopyVerifies
<1>19. \A f \in Ids : now.facts[f].slot = NoSlot <=> before.facts[f].slot = NoSlot
  BY <1>8, <1>10 DEF Alike, WithVector
<1>20. \A f \in Alive(left) : (dst.facts[f].slot = NoSlot) = (before.facts[f].slot = NoSlot)
  <2> SUFFICES ASSUME NEW f \in Alive(left)
               PROVE  (dst.facts[f].slot = NoSlot) = (before.facts[f].slot = NoSlot)
    OBVIOUS
  <2>1. (dst.facts[f].slot = NoSlot) <=> (before.facts[f].slot = NoSlot) BY <1>13, <1>15, <1>18, <1>19
  <2> QED BY <2>1, Zenon
<1>21. ASSUME NEW f \in Alive(left), now.facts[f].slot # before.facts[f].slot
       PROVE  now.pool[now.facts[f].slot + 1] # before.pool[now.facts[f].slot + 1]
  <2>1. PICK s : s = now.facts[f].slot OBVIOUS
  <2>2. f \in Ids /\ NamedBy(now, f) /\ FactFits(now.facts[f], Len(now.pool)) BY <1>7, <1>15 DEF IsImage
  <2>3. s # NoSlot BY <1>19, <1>21, <2>1, <2>2
  <2>4. s \in 0..Len(now.pool) - 1 /\ now.pool[s + 1].owner = f BY <2>1, <2>2, <2>3 DEF NamedBy, FactFits
  <2>5. Len(before.pool) = Len(now.pool) /\ Len(now.pool) \in Nat BY <1>7, <1>8 DEF Alike, IsImage
  <2>6. s + 1 \in 1..Len(before.pool) /\ (s + 1) - 1 = s BY <2>4, <2>5
  <2>7. before.facts[before.pool[s + 1].owner].slot = s BY <1>6, <2>6 DEF AsWritten
  <2>8. before.pool[s + 1].owner # f BY <1>21, <2>1, <2>7
  <2>9. now.pool[s + 1] # before.pool[s + 1] BY <2>4, <2>8
  <2> QED BY <2>1, <2>9
<1>22. ASSUME NEW f \in lost, now.facts[f].text, now.facts[f].meta # "bad",
              now.facts[f].slot = before.facts[f].slot
       PROVE  now.pool[before.facts[f].slot + 1].owner # f
  <2>1. f \in Ids /\ FactFits(now.facts[f], Len(now.pool)) BY <1>7, <1>11 DEF IsImage
  <2>2. ~NamedBy(now, f) BY <1>3, <1>22 DEF Faulty
  <2>3. PICK s : s = now.facts[f].slot OBVIOUS
  <2>4. s # NoSlot /\ ~(s < Len(now.pool) /\ now.pool[s + 1].owner = f) BY <2>2, <2>3 DEF NamedBy
  <2>5. s < Len(now.pool) BY <1>7, <2>1, <2>3, <2>4 DEF FactFits, IsImage
  <2> QED BY <1>22, <2>3, <2>4, <2>5
<1>23. DOMAIN dst.facts \cup lost = Alive(before) /\ DOMAIN dst.facts \cap lost = {}
  BY <1>11, <1>12, <1>13, <1>18
<1>24. \A f \in DOMAIN dst.facts :
         /\ (dst.facts[f].slot = NoSlot) = (before.facts[f].slot = NoSlot)
         /\ \/ now.facts[f].slot = before.facts[f].slot
            \/ now.pool[now.facts[f].slot + 1] # before.pool[now.facts[f].slot + 1]
  BY <1>18, <1>20, <1>21
<1>25. \A f \in lost :
         ~now.facts[f].text \/ now.facts[f].meta = "bad" \/ now.facts[f].slot # before.facts[f].slot
           \/ now.pool[before.facts[f].slot + 1].owner # f
  BY <1>22
<1>26. DOMAIN dst.facts = Alive(dst) BY <1>18
<1>27. DOMAIN dst.facts \cup salvage.dropped = Alive(before) /\ DOMAIN dst.facts \cap salvage.dropped = {}
  BY <1>5, <1>23
<1> QED BY <1>1, <1>2, <1>5, <1>18, <1>24, <1>25, <1>26, <1>27 DEF SalvageKeepsTheRest

\* Where only what faulty_facts looks at was spoilt, or what keeps an image from opening,
\* a salvage that is done has left a copy that opens and verifies, with every live fact
\* that was not spoilt and no other, each with the vector it was written with, and it has
\* counted them (Database::recover, plugmem-host/src/db.rs; Memory::faulty_facts).
THEOREM SalvageKeepsWhatIsSound ==
  ASSUME FactDamage
  PROVE  SalvageSpec => []SalvageKeepsTheRest
<1>1. SalvageInit => SalvageInv BY SalvageStart
<1>2. SalvageInv /\ [SalvageNext]_salvageVars => SalvageInv' BY SalvageStep
<1>3. SalvageInv => SalvageKeepsTheRest BY SalvageMeant
<1> QED BY <1>1, <1>2, <1>3, PTL DEF SalvageSpec
=============================================================================
