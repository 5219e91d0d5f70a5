--------------------------- MODULE RegistryProofs ---------------------------
(***************************************************************************)
(* Proofs about Registry, for any databases, clerks and descriptions: what *)
(* the registry says was said, each database is described once, and a      *)
(* reindex settles what verify would report.                               *)
(***************************************************************************)
EXTENDS Registry, TLAPS, FiniteSetTheorems

\* What the registry relies on: no description is beyond a recall's budget, and the
\* clock does not go back.
Regular == LongTexts = {} /\ "clockBack" \notin Mishaps

-----------------------------------------------------------------------------
(* Types, and what was said.                                               *)

\* A clerk that is idle has the fields of NoClerk.
ClerkShape ==
  [pc : ClerkPC, db : Databases \cup {NoClerk.db}, desc : Desc \cup {AnyDesc}, found : Nat,
   at : 0..MaxNow, reindex : BOOLEAN, todo : SUBSET Databases, missed : SUBSET Databases,
   quiet : BOOLEAN]

RegistryTypes ==
  /\ present \in SUBSET Databases
  /\ own \in [Databases -> Seq(Fact)] /\ entries \in [Databases -> Seq(Fact)]
  /\ clerk \in [Clerks -> ClerkShape]
  /\ now \in 0..MaxNow /\ overlapped \in BOOLEAN
  /\ said \in [Databases -> SUBSET Desc]

\* A call at work on a database is at work on one, with a description, and found what
\* is there.
AtWork ==
  \A c \in Clerks :
    LET k == clerk[c] IN
    /\ k.pc \notin {"idle", "next"} => k.db \in Databases /\ k.desc \in Desc
    /\ k.pc = "writeOwn" => k.found \in 0..Len(own[k.db])
    /\ k.pc = "writeEntry" => k.found \in 0..Len(entries[k.db])

\* What a call is about to enter in the registry has been said, and so has what stands
\* in the database.
SaidFirst ==
  /\ \A d \in Databases : \A i \in DOMAIN own[d] : own[d][i].desc \in said[d]
  /\ \A c \in Clerks : clerk[c].pc \in {"seekEntry", "writeEntry"}
                         => clerk[c].desc \in said[clerk[c].db]
  /\ RecordWasSaid

RegistryInv == RegistryTypes /\ AtWork /\ SaidFirst

-----------------------------------------------------------------------------
(* One call at a time.                                                     *)

\* At most one description is current, and everything in it is past.
Once(facts)    == \A i, j \in Live(facts) : i = j
Past(facts, t) == \A i \in DOMAIN facts :
                    facts[i].at <= t /\ (facts[i].until # Unclosed => facts[i].until <= t)

\* What a lookup came back with is still what a write will find.
Aim(facts, i) == IF i = 0 THEN Live(facts) = {} ELSE i \in Live(facts)

\* The registry has what the database says of itself.
Agrees(d) == \A i \in Live(own[d]) :
               \E j \in Live(entries[d]) : entries[d][j].desc = own[d][i].desc

\* A reindex has settled what it has read, but for the one it is at.
Settling(k) ==
  /\ k.pc \in {"next", "seekEntry", "writeEntry"}
  /\ \A d \in present \ (k.todo \cup k.missed) :
       Agrees(d) \/ (k.pc # "next" /\ d = k.db)
  /\ k.pc # "next" => \A i \in Live(own[k.db]) : own[k.db][i].desc = k.desc

\* A call, as long as it is the only one.
Fits(k) ==
  k.pc # "idle" =>
    /\ k.at <= now
    /\ \A d \in Databases : Past(own[d], k.at) /\ Past(entries[d], k.at)
    /\ k.pc = "writeOwn" => Aim(own[k.db], k.found)
    /\ k.pc = "writeEntry" => Aim(entries[k.db], k.found)
    /\ k.reindex => Settling(k)
    /\ k.pc = "next" => k.reindex

OneByOne ==
  ~overlapped =>
    /\ \A b, c \in Clerks : clerk[b].pc # "idle" /\ clerk[c].pc # "idle" => b = c
    /\ \A d \in Databases : /\ Once(own[d]) /\ Past(own[d], now)
                            /\ Once(entries[d]) /\ Past(entries[d], now)
    /\ \A c \in Clerks : Fits(clerk[c])

-----------------------------------------------------------------------------
(* Lookups and writes.                                                     *)

\* A lookup comes back with nothing or with a fact that is there.
LEMMA FoundIsThere ==
  ASSUME NEW facts \in Seq(Fact), NEW at, NEW i \in Found(facts, at)
  PROVE  i \in 0..Len(facts)
<1>1. Admitted(facts, at) \subseteq 1..Len(facts) BY DEF Admitted
<1> QED BY <1>1 DEF Found

\* What a write leaves: one fact more, and the one it found closed.
Wrote(facts, found, at, desc, w) ==
  /\ w \in Seq(Fact) /\ Len(w) = Len(facts) + 1 /\ DOMAIN w = 1..Len(facts) + 1
  /\ w[Len(facts) + 1] = [at |-> at, until |-> Unclosed, desc |-> desc]
  /\ \A i \in 1..Len(facts) : /\ w[i].at = facts[i].at /\ w[i].desc = facts[i].desc
                              /\ w[i].until = IF i = found THEN at ELSE facts[i].until

\* That is what the two writes of a describe do.
LEMMA WrittenFields ==
  ASSUME NEW facts \in Seq(Fact), NEW found \in 0..Len(facts), NEW at \in 0..MaxNow,
         NEW desc \in Desc, NEW w, w = Written(facts, found, at, desc)
  PROVE  Wrote(facts, found, at, desc, w)
<1> DEFINE closed == IF found = 0 THEN facts ELSE [facts EXCEPT ![found].until = at]
           new    == [at |-> at, until |-> Unclosed, desc |-> desc]
<1>1. MaxNow \in Nat /\ at \in 0..Unclosed /\ Unclosed \in 0..Unclosed
  BY RegistryAssumption DEF Unclosed
<1>2. new \in Fact BY <1>1 DEF Fact
<1>3. /\ closed \in Seq(Fact) /\ Len(closed) = Len(facts)
      /\ \A i \in 1..Len(facts) : closed[i] = IF i = found THEN [facts[i] EXCEPT !.until = at]
                                              ELSE facts[i]
  <2>1. CASE found = 0 BY <2>1
  <2>2. CASE found # 0
    <3>1. \A i \in 1..Len(facts) : facts[i] \in Fact OBVIOUS
    <3>2. \A i \in 1..Len(facts) : [facts[i] EXCEPT !.until = at] \in Fact
      BY <1>1, <3>1 DEF Fact
    <3>3. closed = [i \in 1..Len(facts) |-> IF i = found THEN [facts[i] EXCEPT !.until = at]
                                            ELSE facts[i]]
      BY <2>2
    <3> HIDE DEF closed
    <3> QED BY <3>1, <3>2, <3>3
  <2> QED BY <2>1, <2>2
<1>4. w = Append(closed, new) BY DEF Written
<1> HIDE DEF closed, new
<1>5. /\ w \in Seq(Fact) /\ Len(w) = Len(facts) + 1 /\ DOMAIN w = 1..Len(facts) + 1
      /\ w[Len(facts) + 1] = new /\ \A i \in 1..Len(facts) : w[i] = closed[i]
  BY <1>2, <1>3, <1>4
<1>6. \A i \in 1..Len(facts) : facts[i] \in Fact OBVIOUS
<1>7. \A i \in 1..Len(facts) : /\ closed[i].at = facts[i].at /\ closed[i].desc = facts[i].desc
                               /\ closed[i].until = IF i = found THEN at ELSE facts[i].until
  BY <1>3, <1>6 DEF Fact
<1> QED BY <1>5, <1>7 DEF new, Wrote

\* While all is past, a recall admits the current facts and no others.
LEMMA AdmittedAreLive ==
  ASSUME NEW facts \in Seq(Fact), NEW at \in 0..MaxNow, Past(facts, at)
  PROVE  Admitted(facts, at) = Live(facts)
<1>1. \A i \in DOMAIN facts : facts[i] \in Fact OBVIOUS
<1>2. \A i \in DOMAIN facts : facts[i].at <= at /\ (at < facts[i].until <=> facts[i].until = Unclosed)
  BY <1>1, RegistryAssumption DEF Fact, Past, Unclosed
<1> QED BY <1>2 DEF Admitted, Live

\* So it aims at the only one, where no text is too long for it.
LEMMA FoundIsAimed ==
  ASSUME LongTexts = {}, NEW facts \in Seq(Fact), NEW at \in 0..MaxNow, Past(facts, at),
         NEW i \in Found(facts, at)
  PROVE  Aim(facts, i) /\ (i = 0 => Live(facts) = {})
<1>1. 0 \notin Live(facts) BY DEF Live
<1> QED BY <1>1, AdmittedAreLive DEF Found, Aim

\* A write at what was aimed at leaves one current description, the new one.
LEMMA WrittenOnce ==
  ASSUME NEW facts \in Seq(Fact), NEW found \in 0..Len(facts), NEW at \in 0..MaxNow,
         NEW desc \in Desc, NEW w, w = Written(facts, found, at, desc),
         Once(facts), Past(facts, at), Aim(facts, found)
  PROVE  Once(w) /\ Live(w) = {Len(facts) + 1} /\ Past(w, at) /\ w[Len(facts) + 1].desc = desc
<1>0. Wrote(facts, found, at, desc, w) BY WrittenFields
<1> DEFINE n == Len(facts)
<1>1. /\ DOMAIN w = 1..n + 1 /\ n \in Nat
      /\ w[n + 1] = [at |-> at, until |-> Unclosed, desc |-> desc]
      /\ \A i \in 1..n : /\ w[i].at = facts[i].at
                         /\ w[i].until = IF i = found THEN at ELSE facts[i].until
  BY <1>0 DEF Wrote
<1>2. at \in Nat /\ at # Unclosed /\ DOMAIN facts = 1..n BY RegistryAssumption DEF Unclosed
<1>3. \A i \in 1..n : w[i].until # Unclosed BY <1>1, <1>2 DEF Once, Aim, Live
<1>4. w[n + 1].until = Unclosed /\ w[n + 1].at = at /\ w[n + 1].desc = desc BY <1>1
<1> HIDE DEF n
<1>5. Live(w) = {n + 1} BY <1>1, <1>3, <1>4 DEF Live
<1>6. \A i \in DOMAIN w : w[i].at <= at /\ (w[i].until # Unclosed => w[i].until <= at)
  <2>1. \A i \in 1..n : w[i].at <= at /\ (w[i].until # Unclosed => w[i].until <= at)
    BY <1>1, <1>2 DEF Past
  <2> QED BY <1>1, <1>2, <1>4, <2>1
<1> QED BY <1>4, <1>5, <1>6 DEF Once, Past, n

\* What is past stays past.
LEMMA PastLater ==
  ASSUME NEW facts \in Seq(Fact), NEW t \in Nat, NEW u \in Nat, t <= u, Past(facts, t)
  PROVE  Past(facts, u)
<1>0. \A i \in DOMAIN facts : facts[i] \in Fact OBVIOUS
<1>1. \A i \in DOMAIN facts : facts[i].at \in Nat /\ facts[i].until \in Nat
  BY <1>0, RegistryAssumption DEF Fact, Unclosed
<1> QED BY <1>1 DEF Past

-----------------------------------------------------------------------------
(* However calls overlap or fail.                                          *)

\* A clerk that begins, goes on or ends.
LEMMA ClerkTypes ==
  /\ NoClerk \in ClerkShape /\ NoClerk.pc = "idle"
  /\ \A d \in Databases, desc \in Desc, at \in 0..MaxNow :
       [NoClerk EXCEPT !.pc = "seekOwn", !.db = d, !.desc = desc, !.at = at] \in ClerkShape
  /\ \A at \in 0..MaxNow, T \in SUBSET Databases :
       [NoClerk EXCEPT !.pc = "next", !.reindex = TRUE, !.at = at, !.todo = T] \in ClerkShape
<1>1. /\ NoClerk.db \in Databases \cup {NoClerk.db} /\ NoClerk.desc = AnyDesc
      /\ NoClerk = [pc |-> "idle", db |-> NoClerk.db, desc |-> AnyDesc, found |-> 0, at |-> 0,
                    reindex |-> FALSE, todo |-> {}, missed |-> {}, quiet |-> TRUE]
  BY DEF NoClerk
<1> DEFINE anyDb == NoClerk.db
<1>2. anyDb = NoClerk.db OBVIOUS
<1> HIDE DEF anyDb
<1>3. NoClerk = [pc |-> "idle", db |-> anyDb, desc |-> AnyDesc, found |-> 0, at |-> 0,
                 reindex |-> FALSE, todo |-> {}, missed |-> {}, quiet |-> TRUE]
  BY <1>1, <1>2
<1>4. ClerkShape = [pc : ClerkPC, db : Databases \cup {anyDb}, desc : Desc \cup {AnyDesc},
                    found : Nat, at : 0..MaxNow, reindex : BOOLEAN, todo : SUBSET Databases,
                    missed : SUBSET Databases, quiet : BOOLEAN]
  BY <1>2 DEF ClerkShape
<1>5. 0 \in 0..MaxNow BY RegistryAssumption
<1>6. NoClerk \in ClerkShape /\ NoClerk.pc = "idle" BY <1>3, <1>4, <1>5 DEF ClerkPC
<1>7. ASSUME NEW d \in Databases, NEW desc \in Desc, NEW at \in 0..MaxNow
      PROVE  [NoClerk EXCEPT !.pc = "seekOwn", !.db = d, !.desc = desc, !.at = at] \in ClerkShape
  BY <1>3, <1>4, <1>5 DEF ClerkPC
<1>8. ASSUME NEW at \in 0..MaxNow, NEW T \in SUBSET Databases
      PROVE  [NoClerk EXCEPT !.pc = "next", !.reindex = TRUE, !.at = at, !.todo = T] \in ClerkShape
  BY <1>3, <1>4, <1>5 DEF ClerkPC
<1> QED BY <1>6, <1>7, <1>8

\* The clerks but one are where they were.
LEMMA OthersStand ==
  ASSUME NEW c \in Clerks, NEW k \in ClerkShape, clerk \in [Clerks -> ClerkShape],
         clerk' = Disturbed(c, k)
  PROVE  /\ clerk' \in [Clerks -> ClerkShape] /\ clerk'[c] = k
         /\ \A b \in Clerks \ {c} : /\ clerk'[b].pc = clerk[b].pc /\ clerk'[b].db = clerk[b].db
                                    /\ clerk'[b].desc = clerk[b].desc
                                    /\ clerk'[b].found = clerk[b].found
<1>1. \A b \in Clerks : [clerk[b] EXCEPT !.quiet = FALSE] \in ClerkShape
  BY DEF ClerkShape
<1>2. \A b \in Clerks : clerk[b] \in ClerkShape OBVIOUS
<1> QED BY <1>1, <1>2 DEF Disturbed, ClerkShape

\* Every step keeps types, places and what was said.
LEMMA RegistryStep ==
  ASSUME RegistryInv, [RegistryNext]_registryVars
  PROVE  RegistryInv'
<1>0. /\ clerk \in [Clerks -> ClerkShape] /\ own \in [Databases -> Seq(Fact)]
      /\ entries \in [Databases -> Seq(Fact)] /\ said \in [Databases -> SUBSET Desc]
      /\ now \in 0..MaxNow /\ present \in SUBSET Databases
      /\ \A c \in Clerks : clerk[c] \in ClerkShape
  BY DEF RegistryInv, RegistryTypes
<1> DEFINE Moves(c, k) == clerk' = [clerk EXCEPT ![c] = k]
\* A step of a clerk that writes nothing.
<1>1. ASSUME NEW c \in Clerks, NEW k \in ClerkShape, Moves(c, k),
             UNCHANGED <<own, entries, said, now>>,
             present' \in SUBSET Databases, overlapped' \in BOOLEAN,
             k.pc \notin {"idle", "next"} => k.db \in Databases /\ k.desc \in Desc,
             k.pc = "writeOwn" => k.found \in 0..Len(own[k.db]),
             k.pc = "writeEntry" => k.found \in 0..Len(entries[k.db]),
             k.pc \in {"seekEntry", "writeEntry"} => k.desc \in said[k.db]
      PROVE  RegistryInv'
  <2>1. clerk' \in [Clerks -> ClerkShape] /\ clerk'[c] = k
        /\ \A b \in Clerks \ {c} : clerk'[b] = clerk[b]
    BY <1>0, <1>1
  <2> HIDE DEF Moves
  <2>2. RegistryTypes' BY <1>0, <1>1, <2>1 DEF RegistryTypes
  <2>3. AtWork' BY <1>1, <2>1 DEF AtWork, RegistryInv
  <2>4. SaidFirst' BY <1>1, <2>1 DEF SaidFirst, RecordWasSaid, RegistryInv
  <2> QED BY <2>2, <2>3, <2>4 DEF RegistryInv
<1>2. ASSUME NEW c \in Clerks, NEW d \in Databases, NEW t \in Texts,
             Describe(c, d, [text |-> t, archived |-> FALSE])
      PROVE  RegistryInv'
  <2> DEFINE desc == [text |-> t, archived |-> FALSE]
             k == [NoClerk EXCEPT !.pc = "seekOwn", !.db = d, !.desc = desc, !.at = now]
  <2>1. desc \in Desc BY DEF Desc
  <2>2. k \in ClerkShape /\ k.pc = "seekOwn" /\ k.db = d /\ k.desc = desc
    BY <1>0, <2>1, ClerkTypes DEF NoClerk
  <2>3. Moves(c, k) /\ UNCHANGED <<own, entries, said, now>> /\ present' \in SUBSET Databases
        /\ overlapped' \in BOOLEAN
    BY <1>0, <1>2 DEF Describe, Begins, RegistryInv, RegistryTypes
  <2> HIDE DEF k, Moves
  <2> QED BY <1>1, <2>1, <2>2, <2>3
<1>3. ASSUME NEW c \in Clerks, NEW d \in Databases, Archive(c, d)
      PROVE  RegistryInv'
  <2>1. PICK i \in Live(entries[d]) :
          Begins(c, [NoClerk EXCEPT !.pc = "seekOwn", !.db = d, !.at = now,
                                    !.desc = [entries[d][i].desc EXCEPT !.archived = TRUE]])
    BY <1>3 DEF Archive
  <2> DEFINE desc == [entries[d][i].desc EXCEPT !.archived = TRUE]
             k == [NoClerk EXCEPT !.pc = "seekOwn", !.db = d, !.at = now, !.desc = desc]
  <2>2. desc \in Desc
    <3>1. entries[d][i] \in Fact BY <1>0, <2>1 DEF Live
    <3> QED BY <3>1 DEF Fact, Desc
  <2> HIDE DEF desc
  <2>3. k \in ClerkShape /\ k.pc = "seekOwn" /\ k.db = d /\ k.desc = desc
    <3>1. k = [NoClerk EXCEPT !.pc = "seekOwn", !.db = d, !.desc = desc, !.at = now]
      BY DEF NoClerk
    <3>2. k \in ClerkShape BY <1>0, <2>2, <3>1, ClerkTypes
    <3>3. k.pc = "seekOwn" /\ k.db = d /\ k.desc = desc BY DEF NoClerk
    <3> QED BY <3>2, <3>3
  <2>4. Moves(c, k) /\ UNCHANGED <<own, entries, said, now>> /\ present' \in SUBSET Databases
        /\ overlapped' \in BOOLEAN
    BY <1>0, <1>3, <2>1 DEF Archive, Begins, RegistryInv, RegistryTypes, desc
  <2> HIDE DEF k, Moves
  <2> QED BY <1>1, <2>2, <2>3, <2>4
<1>4. ASSUME NEW c \in Clerks, Reindex(c) PROVE RegistryInv'
  <2> DEFINE k == [NoClerk EXCEPT !.pc = "next", !.reindex = TRUE, !.at = now, !.todo = present]
  <2>1. k \in ClerkShape /\ k.pc = "next" BY <1>0, ClerkTypes DEF NoClerk
  <2>2. Moves(c, k) /\ UNCHANGED <<own, entries, said, now>> /\ present' \in SUBSET Databases
        /\ overlapped' \in BOOLEAN
    BY <1>0, <1>4 DEF Reindex, Begins, RegistryInv, RegistryTypes
  <2> HIDE DEF k, Moves
  <2> QED BY <1>1, <2>1, <2>2
<1>5. ASSUME NEW c \in Clerks, SeekOwn(c) PROVE RegistryInv'
  <2>1. PICK i \in Found(own[clerk[c].db], clerk[c].at) :
          clerk' = [clerk EXCEPT ![c].pc = "writeOwn", ![c].found = i]
    BY <1>5 DEF SeekOwn
  <2> DEFINE k == [clerk[c] EXCEPT !.pc = "writeOwn", !.found = i]
  <2>2. clerk[c].db \in Databases /\ clerk[c].desc \in Desc
    BY <1>5 DEF SeekOwn, AtWork, RegistryInv
  <2>3. i \in 0..Len(own[clerk[c].db]) BY <1>0, <2>1, <2>2, FoundIsThere
  <2>4. /\ k \in ClerkShape /\ k.pc = "writeOwn" /\ k.db = clerk[c].db /\ k.desc = clerk[c].desc
        /\ k.found = i
    <3>1. i \in Nat BY <2>3
    <3> QED BY <1>0, <3>1 DEF ClerkShape, ClerkPC
  <2>5. Moves(c, k) BY <1>0, <2>1
  <2>6. UNCHANGED <<own, entries, said, now, present, overlapped>> BY <1>5 DEF SeekOwn
  <2> HIDE DEF k, Moves
  <2> QED BY <1>0, <1>1, <2>2, <2>3, <2>4, <2>5, <2>6 DEF RegistryInv, RegistryTypes
<1>6. ASSUME NEW c \in Clerks, WriteOwn(c) PROVE RegistryInv'
  <2> DEFINE k == clerk[c]
             f == own[k.db]
  <2>1. k.db \in Databases /\ k.desc \in Desc /\ k.found \in 0..Len(f) /\ k.at \in 0..MaxNow
    BY <1>0, <1>6 DEF WriteOwn, AtWork, RegistryInv, ClerkShape
  <2>2. CASE Writable(f, k.found)
    <3> DEFINE w == Written(f, k.found, k.at, k.desc)
               l == [k EXCEPT !.pc = "seekEntry"]
    <3>1. /\ own' = [own EXCEPT ![k.db] = w]
          /\ said' = [said EXCEPT ![k.db] = @ \cup {k.desc}]
          /\ clerk' = Disturbed(c, l)
          /\ UNCHANGED <<present, entries, now, overlapped>>
      BY <1>6, <2>2 DEF WriteOwn
    <3>2. /\ w \in Seq(Fact) /\ Len(w) = Len(f) + 1 /\ DOMAIN w = 1..Len(f) + 1
          /\ w[Len(f) + 1] = [at |-> k.at, until |-> Unclosed, desc |-> k.desc]
          /\ \A i \in 1..Len(f) : w[i].desc = f[i].desc
      <4>1. f \in Seq(Fact) BY <1>0, <2>1
      <4> HIDE DEF f, k
      <4> QED BY <2>1, <4>1, WrittenFields DEF Wrote
    <3>3. l \in ClerkShape /\ l.pc = "seekEntry" /\ l.db = k.db /\ l.desc = k.desc
      BY <1>0 DEF ClerkShape, ClerkPC
    <3> HIDE DEF l, w
    <3>4. /\ clerk' \in [Clerks -> ClerkShape] /\ clerk'[c] = l
          /\ \A b \in Clerks \ {c} : /\ clerk'[b].pc = clerk[b].pc /\ clerk'[b].db = clerk[b].db
                                     /\ clerk'[b].desc = clerk[b].desc
                                     /\ clerk'[b].found = clerk[b].found
      BY <1>0, <3>1, <3>3, OthersStand
    <3>5. /\ own' \in [Databases -> Seq(Fact)] /\ said' \in [Databases -> SUBSET Desc]
          /\ own'[k.db] = w /\ said'[k.db] = said[k.db] \cup {k.desc}
          /\ \A d \in Databases : said[d] \subseteq said'[d] /\ (d # k.db => own'[d] = own[d])
      BY <1>0, <2>1, <3>1, <3>2
    <3>6. RegistryTypes' BY <1>0, <3>1, <3>4, <3>5 DEF RegistryInv, RegistryTypes
    <3>7. AtWork'
      <4>1. \A b \in Clerks : clerk[b].pc = "writeOwn" => clerk[b].found \in 0..Len(own'[clerk[b].db])
        <5>1. \A d \in Databases : Len(own[d]) \in Nat /\ Len(own'[d]) \in Nat
                                   /\ Len(own[d]) <= Len(own'[d])
          <6>1. \A d \in Databases : Len(own[d]) \in Nat BY <1>0
          <6>2. Len(own'[k.db]) = Len(own[k.db]) + 1 BY <3>2, <3>5
          <6> QED BY <2>1, <3>5, <6>1, <6>2
        <5> QED BY <5>1 DEF AtWork, RegistryInv
      <4>2. \A b \in Clerks : /\ clerk[b].pc \notin {"idle", "next"} =>
                                   clerk[b].db \in Databases /\ clerk[b].desc \in Desc
                              /\ clerk[b].pc = "writeEntry" =>
                                   clerk[b].found \in 0..Len(entries[clerk[b].db])
        BY DEF AtWork, RegistryInv
      <4> QED BY <2>1, <3>1, <3>3, <3>4, <4>1, <4>2 DEF AtWork
    <3>8. SaidFirst'
      <4>1. ASSUME NEW d \in Databases, NEW i \in DOMAIN own'[d] PROVE own'[d][i].desc \in said'[d]
        <5>1. CASE d # k.db BY <3>5, <5>1 DEF SaidFirst, RegistryInv
        <5>2. CASE d = k.db
          <6>1. CASE i = Len(f) + 1 BY <3>2, <3>5, <5>2, <6>1
          <6>2. CASE i # Len(f) + 1
            <7>1. i \in 1..Len(f) BY <1>0, <2>1, <3>2, <3>5, <4>1, <5>2, <6>2
            <7>2. DOMAIN f = 1..Len(f) BY <1>0, <2>1
            <7>3. f[i].desc \in said[d] BY <5>2, <7>1, <7>2 DEF SaidFirst, RegistryInv
            <7> QED BY <3>2, <3>5, <5>2, <7>1, <7>3
          <6> QED BY <6>1, <6>2
        <5> QED BY <5>1, <5>2
      <4>2. ASSUME NEW b \in Clerks, clerk'[b].pc \in {"seekEntry", "writeEntry"}
            PROVE  clerk'[b].desc \in said'[clerk'[b].db]
        <5>1. CASE b = c BY <3>3, <3>4, <3>5, <5>1
        <5>2. CASE b # c
          <6>1. clerk[b].pc \in {"seekEntry", "writeEntry"} /\ clerk[b].db \in Databases
            BY <3>4, <4>2, <5>2 DEF AtWork, RegistryInv
          <6>2. clerk[b].desc \in said[clerk[b].db] BY <6>1 DEF SaidFirst, RegistryInv
          <6> QED BY <3>4, <3>5, <5>2, <6>1, <6>2
        <5> QED BY <5>1, <5>2
      <4>3. RecordWasSaid' BY <3>1, <3>5 DEF SaidFirst, RecordWasSaid, RegistryInv
      <4> QED BY <4>1, <4>2, <4>3 DEF SaidFirst
    <3> QED BY <3>6, <3>7, <3>8 DEF RegistryInv
  <2>3. CASE ~Writable(f, k.found)
    <3>1. Moves(c, NoClerk) /\ UNCHANGED <<own, entries, said, now, present, overlapped>>
      BY <1>6, <2>3 DEF WriteOwn, Ends
    <3> HIDE DEF Moves
    <3> QED BY <1>1, <3>1, ClerkTypes DEF RegistryInv, RegistryTypes
  <2> QED BY <2>2, <2>3
<1>7. ASSUME NEW c \in Clerks, SeekEntry(c) PROVE RegistryInv'
  <2>1. PICK i \in Found(entries[clerk[c].db], clerk[c].at) :
          clerk' = [clerk EXCEPT ![c].pc = "writeEntry", ![c].found = i]
    BY <1>7 DEF SeekEntry
  <2> DEFINE k == [clerk[c] EXCEPT !.pc = "writeEntry", !.found = i]
  <2>2. /\ clerk[c].db \in Databases /\ clerk[c].desc \in Desc
        /\ clerk[c].desc \in said[clerk[c].db]
    BY <1>7 DEF SeekEntry, AtWork, SaidFirst, RegistryInv
  <2>3. i \in 0..Len(entries[clerk[c].db]) BY <1>0, <2>1, <2>2, FoundIsThere
  <2>4. /\ k \in ClerkShape /\ k.pc = "writeEntry" /\ k.db = clerk[c].db /\ k.desc = clerk[c].desc
        /\ k.found = i
    <3>1. i \in Nat BY <2>3
    <3> QED BY <1>0, <3>1 DEF ClerkShape, ClerkPC
  <2>5. Moves(c, k) BY <1>0, <2>1
  <2>6. UNCHANGED <<own, entries, said, now, present, overlapped>> BY <1>7 DEF SeekEntry
  <2> HIDE DEF k, Moves
  <2> QED BY <1>0, <1>1, <2>2, <2>3, <2>4, <2>5, <2>6 DEF RegistryInv, RegistryTypes
<1>8. ASSUME NEW c \in Clerks, WriteEntry(c) PROVE RegistryInv'
  <2> DEFINE k == clerk[c]
             f == entries[k.db]
  <2>1. /\ k.db \in Databases /\ k.desc \in Desc /\ k.found \in 0..Len(f) /\ k.at \in 0..MaxNow
        /\ k.desc \in said[k.db]
    BY <1>0, <1>8 DEF WriteEntry, AtWork, SaidFirst, RegistryInv, ClerkShape
  <2>2. CASE Writable(f, k.found)
    <3> DEFINE w == Written(f, k.found, k.at, k.desc)
               l == IF k.reindex THEN [k EXCEPT !.pc = "next"] ELSE NoClerk
    <3>1. /\ entries' = [entries EXCEPT ![k.db] = w]
          /\ clerk' = Disturbed(c, l)
          /\ UNCHANGED <<present, own, said, now, overlapped>>
      BY <1>8, <2>2 DEF WriteEntry
    <3>2. /\ w \in Seq(Fact) /\ Len(w) = Len(f) + 1 /\ DOMAIN w = 1..Len(f) + 1
          /\ w[Len(f) + 1] = [at |-> k.at, until |-> Unclosed, desc |-> k.desc]
          /\ \A i \in 1..Len(f) : w[i].desc = f[i].desc
      <4>1. f \in Seq(Fact) BY <1>0, <2>1
      <4> HIDE DEF f, k
      <4> QED BY <2>1, <4>1, WrittenFields DEF Wrote
    <3>3. l \in ClerkShape /\ l.pc \in {"next", "idle"}
      <4>1. [k EXCEPT !.pc = "next"] \in ClerkShape BY <1>0 DEF ClerkShape, ClerkPC
      <4> QED BY <1>0, <4>1, ClerkTypes DEF ClerkShape
    <3> HIDE DEF l, w
    <3>4. /\ clerk' \in [Clerks -> ClerkShape] /\ clerk'[c] = l
          /\ \A b \in Clerks \ {c} : /\ clerk'[b].pc = clerk[b].pc /\ clerk'[b].db = clerk[b].db
                                     /\ clerk'[b].desc = clerk[b].desc
                                     /\ clerk'[b].found = clerk[b].found
      BY <1>0, <3>1, <3>3, OthersStand
    <3>5. /\ entries' \in [Databases -> Seq(Fact)] /\ entries'[k.db] = w
          /\ \A d \in Databases : d # k.db => entries'[d] = entries[d]
      BY <1>0, <2>1, <3>1, <3>2
    <3>6. RegistryTypes' BY <1>0, <3>1, <3>4, <3>5 DEF RegistryInv, RegistryTypes
    <3>7. AtWork'
      <4>1. \A b \in Clerks : clerk[b].pc = "writeEntry"
                                => clerk[b].found \in 0..Len(entries'[clerk[b].db])
        <5>1. \A d \in Databases : Len(entries[d]) \in Nat /\ Len(entries'[d]) \in Nat
                                   /\ Len(entries[d]) <= Len(entries'[d])
          <6>1. \A d \in Databases : Len(entries[d]) \in Nat BY <1>0
          <6>2. Len(entries'[k.db]) = Len(entries[k.db]) + 1 BY <3>2, <3>5
          <6> QED BY <2>1, <3>5, <6>1, <6>2
        <5> QED BY <5>1 DEF AtWork, RegistryInv
      <4>2. \A b \in Clerks : /\ clerk[b].pc \notin {"idle", "next"} =>
                                   clerk[b].db \in Databases /\ clerk[b].desc \in Desc
                              /\ clerk[b].pc = "writeOwn" =>
                                   clerk[b].found \in 0..Len(own[clerk[b].db])
        BY DEF AtWork, RegistryInv
      <4> QED BY <3>1, <3>3, <3>4, <4>1, <4>2 DEF AtWork
    <3>8. SaidFirst'
      <4>1. ASSUME NEW d \in Databases, NEW i \in DOMAIN entries'[d]
            PROVE  entries'[d][i].desc \in said'[d]
        <5>1. CASE d # k.db BY <3>1, <3>5, <5>1 DEF SaidFirst, RecordWasSaid, RegistryInv
        <5>2. CASE d = k.db
          <6>1. CASE i = Len(f) + 1 BY <2>1, <3>1, <3>2, <3>5, <5>2, <6>1
          <6>2. CASE i # Len(f) + 1
            <7>1. i \in 1..Len(f) BY <1>0, <2>1, <3>2, <3>5, <4>1, <5>2, <6>2
            <7>2. DOMAIN f = 1..Len(f) BY <1>0, <2>1
            <7>3. f[i].desc \in said[d] BY <5>2, <7>1, <7>2 DEF SaidFirst, RecordWasSaid, RegistryInv
            <7> QED BY <3>1, <3>2, <3>5, <5>2, <7>1, <7>3
          <6> QED BY <6>1, <6>2
        <5> QED BY <5>1, <5>2
      <4>2. ASSUME NEW b \in Clerks, clerk'[b].pc \in {"seekEntry", "writeEntry"}
            PROVE  clerk'[b].desc \in said'[clerk'[b].db]
        <5>1. b # c BY <3>3, <3>4, <4>2
        <5> QED BY <3>1, <3>4, <4>2, <5>1 DEF SaidFirst, RegistryInv
      <4>3. \A d \in Databases : \A i \in DOMAIN own'[d] : own'[d][i].desc \in said'[d]
        BY <3>1 DEF SaidFirst, RegistryInv
      <4> QED BY <4>1, <4>2, <4>3 DEF SaidFirst, RecordWasSaid
    <3> QED BY <3>6, <3>7, <3>8 DEF RegistryInv
  <2>3. CASE ~Writable(f, k.found)
    <3>1. Moves(c, NoClerk) /\ UNCHANGED <<own, entries, said, now, present, overlapped>>
      BY <1>8, <2>3 DEF WriteEntry, Ends
    <3> HIDE DEF Moves
    <3> QED BY <1>1, <3>1, ClerkTypes DEF RegistryInv, RegistryTypes
  <2> QED BY <2>2, <2>3
<1>9. ASSUME NEW c \in Clerks, GivesUp(c) \/ Reindexed(c) PROVE RegistryInv'
  <2>1. Moves(c, NoClerk) /\ UNCHANGED <<own, entries, said, now, present, overlapped>>
    BY <1>9 DEF GivesUp, Reindexed, Ends
  <2> HIDE DEF Moves
  <2> QED BY <1>1, <2>1, ClerkTypes DEF RegistryInv, RegistryTypes
<1>10. ASSUME NEW c \in Clerks, NEW d \in Databases, ReadOwn(c, d) PROVE RegistryInv'
  <2> DEFINE k == [clerk[c] EXCEPT !.todo = @ \ {d}, !.db = d]
  <2>1. PICK i \in Found(own[d], k.at) :
          clerk' = [clerk EXCEPT ![c] = IF i = 0 THEN k
                                        ELSE [k EXCEPT !.pc = "seekEntry", !.desc = own[d][i].desc]]
    BY <1>10 DEF ReadOwn
  <2>2. k \in ClerkShape /\ k.db = d /\ k.pc = "next" BY <1>0, <1>10 DEF ReadOwn, ClerkShape
  <2>3. i \in 0..Len(own[d]) BY <1>0, <2>1, FoundIsThere
  <2>4. UNCHANGED <<own, entries, said, now, present, overlapped>> BY <1>10 DEF ReadOwn
  <2> HIDE DEF k
  <2>5. CASE i = 0
    <3>1. Moves(c, k) BY <2>1, <2>5
    <3> HIDE DEF Moves
    <3> QED BY <1>1, <2>2, <2>4, <3>1 DEF RegistryInv, RegistryTypes
  <2>6. CASE i # 0
    <3> DEFINE l == [k EXCEPT !.pc = "seekEntry", !.desc = own[d][i].desc]
    <3>1. own[d][i] \in Fact /\ i \in DOMAIN own[d] BY <1>0, <2>3, <2>6
    <3>2. own[d][i].desc \in Desc /\ own[d][i].desc \in said[d]
      BY <3>1 DEF Fact, SaidFirst, RegistryInv
    <3>3. l \in ClerkShape /\ l.pc = "seekEntry" /\ l.db = d /\ l.desc = own[d][i].desc
      BY <2>2, <3>2 DEF ClerkShape, ClerkPC
    <3>4. Moves(c, l) BY <2>1, <2>6
    <3> HIDE DEF Moves, l
    <3> QED BY <1>1, <2>4, <3>2, <3>3, <3>4 DEF RegistryInv, RegistryTypes
  <2> QED BY <2>5, <2>6
<1>11. ASSUME NEW c \in Clerks, NEW d \in Databases, MeetsBusy(c, d) PROVE RegistryInv'
  <2> DEFINE k == [clerk[c] EXCEPT !.todo = @ \ {d}, !.missed = @ \cup {d}]
  <2>1. k \in ClerkShape /\ k.pc = "next" BY <1>0, <1>11 DEF MeetsBusy, ClerkShape
  <2>2. Moves(c, k) /\ UNCHANGED <<own, entries, said, now, present, overlapped>>
    BY <1>0, <1>11 DEF MeetsBusy
  <2> HIDE DEF k, Moves
  <2> QED BY <1>1, <2>1, <2>2 DEF RegistryInv, RegistryTypes
<1>12. CASE Later
  BY <1>12 DEF Later, RegistryInv, RegistryTypes, AtWork, SaidFirst, RecordWasSaid
<1>13. CASE LoseRegistry
  <2>1. /\ entries' = [d \in Databases |-> <<>>] /\ \A c \in Clerks : clerk[c].pc = "idle"
        /\ UNCHANGED <<present, own, clerk, now, said, overlapped>>
    BY <1>13 DEF LoseRegistry, AllIdle
  <2>2. RegistryTypes' BY <2>1 DEF RegistryInv, RegistryTypes
  <2> QED BY <2>1, <2>2 DEF RegistryInv, AtWork, SaidFirst, RecordWasSaid
<1>14. ASSUME NEW d \in Databases, RemoveDatabase(d) PROVE RegistryInv'
  <2>1. /\ own' = [own EXCEPT ![d] = <<>>] /\ present' = present \ {d}
        /\ \A c \in Clerks : clerk[c].pc = "idle"
        /\ UNCHANGED <<entries, clerk, now, said, overlapped>>
    BY <1>14 DEF RemoveDatabase, AllIdle
  <2>2. RegistryTypes' BY <2>1 DEF RegistryInv, RegistryTypes
  <2>3. AtWork' BY <2>1 DEF AtWork
  <2>4. \A e \in Databases : \A i \in DOMAIN own'[e] : own'[e][i].desc \in said'[e]
    BY <1>0, <2>1 DEF SaidFirst, RegistryInv
  <2> QED BY <2>1, <2>2, <2>3, <2>4 DEF RegistryInv, SaidFirst, RecordWasSaid
<1>15. CASE UNCHANGED registryVars
  BY <1>15 DEF registryVars, RegistryInv, RegistryTypes, AtWork, SaidFirst, RecordWasSaid
<1> QED BY <1>2, <1>3, <1>4, <1>5, <1>6, <1>7, <1>8, <1>9, <1>10, <1>11, <1>12, <1>13, <1>14, <1>15
        DEF RegistryNext, Starts, Proceed

\* The types, and where each call stands.
THEOREM RegistryHolds == RegistrySpec => []RegistryInv
<1>1. RegistryInit => RegistryInv
  <2> SUFFICES ASSUME RegistryInit PROVE RegistryInv OBVIOUS
  <2>1. \A c \in Clerks : clerk[c] \in ClerkShape /\ clerk[c].pc = "idle"
    BY ClerkTypes DEF RegistryInit
  <2>2. RegistryTypes
    <3>1. clerk \in [Clerks -> ClerkShape] BY ClerkTypes DEF RegistryInit
    <3>2. 0 \in 0..MaxNow BY RegistryAssumption
    <3>3. own \in [Databases -> Seq(Fact)] /\ entries \in [Databases -> Seq(Fact)]
      <4>1. <<>> \in Seq(Fact) OBVIOUS
      <4> QED BY <4>1 DEF RegistryInit
    <3> QED BY <3>1, <3>2, <3>3 DEF RegistryInit, RegistryTypes
  <2> QED BY <2>1, <2>2 DEF RegistryInit, RegistryInv, AtWork, SaidFirst, RecordWasSaid
<1> QED BY <1>1, RegistryStep, PTL DEF RegistrySpec

\* The registry says of a database nothing that the database has not said of itself
\* first, however calls overlap or fail, and whatever the clock does.
THEOREM RecordsWereSaid == RegistrySpec => []RecordWasSaid
<1>1. RegistryInv => RecordWasSaid BY DEF RegistryInv, SaidFirst
<1> QED BY <1>1, RegistryHolds, PTL

-----------------------------------------------------------------------------
(* One call at a time.                                                     *)

\* Nothing is current or late in a database without a fact.
LEMMA NothingInEmpty ==
  Live(<<>>) = {} /\ Once(<<>>) /\ \A t : Past(<<>>, t)
BY DEF Live, Once, Past

\* While no two calls overlap, every step keeps one description each.
LEMMA OneByOneStep ==
  ASSUME Regular, RegistryInv, RegistryInv', OneByOne, [RegistryNext]_registryVars
  PROVE  OneByOne'
<1> SUFFICES ASSUME ~overlapped' PROVE OneByOne' BY DEF OneByOne
<1>0. /\ clerk \in [Clerks -> ClerkShape] /\ own \in [Databases -> Seq(Fact)]
      /\ entries \in [Databases -> Seq(Fact)] /\ now \in 0..MaxNow
      /\ present \in SUBSET Databases /\ MaxNow \in Nat
      /\ \A c \in Clerks : clerk[c] \in ClerkShape
  BY RegistryAssumption DEF RegistryInv, RegistryTypes
<1>1. ~overlapped
  BY DEF RegistryNext, registryVars, Starts, Proceed, Describe, Archive, Reindex, Begins, SeekOwn,
         WriteOwn, SeekEntry, WriteEntry, GivesUp, ReadOwn, MeetsBusy, Reindexed, Later,
         LoseRegistry, RemoveDatabase
<1>2. /\ \A b, c \in Clerks : clerk[b].pc # "idle" /\ clerk[c].pc # "idle" => b = c
      /\ \A d \in Databases : /\ Once(own[d]) /\ Past(own[d], now)
                              /\ Once(entries[d]) /\ Past(entries[d], now)
      /\ \A c \in Clerks : Fits(clerk[c])
  BY <1>1 DEF OneByOne
<1>3. ASSUME NEW c \in Clerks, \A b \in Clerks \ {c} : clerk'[b].pc = "idle",
             \A d \in Databases : /\ Once(own'[d]) /\ Past(own'[d], now')
                                  /\ Once(entries'[d]) /\ Past(entries'[d], now'),
             Fits(clerk[c])'
      PROVE  OneByOne'
  BY <1>3 DEF OneByOne, Fits
\* A step of the only clerk that writes nothing.
<1>4. ASSUME NEW c \in Clerks, NEW k, clerk' = [clerk EXCEPT ![c] = k],
             \A b \in Clerks \ {c} : clerk[b].pc = "idle", UNCHANGED <<own, entries, now>>,
             Fits(clerk[c])'
      PROVE  OneByOne'
  <2>1. \A b \in Clerks \ {c} : clerk'[b].pc = "idle" BY <1>0, <1>4
  <2> QED BY <1>2, <1>3, <1>4, <2>1
<1>5. \A c \in Clerks : clerk[c].pc # "idle" => \A b \in Clerks \ {c} : clerk[b].pc = "idle"
  BY <1>2
<1>6. ASSUME NEW c \in Clerks, clerk' = [clerk EXCEPT ![c] = NoClerk],
             \A b \in Clerks \ {c} : clerk[b].pc = "idle", UNCHANGED <<own, entries, now>>
      PROVE  OneByOne'
  <2>1. clerk'[c].pc = "idle" BY <1>0, <1>6, ClerkTypes
  <2> QED BY <1>4, <1>6, <2>1 DEF Fits
\* Beginning: all are idle.
<1>7. ASSUME NEW c \in Clerks, NEW k, Begins(c, k)
      PROVE  /\ \A b \in Clerks : clerk[b].pc = "idle"
             /\ clerk' = [clerk EXCEPT ![c] = k] /\ clerk'[c] = k
  BY <1>0, <1>7 DEF Begins
<1>8. ASSUME NEW c \in Clerks, NEW d \in Databases,
             Archive(c, d) \/ \E t \in Texts : Describe(c, d, [text |-> t, archived |-> FALSE])
      PROVE  OneByOne'
  <2>1. PICK desc : Begins(c, [NoClerk EXCEPT !.pc = "seekOwn", !.db = d, !.desc = desc, !.at = now])
    <3>1. CASE Archive(c, d)
      <4>1. PICK i : Begins(c, [NoClerk EXCEPT !.pc = "seekOwn", !.db = d, !.at = now,
                                !.desc = [entries[d][i].desc EXCEPT !.archived = TRUE]])
        BY <3>1 DEF Archive
      <4>2. \A x : [NoClerk EXCEPT !.pc = "seekOwn", !.db = d, !.at = now, !.desc = x]
                     = [NoClerk EXCEPT !.pc = "seekOwn", !.db = d, !.desc = x, !.at = now]
        BY DEF NoClerk
      <4> QED BY <4>1, <4>2
    <3> QED BY <1>8, <3>1 DEF Describe
  <2> DEFINE k == [NoClerk EXCEPT !.pc = "seekOwn", !.db = d, !.desc = desc, !.at = now]
  <2>2. k.pc = "seekOwn" /\ k.at = now /\ k.reindex = FALSE BY DEF NoClerk
  <2>3. UNCHANGED <<own, entries, now>> BY <1>8 DEF Archive, Describe
  <2> HIDE DEF k
  <2>4. \A b \in Clerks : clerk[b].pc = "idle" BY <1>7, <2>1 DEF k
  <2>5. clerk' = [clerk EXCEPT ![c] = k] /\ clerk'[c] = k BY <1>7, <2>1 DEF k
  <2>6. Fits(clerk[c])' BY <1>0, <1>2, <2>2, <2>3, <2>5 DEF Fits
  <2> QED BY <1>4, <2>3, <2>4, <2>5, <2>6
<1>9. ASSUME NEW c \in Clerks, Reindex(c) PROVE OneByOne'
  <2> DEFINE k == [NoClerk EXCEPT !.pc = "next", !.reindex = TRUE, !.at = now, !.todo = present]
  <2>1. k.pc = "next" /\ k.at = now /\ k.reindex = TRUE /\ k.todo = present BY DEF NoClerk
  <2>2. Begins(c, k) /\ UNCHANGED <<own, entries, now, present>> BY <1>9 DEF Reindex
  <2> HIDE DEF k
  <2>3. \A b \in Clerks : clerk[b].pc = "idle" BY <1>7, <2>2
  <2>4. clerk' = [clerk EXCEPT ![c] = k] /\ clerk'[c] = k BY <1>7, <2>2
  <2>5. Fits(clerk[c])' BY <1>0, <1>2, <2>1, <2>2, <2>4 DEF Fits, Settling
  <2> QED BY <1>4, <2>2, <2>3, <2>4, <2>5
\* The only clerk is on its way.
<1>10. ASSUME NEW c \in Clerks, clerk[c].pc # "idle"
       PROVE  /\ \A b \in Clerks \ {c} : clerk[b].pc = "idle"
              /\ clerk[c].at \in 0..MaxNow /\ clerk[c].at <= now /\ clerk[c].reindex \in BOOLEAN
              /\ clerk[c].todo \subseteq Databases /\ clerk[c].missed \subseteq Databases
              /\ \A d \in Databases : Past(own[d], clerk[c].at) /\ Past(entries[d], clerk[c].at)
              /\ clerk[c].reindex => Settling(clerk[c])
              /\ clerk[c].pc = "next" => clerk[c].reindex
  BY <1>0, <1>2, <1>5, <1>10 DEF Fits, ClerkShape
<1>11. ASSUME NEW c \in Clerks, SeekOwn(c) PROVE OneByOne'
  <2>1. PICK i \in Found(own[clerk[c].db], clerk[c].at) :
          clerk' = [clerk EXCEPT ![c].pc = "writeOwn", ![c].found = i]
    BY <1>11 DEF SeekOwn
  <2>2. clerk[c].db \in Databases /\ clerk[c].pc = "seekOwn"
        /\ UNCHANGED <<own, entries, now, present>>
    BY <1>11 DEF SeekOwn, AtWork, RegistryInv
  <2> DEFINE k == [clerk[c] EXCEPT !.pc = "writeOwn", !.found = i]
  <2>3. /\ k.pc = "writeOwn" /\ k.db = clerk[c].db /\ k.found = i /\ k.at = clerk[c].at
        /\ k.reindex = clerk[c].reindex
    BY <1>0 DEF ClerkShape
  <2>4. clerk' = [clerk EXCEPT ![c] = k] /\ clerk'[c] = k BY <1>0, <2>1
  <2> HIDE DEF k
  <2>5. ~clerk[c].reindex BY <1>10, <2>2 DEF Settling
  <2>6. Aim(own[clerk[c].db], i)
    BY <1>0, <1>10, <2>1, <2>2, FoundIsAimed DEF Regular
  <2>7. Fits(clerk[c])' BY <1>10, <2>2, <2>3, <2>4, <2>5, <2>6 DEF Fits, Aim
  <2> QED BY <1>4, <1>10, <2>2, <2>4, <2>7
<1>12. ASSUME NEW c \in Clerks, WriteOwn(c) PROVE OneByOne'
  <2> DEFINE k == clerk[c]
             f == own[k.db]
  <2>1. /\ k.db \in Databases /\ k.desc \in Desc /\ k.found \in 0..Len(f) /\ k.pc = "writeOwn"
        /\ k \in ClerkShape
    BY <1>0, <1>12 DEF WriteOwn, AtWork, RegistryInv
  <2>2. ~k.reindex /\ Aim(f, k.found) BY <1>2, <1>10, <2>1 DEF Settling, Fits
  <2>3. CASE Writable(f, k.found)
    <3> DEFINE w == Written(f, k.found, k.at, k.desc)
               l == [k EXCEPT !.pc = "seekEntry"]
    <3>1. /\ own' = [own EXCEPT ![k.db] = w] /\ clerk' = Disturbed(c, l)
          /\ UNCHANGED <<present, entries, now>>
      BY <1>12, <2>3 DEF WriteOwn
    <3>2. l \in ClerkShape /\ l.pc = "seekEntry" /\ l.at = k.at /\ l.reindex = k.reindex
      BY <1>0 DEF ClerkShape, ClerkPC
    <3>3. w \in Seq(Fact) /\ Once(w) /\ Past(w, k.at)
      <4>1. f \in Seq(Fact) /\ Once(f) /\ Past(f, k.at) /\ k.at \in 0..MaxNow
        BY <1>0, <1>2, <1>10, <2>1
      <4> HIDE DEF f, k
      <4>2. w \in Seq(Fact) BY <2>1, <4>1, WrittenFields DEF Wrote
      <4>3. Once(w) /\ Past(w, k.at) BY <2>1, <2>2, <4>1, WrittenOnce
      <4> QED BY <4>2, <4>3
    <3> HIDE DEF w, l
    <3>4. clerk'[c] = l /\ \A b \in Clerks \ {c} : clerk'[b].pc = clerk[b].pc
      BY <1>0, <3>1, <3>2, OthersStand
    <3>5. own'[k.db] = w /\ \A d \in Databases : d # k.db => own'[d] = own[d]
      BY <1>0, <2>1, <3>1
    <3>6. Past(w, now) BY <1>0, <1>10, <2>1, <3>3, PastLater
    <3>7. \A d \in Databases : /\ Once(own'[d]) /\ Past(own'[d], now') /\ Past(own'[d], k.at)
                               /\ Once(entries'[d]) /\ Past(entries'[d], now')
                               /\ Past(entries'[d], k.at)
      BY <1>2, <1>10, <2>1, <3>1, <3>3, <3>5, <3>6
    <3>8. Fits(clerk[c])' BY <1>10, <2>1, <2>2, <3>1, <3>2, <3>4, <3>7 DEF Fits
    <3> QED BY <1>3, <1>10, <2>1, <3>4, <3>7, <3>8
  <2>4. CASE ~Writable(f, k.found)
    BY <1>6, <1>10, <1>12, <2>1, <2>4 DEF WriteOwn, Ends
  <2> QED BY <2>3, <2>4
<1>13. ASSUME NEW c \in Clerks, SeekEntry(c) PROVE OneByOne'
  <2>1. PICK i \in Found(entries[clerk[c].db], clerk[c].at) :
          clerk' = [clerk EXCEPT ![c].pc = "writeEntry", ![c].found = i]
    BY <1>13 DEF SeekEntry
  <2>2. clerk[c].db \in Databases /\ clerk[c].pc = "seekEntry"
        /\ UNCHANGED <<own, entries, now, present>>
    BY <1>13 DEF SeekEntry, AtWork, RegistryInv
  <2> DEFINE k == [clerk[c] EXCEPT !.pc = "writeEntry", !.found = i]
  <2>3. /\ k.pc = "writeEntry" /\ k.db = clerk[c].db /\ k.found = i /\ k.at = clerk[c].at
        /\ k.reindex = clerk[c].reindex /\ k.todo = clerk[c].todo /\ k.missed = clerk[c].missed
        /\ k.desc = clerk[c].desc
    BY <1>0 DEF ClerkShape
  <2>4. clerk' = [clerk EXCEPT ![c] = k] /\ clerk'[c] = k BY <1>0, <2>1
  <2> HIDE DEF k
  <2>5. Aim(entries[clerk[c].db], i)
    BY <1>0, <1>10, <2>1, <2>2, FoundIsAimed DEF Regular
  <2>6. clerk[c].reindex => Settling(clerk[c])'
    BY <1>10, <2>2, <2>3, <2>4 DEF Settling, Agrees
  <2>7. Fits(clerk[c])' BY <1>10, <2>2, <2>3, <2>4, <2>5, <2>6 DEF Fits, Aim
  <2> QED BY <1>4, <1>10, <2>2, <2>4, <2>7
<1>14. ASSUME NEW c \in Clerks, WriteEntry(c) PROVE OneByOne'
  <2> DEFINE k == clerk[c]
             f == entries[k.db]
  <2>1. /\ k.db \in Databases /\ k.desc \in Desc /\ k.found \in 0..Len(f) /\ k.pc = "writeEntry"
        /\ k \in ClerkShape
    BY <1>0, <1>14 DEF WriteEntry, AtWork, RegistryInv
  <2>2. Aim(f, k.found) BY <1>2, <2>1 DEF Fits
  <2>3. CASE Writable(f, k.found)
    <3> DEFINE w == Written(f, k.found, k.at, k.desc)
               m == [k EXCEPT !.pc = "next"]
               l == IF k.reindex THEN m ELSE NoClerk
    <3>1. /\ entries' = [entries EXCEPT ![k.db] = w] /\ clerk' = Disturbed(c, l)
          /\ UNCHANGED <<present, own, now>>
      BY <1>14, <2>3 DEF WriteEntry
    <3>2. /\ m \in ClerkShape /\ m.pc = "next" /\ m.at = k.at /\ m.reindex = k.reindex
          /\ m.todo = k.todo /\ m.missed = k.missed
      BY <1>0 DEF ClerkShape, ClerkPC
    <3>3. /\ w \in Seq(Fact) /\ Once(w) /\ Past(w, k.at)
          /\ Len(f) + 1 \in Live(w) /\ w[Len(f) + 1].desc = k.desc
      <4>1. f \in Seq(Fact) /\ Once(f) /\ Past(f, k.at) /\ k.at \in 0..MaxNow
        BY <1>0, <1>2, <1>10, <2>1
      <4> HIDE DEF f, k
      <4>2. w \in Seq(Fact) BY <2>1, <4>1, WrittenFields DEF Wrote
      <4>3. Once(w) /\ Past(w, k.at) /\ Live(w) = {Len(f) + 1} /\ w[Len(f) + 1].desc = k.desc
        BY <2>1, <2>2, <4>1, WrittenOnce
      <4> QED BY <4>2, <4>3
    <3> HIDE DEF w, m
    <3>4. l \in ClerkShape BY <3>2, ClerkTypes
    <3>5. l = IF k.reindex THEN m ELSE NoClerk OBVIOUS
    <3> HIDE DEF l
    <3>6. clerk'[c] = l /\ \A b \in Clerks \ {c} : clerk'[b].pc = clerk[b].pc
      BY <1>0, <3>1, <3>4, OthersStand
    <3>7. entries'[k.db] = w /\ \A d \in Databases : d # k.db => entries'[d] = entries[d]
      BY <1>0, <2>1, <3>1
    <3>8. Past(w, now) BY <1>0, <1>10, <2>1, <3>3, PastLater
    <3>9. \A d \in Databases : /\ Once(own'[d]) /\ Past(own'[d], now') /\ Past(own'[d], k.at)
                               /\ Once(entries'[d]) /\ Past(entries'[d], now')
                               /\ Past(entries'[d], k.at)
      BY <1>2, <1>10, <2>1, <3>1, <3>3, <3>7, <3>8
    <3>10. Fits(clerk[c])'
      <4>1. CASE ~k.reindex BY <3>5, <3>6, <4>1, ClerkTypes DEF Fits
      <4>2. CASE k.reindex
        <5>1. Settling(k) BY <1>10, <2>1, <4>2
        <5>2. clerk'[c] = m BY <3>5, <3>6, <4>2
        <5>3. ASSUME NEW d \in present \ (k.todo \cup k.missed) PROVE Agrees(d)'
          <6>1. d \in Databases BY <1>0
          <6>2. CASE d = k.db BY <2>1, <3>1, <3>3, <3>7, <5>1, <6>2 DEF Settling, Agrees
          <6>3. CASE d # k.db BY <3>1, <3>7, <5>1, <6>1, <6>3 DEF Settling, Agrees
          <6> QED BY <6>2, <6>3
        <5>4. Settling(clerk[c])' BY <3>1, <3>2, <5>2, <5>3 DEF Settling
        <5> QED BY <1>10, <2>1, <3>1, <3>2, <3>9, <4>2, <5>2, <5>4 DEF Fits
      <4> QED BY <4>1, <4>2
    <3> QED BY <1>3, <1>10, <2>1, <3>6, <3>9, <3>10
  <2>4. CASE ~Writable(f, k.found)
    BY <1>6, <1>10, <1>14, <2>1, <2>4 DEF WriteEntry, Ends
  <2> QED BY <2>3, <2>4
<1>15. ASSUME NEW c \in Clerks, GivesUp(c) \/ Reindexed(c) PROVE OneByOne'
  BY <1>6, <1>10, <1>15 DEF GivesUp, Reindexed, Ends
<1>16. ASSUME NEW c \in Clerks, NEW d \in Databases, ReadOwn(c, d) PROVE OneByOne'
  <2> DEFINE k == [clerk[c] EXCEPT !.todo = @ \ {d}, !.db = d]
  <2>1. PICK i \in Found(own[d], k.at) :
          clerk' = [clerk EXCEPT ![c] = IF i = 0 THEN k
                                        ELSE [k EXCEPT !.pc = "seekEntry", !.desc = own[d][i].desc]]
    BY <1>16 DEF ReadOwn
  <2>2. clerk[c].pc = "next" /\ UNCHANGED <<own, entries, now, present>> BY <1>16 DEF ReadOwn
  <2>3. /\ k \in ClerkShape /\ k.pc = "next" /\ k.db = d /\ k.at = clerk[c].at
        /\ k.reindex = clerk[c].reindex /\ k.todo = clerk[c].todo \ {d}
        /\ k.missed = clerk[c].missed
    BY <1>0, <2>2 DEF ClerkShape
  <2> HIDE DEF k
  <2>4. /\ clerk[c].reindex /\ Settling(clerk[c]) BY <1>10, <2>2
  <2>5. \A e \in present \ (clerk[c].todo \cup clerk[c].missed) : Agrees(e)
    BY <2>2, <2>4 DEF Settling
  <2>6. Aim(own[d], i) BY <1>0, <1>10, <2>1, <2>2, <2>3, FoundIsAimed DEF Regular
  <2>7. CASE i = 0
    <3>1. clerk' = [clerk EXCEPT ![c] = k] /\ clerk'[c] = k BY <1>0, <2>1, <2>7
    <3>2. Agrees(d) BY <2>6, <2>7 DEF Aim, Agrees
    <3>3. \A e \in present \ (k.todo \cup k.missed) : Agrees(e)' BY <2>2, <2>3, <2>5, <3>2 DEF Agrees
    <3>4. Settling(clerk[c])' BY <2>2, <2>3, <3>1, <3>3 DEF Settling
    <3>5. Fits(clerk[c])' BY <1>10, <2>2, <2>3, <3>1, <3>4 DEF Fits
    <3> QED BY <1>4, <1>10, <2>2, <3>1, <3>5
  <2>8. CASE i # 0
    <3> DEFINE l == [k EXCEPT !.pc = "seekEntry", !.desc = own[d][i].desc]
    <3>1. /\ l.pc = "seekEntry" /\ l.db = d /\ l.at = k.at /\ l.desc = own[d][i].desc
          /\ l.reindex = k.reindex /\ l.todo = k.todo /\ l.missed = k.missed
      BY <2>3 DEF ClerkShape
    <3>2. clerk' = [clerk EXCEPT ![c] = l] /\ clerk'[c] = l BY <1>0, <2>1, <2>8
    <3> HIDE DEF l
    <3>3. \A e \in present \ (l.todo \cup l.missed) : Agrees(e)' \/ e = d
      BY <2>2, <2>3, <2>5, <3>1 DEF Agrees
    <3>4. \A j \in Live(own[d]) : own[d][j].desc = l.desc BY <1>2, <2>6, <2>8, <3>1 DEF Aim, Once
    <3>5. Settling(clerk[c])' BY <2>2, <3>1, <3>2, <3>3, <3>4 DEF Settling
    <3>6. Fits(clerk[c])' BY <1>10, <2>2, <2>3, <3>1, <3>2, <3>5 DEF Fits
    <3> QED BY <1>4, <1>10, <2>2, <3>2, <3>6
  <2> QED BY <2>7, <2>8
<1>17. ASSUME NEW c \in Clerks, NEW d \in Databases, MeetsBusy(c, d) PROVE OneByOne'
  <2> DEFINE k == [clerk[c] EXCEPT !.todo = @ \ {d}, !.missed = @ \cup {d}]
  <2>1. clerk[c].pc = "next" /\ UNCHANGED <<own, entries, now, present>>
        /\ clerk' = [clerk EXCEPT ![c] = k] /\ clerk'[c] = k
    BY <1>0, <1>17 DEF MeetsBusy
  <2>2. /\ k.pc = "next" /\ k.at = clerk[c].at /\ k.reindex = clerk[c].reindex
        /\ k.todo = clerk[c].todo \ {d} /\ k.missed = clerk[c].missed \cup {d}
    BY <1>0, <2>1 DEF ClerkShape
  <2> HIDE DEF k
  <2>3. \A e \in present \ (clerk[c].todo \cup clerk[c].missed) : Agrees(e)
    BY <1>10, <2>1 DEF Settling
  <2>4. \A e \in present \ (k.todo \cup k.missed) : Agrees(e)' BY <2>1, <2>2, <2>3 DEF Agrees
  <2>5. Settling(clerk[c])' BY <2>1, <2>2, <2>4 DEF Settling
  <2>6. Fits(clerk[c])' BY <1>10, <2>1, <2>2, <2>5 DEF Fits
  <2> QED BY <1>4, <1>10, <2>1, <2>6
<1>18. CASE Later
  <2>1. /\ now' \in 0..MaxNow /\ now <= now'
        /\ UNCHANGED <<present, own, entries, clerk>>
    BY <1>0, <1>18 DEF Later, Regular
  <2>2. \A d \in Databases : Past(own[d], now') /\ Past(entries[d], now')
    BY <1>0, <1>2, <2>1, PastLater
  <2>3. \A c \in Clerks : Fits(clerk[c])'
    <3> SUFFICES ASSUME NEW c \in Clerks, clerk[c].pc # "idle" PROVE Fits(clerk[c])'
      BY <2>1 DEF Fits
    <3>1. clerk[c].at <= now' BY <1>0, <1>10, <2>1
    <3> QED BY <1>2, <2>1, <3>1 DEF Fits, Settling, Agrees
  <2> QED BY <1>2, <2>1, <2>2, <2>3 DEF OneByOne
<1>19. CASE LoseRegistry
  <2>1. /\ \A c \in Clerks : clerk[c].pc = "idle"
        /\ \A d \in Databases : entries'[d] = <<>>
        /\ UNCHANGED <<own, clerk, now>>
    BY <1>19 DEF LoseRegistry, AllIdle
  <2>2. \A d \in Databases : /\ Once(own'[d]) /\ Past(own'[d], now')
                             /\ Once(entries'[d]) /\ Past(entries'[d], now')
    BY <1>2, <2>1, NothingInEmpty
  <2>3. \A c \in Clerks : clerk'[c].pc = "idle" BY <2>1
  <2> QED BY <2>2, <2>3 DEF OneByOne, Fits
<1>20. ASSUME NEW d \in Databases, RemoveDatabase(d) PROVE OneByOne'
  <2>1. /\ \A c \in Clerks : clerk[c].pc = "idle"
        /\ own'[d] = <<>> /\ \A e \in Databases : e # d => own'[e] = own[e]
        /\ UNCHANGED <<entries, clerk, now>>
    BY <1>0, <1>20 DEF RemoveDatabase, AllIdle
  <2> QED BY <1>2, <2>1, NothingInEmpty DEF OneByOne, Fits
<1>21. CASE UNCHANGED registryVars
  BY <1>21 DEF registryVars, OneByOne, Fits, Settling, Agrees
<1> QED BY <1>8, <1>9, <1>11, <1>12, <1>13, <1>14, <1>15, <1>16, <1>17, <1>18, <1>19, <1>20, <1>21
        DEF RegistryNext, Starts, Proceed

\* Without overlapping calls, each database has one description and one record, whatever
\* failed in between; and the record was said.  With a text beyond the budget, or a
\* clock that goes back, the first is false.
THEOREM DescribedTruly ==
  ASSUME Regular
  PROVE  RegistrySpec => []DescriptionsTrue
<1>1. RegistryInit => OneByOne
  BY NothingInEmpty, ClerkTypes DEF RegistryInit, OneByOne, Fits
<1>2. RegistryInv /\ RegistryInv' /\ OneByOne /\ [RegistryNext]_registryVars => OneByOne'
  BY OneByOneStep
<1>3. RegistryInv /\ OneByOne => DescriptionsTrue
  BY DEF RegistryInv, SaidFirst, OneByOne, Once, DescriptionsTrue, DescribedOnce
<1> QED BY <1>1, <1>2, <1>3, RegistryHolds, PTL DEF RegistrySpec

\* After a reindex that nothing disturbed verify has nothing to report of a database
\* that it could open and that describes itself.
THEOREM ReindexingSettles ==
  ASSUME Regular
  PROVE  RegistrySpec => ReindexSettles
<1>1. ASSUME RegistryInv, OneByOne, [RegistryNext]_registryVars,
             NEW c \in Clerks, Reindexed(c), ~overlapped,
             NEW d \in present \ clerk[c].missed, 0 \notin Found(own[d], clerk[c].at)
      PROVE  VerifyReports(d, clerk[c].at) = {}
  <2> DEFINE at == clerk[c].at
  <2>1. /\ d \in Databases /\ own[d] \in Seq(Fact) /\ entries[d] \in Seq(Fact)
        /\ at \in 0..MaxNow /\ clerk[c].pc = "next" /\ clerk[c].todo = {}
    BY <1>1 DEF RegistryInv, RegistryTypes, ClerkShape, Reindexed
  <2>2. /\ Past(own[d], at) /\ Once(own[d]) /\ Once(entries[d]) /\ Settling(clerk[c])
    BY <1>1, <2>1 DEF OneByOne, Fits
  <2>3. Agrees(d) BY <1>1, <2>1, <2>2 DEF Settling
  <2> HIDE DEF at
  <2>4. Admitted(own[d], at) = Live(own[d]) BY <2>1, <2>2, AdmittedAreLive
  <2>5. Live(own[d]) # {} BY <1>1, <2>4 DEF Found, at
  <2>6. PICK i : Live(own[d]) = {i} BY <2>2, <2>5 DEF Once
  <2>7. PICK j \in Live(entries[d]) : entries[d][j].desc = own[d][i].desc BY <2>3, <2>6 DEF Agrees
  <2>8. Live(entries[d]) = {j} BY <2>2, <2>7 DEF Once
  <2>9. Found(own[d], at) = {i} /\ i # 0
    <3>1. Found(own[d], at) = {IF own[d][x].desc.text \in LongTexts THEN 0 ELSE x : x \in {i}}
      BY <2>4, <2>6 DEF Found
    <3>2. Found(own[d], at) = {i} BY <3>1 DEF Regular
    <3>3. i \in DOMAIN own[d] BY <2>6 DEF Live
    <3> QED BY <2>1, <3>2, <3>3
  <2>10. Cardinality(Admitted(own[d], at)) = 1 BY <2>4, <2>6, FS_Singleton
  <2> DEFINE record == entries[d][CHOOSE x \in Live(entries[d]) : \A y \in Live(entries[d]) : x <= y]
  <2>11. record = entries[d][j]
    <3>1. j \in Nat BY <2>1, <2>7 DEF Live
    <3>2. (CHOOSE x \in {j} : \A y \in {j} : x <= y) = j BY <3>1
    <3> QED BY <2>8, <3>2
  <2>12. own[d][i].desc = record.desc BY <2>7, <2>11
  <2> HIDE DEF record
  <2> DEFINE compared(x) == CASE x = 0 /\ Live(entries[d]) = {} -> {"Undescribed"}
                       [] x # 0 /\ Live(entries[d]) # {} /\ own[d][x].desc = record.desc -> {}
                       [] OTHER -> {"Stale"}
  <2>13. compared(i) = {} BY <2>8, <2>9, <2>12
  <2>14. UNION {compared(x) : x \in Found(own[d], at)} = {} BY <2>9, <2>13
  <2>15. VerifyReports(d, at) = UNION {compared(x) : x \in Found(own[d], at)}
                                 \cup IF Cardinality(Admitted(own[d], at)) > 1
                                      THEN {"AmbiguousSelf"} ELSE {}
    BY <1>1 DEF VerifyReports, record
  <2> QED BY <2>10, <2>14, <2>15 DEF at
<1>2. RegistryInv /\ OneByOne /\ [RegistryNext]_registryVars =>
        [\A c \in Clerks : Reindexed(c) /\ clerk[c].quiet /\ ~overlapped =>
           \A d \in present \ clerk[c].missed :
             0 \notin Found(own[d], clerk[c].at) => VerifyReports(d, clerk[c].at) = {}]_registryVars
  BY <1>1
<1>3. RegistryInit => OneByOne
  BY NothingInEmpty, ClerkTypes DEF RegistryInit, OneByOne, Fits
<1>4. RegistryInv /\ RegistryInv' /\ OneByOne /\ [RegistryNext]_registryVars => OneByOne'
  BY OneByOneStep
<1> QED BY <1>2, <1>3, <1>4, RegistryHolds, PTL DEF RegistrySpec, ReindexSettles
=============================================================================
