------------------------------ MODULE Registry ------------------------------
(***************************************************************************)
(* The registry of a workspace (plugmem-host/src/workspace/registry.rs): a *)
(* database of one fact per database, and beside it one fact in each       *)
(* database that describes it.  describe writes the two one after the      *)
(* other, each by a recall on an entity followed by a revise or a          *)
(* remember; archive reads the registry first; reindex derives the         *)
(* registry from the databases.  No step but a single read or write of a   *)
(* database is atomic.                                                     *)
(*                                                                         *)
(* A fact's id is its place in the sequence of the facts of its database   *)
(* that hang off the one entity.                                           *)
(***************************************************************************)
EXTENDS Naturals, Sequences, FiniteSets

CONSTANTS
  Databases,  \* the names
  Clerks,     \* threads that describe, archive or reindex
  Texts,      \* descriptions
  LongTexts,  \* those beyond the token budget of a recall (512 by default)
  MaxNow,     \* the clock
  MaxRecords, \* facts per database
  Mishaps     \* "clockBack", "overlap", "removed"

ASSUME RegistryAssumption == /\ LongTexts \subseteq Texts /\ MaxNow \in Nat
                             /\ MaxRecords \in Nat

VARIABLES
  present,    \* databases that have files
  own,        \* the facts on SELF_ENTITY in each database
  entries,    \* the registry's facts on the entity of each database's name
  clerk,      \* the calls under way
  now,        \* the hosts' clock
  said,       \* history: what each database has ever said of itself
  overlapped  \* history: two calls have been under way at once

registryVars == <<present, own, entries, clerk, now, said, overlapped>>

Unclosed == MaxNow + 1
Desc     == [text : Texts, archived : BOOLEAN]
Fact     == [at : 0..MaxNow, until : 0..Unclosed, desc : Desc]

\* todo: the databases a reindex has before it; missed: those it reported busy.
\* quiet: history, no other call has written since this one began.
ClerkPC == {"idle", "seekOwn", "writeOwn", "seekEntry", "writeEntry", "next"}
Clerk   == [pc : ClerkPC, db : Databases, desc : Desc, found : 0..MaxRecords,
            at : 0..MaxNow, reindex : BOOLEAN, todo : SUBSET Databases,
            missed : SUBSET Databases, quiet : BOOLEAN]
AnyDesc == CHOOSE d \in Desc : TRUE
NoClerk == [pc |-> "idle", db |-> CHOOSE d \in Databases : TRUE, desc |-> AnyDesc,
            found |-> 0, at |-> 0, reindex |-> FALSE, todo |-> {}, missed |-> {},
            quiet |-> TRUE]

-----------------------------------------------------------------------------
(* One database.                                                           *)

\* admit: facts valid at the caller's now, the closed revisions of a later day
\* included.
Admitted(facts, at) == {i \in DOMAIN facts : facts[i].at <= at /\ at < facts[i].until}

\* anchored_facts(..).first(), existing_record: 0 for none.  Selection stops at
\* the first hit the budget has no room for.  Which of several comes first hangs
\* on rank and recency.
Found(facts, at) ==
  LET hits == Admitted(facts, at)
  IN IF hits = {} THEN {0}
     ELSE {IF facts[i].desc.text \in LongTexts THEN 0 ELSE i : i \in hits}

\* A bug Written must not have: never a revision.
WrittenAnew(facts, found, at, desc) ==
  Append(facts, [at |-> at, until |-> Unclosed, desc |-> desc])

\* revise of what was found, or remember.
Written(facts, found, at, desc) ==
  Append(IF found = 0 THEN facts ELSE [facts EXCEPT ![found].until = at],
         [at |-> at, until |-> Unclosed, desc |-> desc])

\* revise refuses a fact that has been revised.
Writable(facts, found) == found = 0 \/ facts[found].until = Unclosed

Live(facts) == {i \in DOMAIN facts : facts[i].until = Unclosed}

\* Workspace::verify of a database it can read: what it reports of d at that time.
\* The record is the first of entries(), whatever its day.
VerifyReports(d, at) ==
  LET recorded == Live(entries[d])
      record   == entries[d][CHOOSE i \in recorded : \A j \in recorded : i <= j]
      compared(i) == CASE i = 0 /\ recorded = {}  -> {"Undescribed"}
                       [] i # 0 /\ recorded # {} /\ own[d][i].desc = record.desc -> {}
                       [] OTHER -> {"Stale"}
  IN IF d \notin present THEN IF recorded = {} THEN {} ELSE {"Missing"}
     ELSE UNION {compared(i) : i \in Found(own[d], at)}
          \cup IF Cardinality(Admitted(own[d], at)) > 1 THEN {"AmbiguousSelf"} ELSE {}

-----------------------------------------------------------------------------
Ends(c)         == [clerk EXCEPT ![c] = NoClerk]
Disturbed(c, k) == [d \in Clerks |-> IF d = c THEN k ELSE [clerk[d] EXCEPT !.quiet = FALSE]]

Begins(c, k) ==
  /\ clerk[c].pc = "idle"
  /\ \A d \in Clerks : clerk[d].pc # "idle" => "overlap" \in Mishaps
  /\ clerk' = [clerk EXCEPT ![c] = k]
  /\ overlapped' = (overlapped \/ \E d \in Clerks : clerk[d].pc # "idle")

\* get(.., Create) may make the database.
Describe(c, d, desc) ==
  /\ Begins(c, [NoClerk EXCEPT !.pc = "seekOwn", !.db = d, !.desc = desc, !.at = now])
  /\ present' = present \cup {d}
  /\ UNCHANGED <<own, entries, now, said>>

\* archive: the record of entries(), the first of several by id.
Archive(c, d) ==
  /\ \E i \in Live(entries[d]) :
       /\ \A j \in Live(entries[d]) : i <= j
       /\ ~entries[d][i].desc.archived
       /\ Begins(c, [NoClerk EXCEPT !.pc = "seekOwn", !.db = d, !.at = now,
                                    !.desc = [entries[d][i].desc EXCEPT !.archived = TRUE]])
  /\ present' = present \cup {d}
  /\ UNCHANGED <<own, entries, now, said>>

Reindex(c) ==
  /\ Begins(c, [NoClerk EXCEPT !.pc = "next", !.reindex = TRUE, !.at = now, !.todo = present])
  /\ UNCHANGED <<present, own, entries, now, said>>

\* write_self: the recall.
SeekOwn(c) ==
  /\ clerk[c].pc = "seekOwn"
  /\ \E i \in Found(own[clerk[c].db], clerk[c].at) :
       clerk' = [clerk EXCEPT ![c].pc = "writeOwn", ![c].found = i]
  /\ UNCHANGED <<present, own, entries, now, said, overlapped>>

\* write_self: the revise or the remember.
WriteOwn(c) ==
  LET k == clerk[c] IN
  /\ k.pc = "writeOwn"
  /\ IF Writable(own[k.db], k.found)
     THEN /\ Len(own[k.db]) < MaxRecords
          /\ own' = [own EXCEPT ![k.db] = Written(@, k.found, k.at, k.desc)]
          /\ said' = [said EXCEPT ![k.db] = @ \cup {k.desc}]
          /\ clerk' = Disturbed(c, [k EXCEPT !.pc = "seekEntry"])
     ELSE clerk' = Ends(c) /\ UNCHANGED <<own, said>>
  /\ UNCHANGED <<present, entries, now, overlapped>>

\* write_entry: the recall in the registry, which opens now if it is closed.
SeekEntry(c) ==
  /\ clerk[c].pc = "seekEntry"
  /\ \E i \in Found(entries[clerk[c].db], clerk[c].at) :
       clerk' = [clerk EXCEPT ![c].pc = "writeEntry", ![c].found = i]
  /\ UNCHANGED <<present, own, entries, now, said, overlapped>>

WriteEntry(c) ==
  LET k == clerk[c] IN
  /\ k.pc = "writeEntry"
  /\ IF Writable(entries[k.db], k.found)
     THEN /\ Len(entries[k.db]) < MaxRecords
          /\ entries' = [entries EXCEPT ![k.db] = Written(@, k.found, k.at, k.desc)]
          /\ clerk' = Disturbed(c, IF k.reindex THEN [k EXCEPT !.pc = "next"] ELSE NoClerk)
     ELSE clerk' = Ends(c) /\ UNCHANGED entries
  /\ UNCHANGED <<present, own, now, said, overlapped>>

\* The registry is held by another process, or a write fails: what is written
\* stays written.  A killed process is this for every clerk.
GivesUp(c) ==
  /\ clerk[c].pc \notin {"idle", "next"}
  /\ clerk' = Ends(c)
  /\ UNCHANGED <<present, own, entries, now, said, overlapped>>

\* A bug ReadOwn must not have: a database that is described is passed over.
ReadOwnNever(c, d) ==
  /\ clerk[c].pc = "next" /\ d \in clerk[c].todo
  /\ clerk' = [clerk EXCEPT ![c].todo = @ \ {d}]
  /\ UNCHANGED <<present, own, entries, now, said, overlapped>>

\* One round of reindex: self_description, none of which is no fault.
ReadOwn(c, d) ==
  LET k == [clerk[c] EXCEPT !.todo = @ \ {d}, !.db = d] IN
  /\ clerk[c].pc = "next" /\ d \in clerk[c].todo
  /\ \E i \in Found(own[d], k.at) :
       clerk' = [clerk EXCEPT ![c] = IF i = 0 THEN k
                                     ELSE [k EXCEPT !.pc = "seekEntry", !.desc = own[d][i].desc]]
  /\ UNCHANGED <<present, own, entries, now, said, overlapped>>

MeetsBusy(c, d) ==
  /\ clerk[c].pc = "next" /\ d \in clerk[c].todo
  /\ clerk' = [clerk EXCEPT ![c].todo = @ \ {d}, ![c].missed = @ \cup {d}]
  /\ UNCHANGED <<present, own, entries, now, said, overlapped>>

Reindexed(c) ==
  /\ clerk[c].pc = "next" /\ clerk[c].todo = {}
  /\ clerk' = Ends(c)
  /\ UNCHANGED <<present, own, entries, now, said, overlapped>>

-----------------------------------------------------------------------------
(* The clock, and a person at the directory.                               *)

Later == /\ now' \in {t \in 0..MaxNow : t = now + 1 \/ (t < now /\ "clockBack" \in Mishaps)}
         /\ UNCHANGED <<present, own, entries, clerk, said, overlapped>>

AllIdle == \A c \in Clerks : clerk[c].pc = "idle"

LoseRegistry == /\ "removed" \in Mishaps /\ AllIdle
                /\ entries' = [d \in Databases |-> <<>>]
                /\ UNCHANGED <<present, own, clerk, now, said, overlapped>>

RemoveDatabase(d) == /\ "removed" \in Mishaps /\ AllIdle
                     /\ d \in present
                     /\ present' = present \ {d}
                     /\ own' = [own EXCEPT ![d] = <<>>]
                     /\ UNCHANGED <<entries, clerk, now, said, overlapped>>

-----------------------------------------------------------------------------
RegistryInit ==
  /\ present = {} /\ now = 0 /\ overlapped = FALSE
  /\ own = [d \in Databases |-> <<>>] /\ entries = [d \in Databases |-> <<>>]
  /\ clerk = [c \in Clerks |-> NoClerk]
  /\ said = [d \in Databases |-> {}]

Starts(c) == \/ \E d \in Databases, t \in Texts : Describe(c, d, [text |-> t, archived |-> FALSE])
             \/ \E d \in Databases : Archive(c, d)
             \/ Reindex(c)
Proceed(c) == \/ SeekOwn(c) \/ WriteOwn(c) \/ SeekEntry(c) \/ WriteEntry(c) \/ GivesUp(c)
              \/ \E d \in Databases : ReadOwn(c, d) \/ MeetsBusy(c, d)
              \/ Reindexed(c)

RegistryNext == \/ \E c \in Clerks : Starts(c) \/ Proceed(c)
                \/ Later \/ LoseRegistry \/ \E d \in Databases : RemoveDatabase(d)

RegistrySpec == RegistryInit /\ [][RegistryNext]_registryVars

-----------------------------------------------------------------------------
(* Properties.                                                             *)

\* "Called again for the same database, this revises rather than duplicating"
\* (registry.rs:175): unless two calls overlapped, a database has one description
\* and one record, whatever failed in between.
DescribedOnce ==
  overlapped \/ \A d \in Databases : /\ \A i, j \in Live(own[d]) : i = j
                                     /\ \A i, j \in Live(entries[d]) : i = j

\* The registry is an index, not the truth: it says of a database nothing that
\* the database has not said of itself first, however calls overlap or fail.
RecordWasSaid ==
  \A d \in Databases : \A i \in DOMAIN entries[d] : entries[d][i].desc \in said[d]

\* "Anything ... where the two disagree is what reindex exists to settle"
\* (registry.rs:404-405): after a reindex that nothing disturbed, verify has nothing to
\* report of a described database that it could open, whatever failures between the
\* two writes of a describe, and removals, had left behind.
ReindexSettles ==
  [][\A c \in Clerks : Reindexed(c) /\ clerk[c].quiet /\ ~overlapped =>
       \A d \in present \ clerk[c].missed :
         0 \notin Found(own[d], clerk[c].at) => VerifyReports(d, clerk[c].at) = {}]_registryVars

\* What the registry and the database say of it: once, and the database first.
DescriptionsTrue == DescribedOnce /\ RecordWasSaid
=============================================================================
