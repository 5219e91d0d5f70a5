---------------------------- MODULE CommandLine ----------------------------
(***************************************************************************)
(* The command line (plugmem-cli): processes that each run one command, or *)
(* a repl, over one database file, side by side.  run_parsed picks the     *)
(* handle; execute and execute_ro run the command; the process ends with   *)
(* an exit code: 0 done, 1 a soft miss or a locked database, 2 an error.   *)
(*                                                                         *)
(* The handles are host's: a writer holds the database's lock from open to *)
(* exit, replays the journal and appends to it; a read-only handle maps    *)
(* what was published last and never reads the journal.  A process may be  *)
(* killed anywhere.                                                        *)
(***************************************************************************)
EXTENDS Contents, FiniteSets

CONSTANTS
  Programs,    \* processes of one user's shells
  Startable,   \* the commands to explore: [verb, id]
  BatchSize,   \* lines of an import written at once (--batch)
  MaxStarted,  \* bound: commands run in all
  MaxStored    \* bound: facts the database may come to hold

NoProgram == "nobody"

ASSUME CommandLineAssumption ==
  /\ BatchSize \in Nat \ {0} /\ NoProgram \notin Programs
  /\ \A cmd \in Startable : cmd.id \in Nat

VARIABLES
  disk,     \* gen, published: the last generation; tip: it and the journal
  holder,   \* the process that has the database's lock, if any
  settled,  \* what the database held when a process last let its user know
  started,  \* commands run so far
  prog      \* each process

commandVars == <<disk, holder, settled, started, prog>>

NotShown  == [nothing |-> TRUE]

-----------------------------------------------------------------------------
(* The arms of execute that write: what each may make of the contents c;   *)
(* nothing when the engine refuses.                                        *)

DoRemember(c) == {Remembered(c, 1)}

\* Blocked by a similar fact, or stored.
DoGuardedRemember(c) == {c, Remembered(c, 1)}

DoRevise(c, id) == Revised(c, id)

DoForget(c, id) == {Forgotten(c, id)}

DoRemoveTag(c) == {Untagged(c)}

DoLink(c) == {Linked(c)}

DoUnlink(c) == {Unlinked(c)}

Made(cmd, c) ==
  CASE cmd.verb = "remember"   -> DoRemember(c)
    [] cmd.verb = "guarded"    -> DoGuardedRemember(c)
    [] cmd.verb = "revise"     -> DoRevise(c, cmd.id)
    [] cmd.verb = "forget"     -> DoForget(c, cmd.id)
    [] cmd.verb = "remove_tag" -> DoRemoveTag(c)
    [] cmd.verb = "link"       -> DoLink(c)
    [] cmd.verb = "unlink"     -> DoUnlink(c)
    [] OTHER                   -> {c}

-----------------------------------------------------------------------------
(* The arms that read: what each prints of the contents c.                 *)

\* Found until it is forgotten.
RenderShow(c, id) == [found |-> Found(c, id)]

RenderRecall(c) == [facts |-> Current(c), edge |-> c.linked]

RenderStats(c) == [counted |-> Len(c.facts), edge |-> c.linked]

RenderTags(c) == [tagged |-> Cardinality({i \in Current(c) : c.facts[i] = "tagged"})]

WriteExport(c) == [facts |-> Current(c), edge |-> c.linked]

Reads == {"show", "recall", "stats", "tags", "export", "verify"}

Printed(cmd, c) ==
  CASE cmd.verb = "show"   -> RenderShow(c, cmd.id)
    [] cmd.verb = "recall" -> RenderRecall(c)
    [] cmd.verb = "stats"  -> RenderStats(c)
    [] cmd.verb = "tags"   -> RenderTags(c)
    [] cmd.verb = "export" -> WriteExport(c)
    [] OTHER               -> [ok |-> TRUE]

\* The soft miss: show, and nothing else, ends with 1 when it finds nothing.
CodeOf(shown) == IF shown = [found |-> FALSE] THEN 1 ELSE 0

-----------------------------------------------------------------------------
(* A process: where it is, its command, what its handle sees, what it has  *)
(* printed, the lines of its import not written yet, the requests it made  *)
(* to the provider, its exit code; and, to compare with: what the database *)
(* held when it opened it (before), and what was settled when it started   *)
(* (known).                                                                *)

Fresh(cmd, known) ==
  [pc |-> "parsed", cmd |-> cmd, view |-> Blank, shown |-> NotShown, left |-> 0, asked |-> 0,
   code |-> 0, before |-> Blank, known |-> known]

NotRun == [Fresh([verb |-> "none", id |-> 0], Blank) EXCEPT !.pc = "done"]

CommandInit ==
  /\ disk = [gen |-> 0, published |-> Blank, tip |-> Blank]
  /\ holder = NoProgram /\ settled = Blank /\ started = 0
  /\ prog = [p \in Programs |-> NotRun]

ProgramAt(p, where) == prog[p].pc = where

\* p ends; the system takes its lock back, and the user knows.
Ends(p, r, code) ==
  /\ prog' = [prog EXCEPT ![p] = [r EXCEPT !.pc = "done", !.code = code]]
  /\ holder' = IF holder = p THEN NoProgram ELSE holder
  /\ settled' = IF holder = p THEN disk'.tip ELSE settled

Moves(p, r) == prog' = [prog EXCEPT ![p] = r] /\ UNCHANGED <<holder, settled>>

\* run_parsed, from the arguments to the open: what is read goes to a read-only
\* handle first, recover and the repls to their own.
RunParsed(p, cmd) ==
  /\ ProgramAt(p, "done") /\ started < MaxStarted
  /\ started' = started + 1
  /\ Moves(p, [Fresh(cmd, settled) EXCEPT
                 !.pc = IF cmd.verb \in Reads \cup {"scrub", "repl_ro"} THEN "open_readonly"
                        ELSE IF cmd.verb = "recover" THEN "recover" ELSE "open"])
  /\ UNCHANGED disk

\* The query is embedded out here only once a read-only handle is open; the
\* read-write path embeds in Database::recall.
AsksHere(cmd, opened) == cmd.verb = "recall" /\ opened

\* A read-only handle needs a published generation, and only that.  Without one a
\* read falls through to the read-write path; a scrub and a session have none.
OpenReadonly(p) ==
  LET r == prog[p]
      opened == disk.gen > 0
      asked == IF AsksHere(r.cmd, opened) THEN r.asked + 1 ELSE r.asked IN
  /\ ProgramAt(p, "open_readonly") /\ UNCHANGED <<disk, started>>
  /\ \/ /\ opened
        /\ Moves(p, [r EXCEPT !.asked = asked, !.view = disk.published, !.before = disk.published,
                              !.pc = IF r.cmd.verb = "repl_ro" THEN "session" ELSE "execute_ro"])
     \/ ~opened /\ r.cmd.verb \in Reads /\ Moves(p, [r EXCEPT !.asked = asked, !.pc = "open"])
     \/ ~opened /\ r.cmd.verb \notin Reads /\ Ends(p, r, 2)

\* What may fail on an open handle: a recall when the provider did and on_error
\* says so, or when the vectors are of another space; a cursor; a check.
MayFail == {"recall", "tags", "verify"}

ExecuteRo(p) ==
  LET r == prog[p] shown == Printed(r.cmd, r.view) IN
  /\ ProgramAt(p, "execute_ro") /\ r.cmd.verb # "scrub" /\ UNCHANGED <<disk, started>>
  /\ \/ Ends(p, [r EXCEPT !.shown = shown], CodeOf(shown))
     \/ r.cmd.verb \in MayFail /\ Ends(p, r, 2)

\* The sections of the mapped image, to the end or to the first damaged one.
DoScrub(p) ==
  /\ ProgramAt(p, "execute_ro") /\ prog[p].cmd.verb = "scrub" /\ UNCHANGED <<disk, started>>
  /\ \E code \in {0, 2} : Ends(p, prog[p], code)

\* The writer's open: the lock or nothing; then the generation and the journal.
OpenWriter(p) ==
  LET r == prog[p] IN
  /\ ProgramAt(p, "open") /\ UNCHANGED <<disk, started>>
  /\ \/ holder # NoProgram /\ Ends(p, r, 1)
     \/ /\ holder = NoProgram /\ holder' = p
        /\ prog' = [prog EXCEPT ![p] =
             [r EXCEPT !.view = disk.tip, !.before = disk.tip, !.left = r.cmd.id,
                       !.pc = CASE r.cmd.verb = "import" -> "import"
                                [] r.cmd.verb = "repl"   -> "prompt"
                                [] OTHER                 -> "execute"]]
        /\ UNCHANGED settled

\* What a write leaves on the disk: a record in the journal, or, when the policy
\* asks for a checkpoint, a generation.
NewGeneration(c) == [gen |-> disk.gen + 1, published |-> c, tip |-> c]
Durable(c)       == {[disk EXCEPT !.tip = c], NewGeneration(c)}

\* What one command on a writer's handle may come to: the process after it, the exit
\* code it would have, and the disk.
Outcome(r, code, d) == [program |-> r, code |-> code, disk |-> d]

ReadArm(cmd, r) ==
  LET asked == [r EXCEPT !.asked = IF cmd.verb = "recall" THEN @ + 1 ELSE @]
      shown == Printed(cmd, r.view)
  IN  {Outcome([asked EXCEPT !.shown = shown], CodeOf(shown), disk)}
      \cup {Outcome(asked, 2, disk) : verb \in {cmd.verb} \cap MayFail}

Passes == {"maintain", "reembed", "checkpoint"}

\* Refused; or done, and then the policy's own pass, which may fail.
WriteArm(cmd, r) ==
  LET written(c) == IF c = r.view THEN {disk} ELSE Durable(c)
      made == {c \in Made(cmd, r.view) : Len(c.facts) <= MaxStored}
  IN  {Outcome(r, 2, disk)}
      \cup UNION {{Outcome([r EXCEPT !.view = c], code, d) : code \in {0, 2}, d \in written(c)} :
                  c \in made}

\* Refused; or a generation published, after which a pass may still fail.
PassArm(r) == {Outcome(r, 2, disk)} \cup {Outcome(r, code, NewGeneration(r.view)) : code \in {0, 2}}

Executed(cmd, r) == CASE cmd.verb \in Reads  -> ReadArm(cmd, r)
                      [] cmd.verb \in Passes -> PassArm(r)
                      [] OTHER               -> WriteArm(cmd, r)

Execute(p) ==
  /\ ProgramAt(p, "execute")
  /\ \E o \in Executed(prog[p].cmd, prog[p]) :
       /\ Moves(p, [o.program EXCEPT !.pc = "exit", !.code = o.code])
       /\ disk' = o.disk
  /\ UNCHANGED started

Exit(p) == ProgramAt(p, "exit") /\ UNCHANGED <<disk, started>> /\ Ends(p, prog[p], prog[p].code)

-----------------------------------------------------------------------------
(* import: a batch at a time, each durable when it is written.             *)

Batch(p, n) ==
  LET c == Remembered(prog[p].view, n) IN
  /\ Len(c.facts) <= MaxStored
  /\ disk' \in IF n = 0 THEN {disk} ELSE Durable(c)
  /\ Moves(p, [prog[p] EXCEPT !.view = c, !.left = @ - n,
                              !.pc = IF prog[p].left = n THEN "exit" ELSE "import"])

ImportBatch(p) ==
  /\ ProgramAt(p, "import") /\ prog[p].left > BatchSize
  /\ Batch(p, BatchSize)
  /\ UNCHANGED started

\* A bug ImportRest must not have: the batch the file ends in is never flushed.
ImportRestDropped(p) ==
  /\ ProgramAt(p, "import") /\ prog[p].left <= BatchSize
  /\ IF prog[p].left = BatchSize THEN Batch(p, BatchSize)
     ELSE Moves(p, [prog[p] EXCEPT !.left = 0, !.pc = "exit"]) /\ UNCHANGED disk
  /\ UNCHANGED started

ImportRest(p) ==
  /\ ProgramAt(p, "import") /\ prog[p].left <= BatchSize
  /\ Batch(p, prog[p].left)
  /\ UNCHANGED started

\* A line that does not parse, or a write refused: what was flushed stays.
ImportBroken(p) == ProgramAt(p, "import") /\ UNCHANGED <<disk, started>> /\ Ends(p, prog[p], 2)

-----------------------------------------------------------------------------
(* The repls, recover.                                                     *)

\* One line; its error is printed and the session goes on.
ReplLine(p, cmd) ==
  /\ ProgramAt(p, "prompt") /\ cmd.verb \notin {"import", "repl", "repl_ro", "scrub", "recover"}
  /\ \E o \in Executed(cmd, prog[p]) :
       /\ disk' = o.disk /\ settled' = o.disk.tip
       /\ prog' = [prog EXCEPT ![p] =
            [o.program EXCEPT !.before = o.program.view, !.shown = NotShown, !.asked = 0]]
  /\ UNCHANGED holder
  /\ started < MaxStarted /\ started' = started + 1

\* execute has no arm for import: the line ends the process.
ReplPanics(p, cmd) ==
  /\ ProgramAt(p, "prompt") /\ cmd.verb = "import"
  /\ UNCHANGED <<disk, started>> /\ Ends(p, prog[p], 101)

\* The end of the input, or exit: a checkpoint, which may fail.
ReplExit(p) ==
  /\ ProgramAt(p, "prompt")
  /\ \/ disk' = NewGeneration(prog[p].view) /\ Ends(p, prog[p], 0)
     \/ UNCHANGED disk /\ Ends(p, prog[p], 2)
  /\ UNCHANGED started

\* A read verb of the read-only session prints what it has mapped; any other is
\* refused.
SessionLine(p, cmd) ==
  /\ ProgramAt(p, "session") /\ started < MaxStarted /\ started' = started + 1
  /\ Moves(p, IF cmd.verb \in Reads THEN [prog[p] EXCEPT !.shown = Printed(cmd, prog[p].view)] ELSE prog[p])
  /\ UNCHANGED disk

SessionRefresh(p) ==
  /\ ProgramAt(p, "session") /\ prog[p].view # disk.published
  /\ Moves(p, [prog[p] EXCEPT !.view = disk.published, !.before = disk.published])
  /\ UNCHANGED <<disk, started>>

SessionExit(p) == ProgramAt(p, "session") /\ UNCHANGED <<disk, started>> /\ Ends(p, prog[p], 0)

\* Under the source's own lock, to another file; the source stays as it is.
DoRecover(p) ==
  /\ ProgramAt(p, "recover") /\ UNCHANGED <<disk, started>>
  /\ IF holder # NoProgram THEN Ends(p, prog[p], 1)
     ELSE \E code \in {0, 2} : (code = 0 => disk.gen > 0) /\ Ends(p, prog[p], code)

Killed(p) == ~ProgramAt(p, "done") /\ UNCHANGED <<disk, started>> /\ Ends(p, prog[p], 137)

CommandNext ==
  \E p \in Programs :
    \/ \E cmd \in Startable :
         RunParsed(p, cmd) \/ ReplLine(p, cmd) \/ ReplPanics(p, cmd) \/ SessionLine(p, cmd)
    \/ OpenReadonly(p) \/ ExecuteRo(p) \/ DoScrub(p) \/ OpenWriter(p) \/ Execute(p) \/ Exit(p)
    \/ ImportBatch(p) \/ ImportRest(p) \/ ImportBroken(p)
    \/ ReplExit(p) \/ SessionRefresh(p) \/ SessionExit(p) \/ DoRecover(p) \/ Killed(p)

CommandSpec == CommandInit /\ [][CommandNext]_commandVars

-----------------------------------------------------------------------------
(* Properties.                                                             *)

\* The exit code tells: 0 is the whole command, to the last line of an import; 1
\* is a miss or a lock, and nothing changed.  Whatever a process did or showed
\* before it ended, killed or not, the database keeps through everything the
\* others do (run_parsed's codes; the handles it picks).
ExitCodesTell ==
  \A p \in Programs :
    LET r == prog[p] IN
    ProgramAt(p, "done") =>
      /\ r.code = 0 => \/ r.cmd.verb = "import" /\ r.view = Remembered(r.before, r.cmd.id)
                       \/ r.cmd.verb # "import" /\ r.view \in Made(r.cmd, r.before)
      /\ r.code = 1 => r.view = r.before
      /\ Kept(r.view, disk.tip)

\* One command asks the provider for one embedding of its query, whichever handle
\* ends up answering it (embed_recall_query).
EmbeddedOnce == \A p \in Programs : prog[p].asked <= 1

\* "Every one-shot command already see[s] the newest data ... a fresh open per
\* command" (plugmem-cli/README.md:303-305): as long as no one writes, a one-shot
\* command that reads prints what the database holds.
OneShotsSeeTheNewest ==
  \A p \in Programs :
    LET r == prog[p] IN
    (ProgramAt(p, "done") /\ r.cmd.verb \in Reads /\ r.code \in {0, 1} /\ r.shown # NotShown
       /\ r.known = settled /\ settled = disk.tip)
      => r.shown = Printed(r.cmd, settled)

\* What a command tells its caller and its provider.
CommandsTell == ExitCodesTell /\ EmbeddedOnce
=============================================================================
