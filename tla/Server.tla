------------------------------- MODULE Server -------------------------------
(***************************************************************************)
(* The MCP server (plugmem-mcp): a thread that reads requests into a       *)
(* channel, and workers that take them, answer them against one writer's   *)
(* database, one read-only snapshot of another process's, or a directory   *)
(* of named memories, and write the replies.  Replies may overtake.        *)
(*                                                                         *)
(* A worker holds no lock between two steps: the embedding of a query and  *)
(* the two halves of an export are steps of their own, and whatever a read *)
(* or a write does under one lock is one step.                             *)
(***************************************************************************)
EXTENDS Contents, FiniteSets, FiniteSetsExt

CONSTANTS
  Workers,      \* the pool
  Memories,     \* names of memories; the other modes serve Single
  Single,       \* the memory of --db
  Launches,     \* how it may be started: [mode, default, allow, create]
  Asked,        \* the requests to explore: [method, tool, db, id, arg]
  Width,        \* fact ids a database can number
  NoFact,       \* an id argument that is absent, or names no fact
  MaxRequests,  \* bound: lines read
  MaxElsewhere  \* bound: generations published by another process

\* serve starts one worker at least; "done" is a word for a reply, not a method.
ASSUME ServerAssumption ==
  Workers # {} /\ Single \in Memories /\ \A q \in Asked : q.method # "done"

VARIABLES
  launch,   \* the arguments it was started with
  stdin,    \* "open" or "closed"
  channel,  \* requests read and not taken
  asked,    \* every request read, in order
  worker,   \* each worker
  memory,   \* each memory: present, its contents, how many changes it has seen
  snapshot, \* what a read-only server has mapped, and the changes in it
  out       \* replies written

serverVars == <<launch, stdin, channel, asked, worker, memory, snapshot, out>>

NoDb == "no db"

New == [present |-> TRUE, c |-> Blank, stamp |-> 0]

ServerInit ==
  /\ launch \in Launches
  /\ stdin = "open" /\ channel = <<>> /\ asked = <<>> /\ out = {}
  /\ worker = [w \in Workers |-> [pc |-> "recv"]]
  /\ memory = [d \in Memories |->
                 [New EXCEPT !.present = (d = Single), !.c = IF d = Single THEN Remembered(@, 1) ELSE @]]
  /\ snapshot = [c |-> Remembered(Blank, 1), stamp |-> 0]

\* serve_workspace refuses these: snapshots of many memories, and a default that
\* could never be served.
MayStart(l) ==
  (l.mode = "workspace" /\ l.default \in Memories) => (l.allow = {} \/ l.default \in l.allow)

-----------------------------------------------------------------------------
(* The read thread and the channel.                                        *)

\* What the replies already out have told about each memory.
Told == [d \in Memories |-> Max({0} \cup {r.stamp : r \in {x \in out : x.db = d}})]

ReadLine(q) ==
  /\ stdin = "open" /\ Len(asked) < MaxRequests
  /\ asked' = Append(asked, [q |-> q, told |-> Told])
  /\ channel' = Append(channel, Len(asked) + 1)
  /\ UNCHANGED <<launch, stdin, worker, memory, snapshot, out>>

\* EOF: the sender is dropped, the channel closes behind what is in it.
ReadEof ==
  /\ stdin = "open" /\ stdin' = "closed"
  /\ UNCHANGED <<launch, channel, asked, worker, memory, snapshot, out>>

WorkerAt(w, where) == worker[w].pc = where

Keep(w, r) == worker' = [worker EXCEPT ![w] = r]

\* recv: the next line, or, once the channel is closed and empty, the end.
Recv(w) ==
  /\ WorkerAt(w, "recv") /\ channel # <<>>
  /\ channel' = Tail(channel)
  /\ Keep(w, [pc |-> "handle", n |-> Head(channel)])
  /\ UNCHANGED <<launch, stdin, asked, memory, snapshot, out>>

Drained == stdin = "closed" /\ channel = <<>>

WorkerEnds(w) ==
  /\ WorkerAt(w, "recv") /\ Drained
  /\ Keep(w, [pc |-> "gone"])
  /\ UNCHANGED <<launch, stdin, channel, asked, memory, snapshot, out>>

Request(w) == asked[worker[w].n].q

\* What a worker will write: how it went, the memory and the fact it is about, and
\* the changes the answer has seen.
Reply(w, how, db, id, stamp) ==
  [n |-> worker[w].n, how |-> how, db |-> db, id |-> id, stamp |-> stamp]

Answers(w, r) == Keep(w, [pc |-> "reply", n |-> worker[w].n, reply |-> r])

Refuses(w) == Answers(w, Reply(w, "error", NoDb, NoFact, 0))

\* The reply goes out under the lock of stdout.
WriteReply(w) ==
  /\ WorkerAt(w, "reply")
  /\ out' = out \cup {worker[w].reply}
  /\ Keep(w, [pc |-> "recv"])
  /\ UNCHANGED <<launch, stdin, channel, asked, memory, snapshot>>

\* handle: lines that are not JSON, and notifications, get no reply.
Ignored(q) == q.method \in {"garbage", "notification"}

HandleOther(w) ==
  LET q == Request(w) IN
  /\ WorkerAt(w, "handle") /\ q.method # "tools/call"
  /\ IF Ignored(q) THEN Keep(w, [pc |-> "recv"])
     ELSE Answers(w, Reply(w, q.method, NoDb, NoFact, 0))
  /\ UNCHANGED <<launch, stdin, channel, asked, memory, snapshot, out>>

-----------------------------------------------------------------------------
(* Arguments.                                                              *)

\* A number past the ids is no fact.
FactId(v) == IF v = NoFact \/ v >= Width THEN NoFact ELSE v

\* What recall, remember and revise refuse before they call: text missing, a vector
\* or a time that is there and not usable.
Malformed(q) == q.arg = "malformed"

-----------------------------------------------------------------------------
(* The tools of a writer, on the memory d: what the engine may make of its  *)
(* contents.  {} is an error.                                              *)

RememberTool(c, q) == {Remembered(c, 1)} \cup (IF q.arg = "guarded" THEN {c} ELSE {})

ReviseTool(c, q) == IF FactId(q.id) = NoFact THEN {} ELSE Revised(c, FactId(q.id))

ForgetTool(c, q) == IF FactId(q.id) = NoFact THEN {} ELSE {Forgotten(c, FactId(q.id))}

RemoveTagTool(c, q) == {Untagged(c)}

\* The id is its provenance; absent is none.
LinkTool(c, q) == IF q.id # NoFact /\ FactId(q.id) = NoFact THEN {} ELSE {Linked(c)}

UnlinkTool(c, q) == {Unlinked(c)}

\* maintain, and reembed under its mode; checkpoint.
MaintainTool(c, q) == {c}

WriteTools == {"remember", "revise", "forget", "remove_tag", "link", "unlink", "maintain"}

Written(c, q) ==
  IF Malformed(q) THEN {}
  ELSE CASE q.tool = "remember"   -> RememberTool(c, q)
         [] q.tool = "revise"     -> ReviseTool(c, q)
         [] q.tool = "forget"     -> ForgetTool(c, q)
         [] q.tool = "remove_tag" -> RemoveTagTool(c, q)
         [] q.tool = "link"       -> LinkTool(c, q)
         [] q.tool = "unlink"     -> UnlinkTool(c, q)
         [] q.tool = "maintain"   -> MaintainTool(c, q)

\* One write, or its refusal; the host's own failures are refusals too.
CallWrite(w, d) ==
  LET q == Request(w) m == memory[d] IN
  /\ q.tool \in WriteTools
  /\ \/ \E c \in Written(m.c, q) :
          /\ memory' = [memory EXCEPT ![d].c = c, ![d].stamp = IF c = m.c THEN @ ELSE @ + 1]
          /\ Answers(w, Reply(w, "done", d, FactId(q.id), memory'[d].stamp))
     \/ Refuses(w) /\ UNCHANGED memory

ReadTools == {"show", "stats", "tags", "verify"}

\* A read-only server's show makes fact 1, the first, of an id that names none.
IdArg(v) == IF FactId(v) = NoFact THEN 1 ELSE FactId(v)

ShownId(v) == IF launch.mode = "reader" THEN IdArg(v) ELSE FactId(v)

\* show says which fact it shows, or that there is none such.
ShowTool(w, d, id, c, stamp) ==
  IF id # NoFact /\ Found(c, id) THEN Reply(w, "done", d, id, stamp)
  ELSE Reply(w, "error", d, NoFact, stamp)

CallRead(w, d, c, stamp) ==
  LET q == Request(w) IN
  /\ q.tool \in ReadTools
  /\ Answers(w, IF q.tool = "show" THEN ShowTool(w, d, ShownId(q.id), c, stamp)
                ELSE Reply(w, "done", d, NoFact, stamp))
  /\ UNCHANGED memory

Halfway(w, d, stamp) ==
  Keep(w, [pc |-> "search", n |-> worker[w].n, db |-> d, seen |-> stamp])

\* recall: the query goes to the provider first, without a lock; with on_error =
\* "degrade" its failure is no error.
CallRecall(w, d, stamp) ==
  LET q == Request(w) IN
  /\ q.tool = "recall" /\ UNCHANGED memory
  /\ \/ Refuses(w)
     \/ ~Malformed(q) /\ Halfway(w, d, stamp)

\* export: the edges under one lock, the facts under another.
CallExport(w, d, stamp) ==
  /\ Request(w).tool = "export" /\ UNCHANGED memory
  /\ Halfway(w, d, stamp)

\* A name this mode does not know.
CallUnknown(w, known) == Request(w).tool \notin known /\ Refuses(w) /\ UNCHANGED memory

DatabaseTools == WriteTools \cup ReadTools \cup {"recall", "export"}

Call(w, d) ==
  \/ CallWrite(w, d) \/ CallRead(w, d, memory[d].c, memory[d].stamp)
  \/ CallRecall(w, d, memory[d].stamp) \/ CallExport(w, d, memory[d].stamp)
  \/ CallUnknown(w, DatabaseTools)

CallWriter(w) ==
  /\ WorkerAt(w, "handle") /\ Request(w).method = "tools/call" /\ launch.mode = "writer"
  /\ Request(w).tool # "about" /\ Call(w, Single)
  /\ UNCHANGED <<launch, stdin, channel, asked, snapshot, out>>

\* The second half of a recall or an export, on whatever is there by now.
Search(w) ==
  LET now == IF launch.mode = "reader" THEN snapshot.stamp ELSE memory[worker[w].db].stamp IN
  /\ WorkerAt(w, "search")
  /\ \/ Answers(w, Reply(w, "done", worker[w].db, NoFact,
                         IF Request(w).tool = "export" THEN worker[w].seen ELSE now))
     \/ Request(w).tool = "recall" /\ Refuses(w)
  /\ UNCHANGED <<launch, stdin, channel, asked, memory, snapshot, out>>

\* version, about, settings_help, and the pool's list and find: no database.
CallStateless(w) ==
  /\ WorkerAt(w, "handle") /\ Request(w).method = "tools/call" /\ Request(w).tool = "about"
  /\ Answers(w, Reply(w, "about", NoDb, NoFact, 0))
  /\ UNCHANGED <<launch, stdin, channel, asked, memory, snapshot, out>>

-----------------------------------------------------------------------------
(* A read-only server.                                                     *)

\* Another process's writer publishes.
PublishedElsewhere ==
  /\ launch.mode = "reader" /\ memory[Single].stamp < MaxElsewhere
  /\ memory' = [memory EXCEPT ![Single].c = Remembered(@, 1), ![Single].stamp = @ + 1]
  /\ UNCHANGED <<launch, stdin, channel, asked, worker, snapshot, out>>

\* A bug refresh must not have: the number moves on, the map does not.
RefreshedTold(snap, m) == snap

Refreshed(snap, m) == [c |-> m.c, stamp |-> m.stamp]

\* refresh, under the write guard: it moves and tells where it is.
CallRefresh(w) ==
  /\ Request(w).tool = "refresh"
  /\ \/ /\ snapshot' = Refreshed(snapshot, memory[Single])
        /\ Answers(w, Reply(w, "done", Single, NoFact, memory[Single].stamp))
     \/ Refuses(w) /\ UNCHANGED snapshot

CallReader(w) ==
  LET q == Request(w) IN
  /\ WorkerAt(w, "handle") /\ q.method = "tools/call" /\ launch.mode = "reader"
  /\ \/ CallRead(w, Single, snapshot.c, snapshot.stamp) /\ UNCHANGED snapshot
     \/ CallRecall(w, Single, snapshot.stamp) /\ UNCHANGED snapshot
     \/ CallExport(w, Single, snapshot.stamp) /\ UNCHANGED snapshot
     \/ CallRefresh(w) /\ UNCHANGED memory
     \* The write tools are refused like the names it does not know.
     \/ CallUnknown(w, ReadTools \cup {"recall", "export", "refresh", "about"}) /\ UNCHANGED snapshot
  /\ UNCHANGED <<launch, stdin, channel, asked, out>>

-----------------------------------------------------------------------------
(* A workspace server: every call names its memory.                         *)

CreatingTools == {"remember", "revise", "forget", "link", "unlink", "maintain"}

\* A read of an unknown name is a mistake to report, not a memory to create.
MayCreate(q) == launch.create /\ q.tool \in CreatingTools

Named(q) == IF q.db = NoDb THEN launch.default ELSE q.db

Servable(d) == d \in Memories /\ (launch.allow = {} \/ d \in launch.allow)

\* The pool may refuse it too: a full pool, a file another process holds.
CallWorkspace(w) ==
  LET q == Request(w) d == Named(q) IN
  /\ WorkerAt(w, "handle") /\ q.method = "tools/call" /\ launch.mode = "workspace"
  /\ q.tool # "about"
  /\ \/ Refuses(w) /\ UNCHANGED memory
     \/ Servable(d) /\ memory[d].present /\ Call(w, d)
     \/ /\ Servable(d) /\ ~memory[d].present /\ MayCreate(q)
        /\ memory' = [memory EXCEPT ![d].present = TRUE]
        /\ Keep(w, worker[w])
  /\ UNCHANGED <<launch, stdin, channel, asked, snapshot, out>>

ServerNext ==
  \/ \E q \in Asked : ReadLine(q)
  \/ ReadEof \/ PublishedElsewhere
  \/ \E w \in Workers :
       \/ Recv(w) \/ WorkerEnds(w) \/ WriteReply(w) \/ HandleOther(w)
       \/ CallStateless(w) \/ CallWriter(w) \/ CallReader(w) \/ CallWorkspace(w) \/ Search(w)

ServerSpec == ServerInit /\ [][ServerNext]_serverVars

-----------------------------------------------------------------------------
(* Properties.                                                             *)

\* When serve returns, every request that wants a reply has one and no other has
\* any (serve, worker, handle).
AnsweredOnce ==
  (\A w \in Workers : WorkerAt(w, "gone")) =>
    \A n \in DOMAIN asked :
      Cardinality({r \in out : r.n = n}) = IF Ignored(asked[n].q) THEN 0 ELSE 1

\* A request is answered from what an earlier reply told its memory holds, or from
\* later: no worker is behind another (ReaderShared, Database's clones).
RepliesKeepUp ==
  \A r \in out : r.how = "done" => r.stamp >= asked[r.n].told[r.db]

\* A call is about the fact it names (fact_id): all of them, but for the show of
\* a read-only server (id_arg).
NeverAnotherFact ==
  \A r \in out :
    r.id # NoFact => r.id = asked[r.n].q.id \/ (launch.mode = "reader" /\ asked[r.n].q.tool = "show")

\* A call is about the memory it names, or the default; a memory exists because it
\* did, or because a write was allowed to create it (resolve).
CallsStayInTheirMemory ==
  /\ \A r \in out : launch.mode = "workspace" /\ r.db # NoDb => r.db = Named(asked[r.n].q) /\ Servable(r.db)
  /\ \A d \in Memories :
       memory[d].present =>
         \/ d = Single
         \/ /\ launch.mode = "workspace" /\ launch.create /\ Servable(d)
            /\ \E n \in DOMAIN asked : asked[n].q.tool \in CreatingTools /\ Named(asked[n].q) = d

\* One reply to a request, of the memory and the fact it names, and no older than what
\* was told before.
ServerTellsTheTruth ==
  AnsweredOnce /\ RepliesKeepUp /\ NeverAnotherFact /\ CallsStayInTheirMemory
=============================================================================
