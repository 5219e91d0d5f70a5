----------------------------- MODULE MCPrograms -----------------------------
(***************************************************************************)
(* What stands around the engine, for TLC: the files under it (generations, *)
(* the container of an image, the journal's bytes, a salvaged copy), the   *)
(* settings it is opened with, and the programs over it (the command line, *)
(* a dump and its import, the MCP server).  They share no state, so a      *)
(* behaviour follows one of them (focus) and the others stand still.       *)
(***************************************************************************)
EXTENDS FileStorage, MCCommandLine, Transfer, Server, Container, Salvage, Records,
        Settings

CONSTANTS a, b

VARIABLE focus

Ask(tool, d, id, arg) ==
  [method |-> "tools/call", tool |-> tool, db |-> d, id |-> id, arg |-> arg]
Bare(method) == [Ask("none", NoDb, NoFact, "good") EXCEPT !.method = method]

\* Every tool; fact 1, and a number that is fact 1 when it is cut to the width.
MCAsked ==
  {Bare("garbage"), Bare("ping")}
  \cup {Ask(t, NoDb, NoFact, "good") :
          t \in {"remember", "recall", "export", "refresh", "about", "stats", "unlink",
                 "remove_tag", "maintain"}}
  \cup {Ask("show", NoDb, 1, "good"), Ask("show", NoDb, 5, "good"), Ask("forget", NoDb, 1, "good"),
        Ask("forget", b, 5, "good"), Ask("revise", NoDb, 1, "good"), Ask("link", NoDb, 5, "good")}
  \cup {Ask("remember", b, NoFact, "guarded"), Ask("stats", b, NoFact, "good"),
        Ask("recall", b, NoFact, "malformed")}

Start(mode, default, allow, create) ==
  [mode |-> mode, default |-> default, allow |-> allow, create |-> create]
MCLaunches ==
  {l \in {Start("writer", NoDb, {}, TRUE), Start("reader", NoDb, {}, TRUE),
          Start("workspace", a, {}, TRUE), Start("workspace", NoDb, {a, b}, FALSE),
          Start("workspace", a, {b}, TRUE), Start("workspace", b, {b}, TRUE)} : MayStart(l)}

Setup(dim, shards, limits, degree, ef, uuid) ==
  [dim |-> dim, shards |-> shards, limits |-> limits, degree |-> degree, ef |-> ef, uuid |-> uuid]
MCConfigs == {Setup(d, 2, 1, 3, 3, 7) : d \in {0, 2, 4}}
MCEdgeKinds == {{}, {"out", "in"}}
MCCallers ==
  {Setup(d, 2, l, g, 4, u) : d \in {0, 4}, l \in {1, 2}, g \in {2, 3}, u \in {0, 7, 8}}
  \cup {Setup(2, 3, 1, 3, 3, 7), Setup(2, 2, 1, 3, 2, 7), Setup(4, 4, 1, 3, 3, 7)}

\* A record of each kind: with every field, with none, with a count of 0.
Said == [kind |-> "remember", now |-> 1, validFrom |-> 0, revises |-> NoId, assigned |-> 1,
         entity |-> <<>>, text |-> <<>>, tags |-> <<>>, links |-> <<>>, vector |-> <<>>,
         metadata |-> <<>>]
MCOps ==
  {Said, [Said EXCEPT !.revises = 0, !.entity = << <<>> >>, !.text = <<1>>, !.vector = <<0, 3>>],
   [Said EXCEPT !.entity = << <<2>> >>, !.tags = << <<1>>, <<2, 0>> >>,
                !.links = << << <<1>>, <<0>> >> >>,
                !.metadata = << << <<>>, <<1>> >>, << <<1>>, <<>> >> >>],
   [kind |-> "forget", now |-> 0, fact |-> 0],
   [kind |-> "link", now |-> 1, fact |-> NoId, src |-> <<1>>, rel |-> <<>>, dst |-> <<0, 2>>],
   [kind |-> "unlink", now |-> 1, src |-> <<1>>, rel |-> <<0>>, dst |-> <<>>],
   [kind |-> "maintain", now |-> 2, mode |-> 4, budget |-> Unlimited],
   [kind |-> "maintain", now |-> 2, mode |-> 0, budget |-> 3],
   [kind |-> "removeTag", now |-> 1, tag |-> <<2>>],
   [kind |-> "setVectorSpace", space |-> <<1, 1>>]}

\* A config file with every key, what may be written in the place of a key's value,
\* and the files with one key less or another value for it.
WholeFile ==
  "url" :> <<"string", "u">> @@ "model" :> <<"string", "m">> @@ "dim" :> <<"int", 3>>
  @@ "half_life_days" :> <<"int", 2>> @@ "w_vec" :> <<"int", 1>> @@ "timeout_ms" :> <<"int", 5>>
  @@ "retry_after_ms" :> <<"int", 2>> @@ "retry_max_ms" :> <<"int", 4>>
  @@ "on_error" :> <<"string", "degrade">> @@ "fsync" :> <<"string", "on_snapshot">>
  @@ "enabled" :> <<"bool", TRUE>> @@ "snapshot_every_ops" :> <<"int", 7>>
  @@ "max_open" :> <<"int", 2>> @@ "path" :> <<"string", "p">> @@ "dir" :> <<"string", "d">>
InPlace == {<<"int", -1>>, <<"int", 0>>, <<"int", 17>>, <<"float", -1>>, <<"float", 1>>,
            <<"string", "">>, <<"string", "fail">>, <<"bool", FALSE>>}
Less(t, keys) == [k \in DOMAIN t \ keys |-> t[k]]
ConfigFiles ==
  {<<>>, WholeFile} \cup {Less(WholeFile, {k}) : k \in DOMAIN WholeFile}
  \cup {[WholeFile EXCEPT ![k] = v] : k \in DOMAIN WholeFile, v \in InPlace}
  \cup {Less(WholeFile, {"enabled", "retry_after_ms"}), Less(WholeFile, {"enabled", "url"}),
        Less(WholeFile, {"enabled", "url", "model"})}
Standing(flag, variable, platform) ==
  [flag |-> flag, variable |-> variable, platform |-> platform]
MCPlaces ==
  {Standing(NoFlag, NoFlag, p) : p \in {NoFlag, Missing}} \cup {Standing(NoFlag, NoFlag, File(t)) : t \in ConfigFiles}
  \cup {Standing(f, v, p) : f, v \in {NoFlag, Missing, NoToml, File(<<>>)},
                         p \in {Missing, File(WholeFile)}}
MCEnvirons ==
  {<<>>} \cup {k :> v : k \in Milliseconds, v \in {<<"int", 0>>, <<"int", 9>>, <<"text", 0>>}}
  \cup {"enabled" :> v : v \in {<<"bool", TRUE>>, <<"bool", FALSE>>, <<"text", 0>>}}
  \cup {"on_error" :> <<"string", v>> : v \in {"fail", "degrade", "maybe"}}
MCDefaults == [dim |-> 0, half |-> 3, w |-> 1, retryMax |-> 6, every |-> 1, maxOpen |-> 2]

around == <<vars, commandVars, transferVars, serverVars, containerVars, salvageVars,
            recordVars, settingsVars, focus>>

AroundInit ==
  /\ focus \in {"files", "commands", "transfer", "server", "container", "salvage", "records",
                "settings"}
  /\ SettingsInit
  /\ focus # "settings" => places = Standing(NoFlag, NoFlag, Missing) /\ environ = <<>>
  \* Vectors on any of the facts, metadata on the middle one.
  /\ SalvageInit
  /\ pristine \in IF focus = "salvage" THEN {Laid(v, {1}) : v \in SUBSET (0..MaxFacts - 1)}
                  ELSE {Laid({}, {})}
  \* A file without a byte stands for the container nobody looks at.
  /\ IF focus = "container" THEN ContainerInit
     ELSE made = [file |-> <<>>] /\ image = <<>> /\ scan = NoScan /\ opened = NoScan
  /\ RecordsInit
  /\ Init /\ CommandInit /\ TransferInit /\ ServerInit
  /\ focus # "files" => metadata = "ordered"
  /\ focus # "transfer" =>
       walk.limit = 1 /\ source = [facts |-> <<"open", "open">>, edges |-> [e \in DumpEdges |-> 0]]
  /\ focus # "server" => launch.mode = "writer"

AroundNext ==
  /\ \/ focus = "files" /\ Next
     \/ focus # "files" /\ UNCHANGED vars
  /\ \/ focus = "commands" /\ CommandNext
     \/ focus # "commands" /\ UNCHANGED commandVars
  \* The third process to start remembers, or shows.
  /\ \A p \in Programs :
       started = 2 /\ ProgramAt(p, "done") /\ prog'[p].pc # "done"
         => prog'[p].cmd.verb \in {"remember", "show"}
  /\ \/ focus = "transfer" /\ TransferNext
     \/ focus # "transfer" /\ UNCHANGED transferVars
  /\ \/ focus = "server" /\ ServerNext
     \/ focus # "server" /\ UNCHANGED serverVars
  /\ \/ focus = "container" /\ ContainerNext
     \/ focus # "container" /\ UNCHANGED containerVars
  /\ \/ focus = "salvage" /\ SalvageNext
     \/ focus # "salvage" /\ UNCHANGED salvageVars
  /\ \/ focus = "records" /\ RecordsNext
     \/ focus # "records" /\ UNCHANGED recordVars
  /\ \/ focus = "settings" /\ SettingsNext
     \/ focus # "settings" /\ UNCHANGED settingsVars
  /\ UNCHANGED focus

AroundSpec == AroundInit /\ [][AroundNext]_around /\ Fairness
-----------------------------------------------------------------------------
(* A small directory.                                                      *)

BothMetadata == {"ordered", "weak"}

\* Any call may fail but the manifest's own sync_dir, and no writer dies just
\* before that sync_dir on a file system that reorders directory operations.
MCFaults == FaultKinds \ {"syncManifest", "crashUnsynced"}
=============================================================================
