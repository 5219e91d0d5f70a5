------------------------------ MODULE Settings ------------------------------
(***************************************************************************)
(* From a config file and the environment to an open database or workspace *)
(* (plugmem-host/src/settings.rs).                                         *)
(*                                                                         *)
(* A file is a function from the keys it has to their values; a value is   *)
(* <<type, value>>.  dim stands for the keys of [engine] and [index],      *)
(* half_life_days and w_vec for the two kinds of [recall], url and model   *)
(* for the plain strings of [embedder].                                    *)
(***************************************************************************)
EXTENDS Integers, Sequences

CONSTANTS
  Places,       \* what --config, $PLUGMEM_CONFIG and the platform's path may find
  Environs,     \* what the other variables may set: functions from their keys
  U32,          \* 2^32
  MaxDim,       \* 4096
  MaxOpen,      \* MAX_OPEN_CEILING
  Defaults      \* the fields of the engine, the pool and the database's builder

\* What a place finds: nothing is named there, no file, no TOML, a table.
NoFlag == [finds |-> "unnamed"]
Missing == [finds |-> "no file"]
NoToml == [finds |-> "no table"]
File(t) == [finds |-> "table", table |-> t]
Unset == <<"unset", 0>>

\* A value is a number, a string or a boolean; a variable that is none is text.
TypedValues == ({"int", "float"} \X Int) \cup ({"string"} \X STRING) \cup ({"bool"} \X BOOLEAN)
          \cup {<<"text", 0>>}
Keyed(t) == \A k \in DOMAIN t : t[k] \in TypedValues
Milliseconds == {"timeout_ms", "retry_after_ms", "retry_max_ms"}

ASSUME SettingsConstants ==
  /\ \A p \in Places : \A s \in {p.flag, p.variable, p.platform} :
       s \in {NoFlag, Missing, NoToml} \/ (s = File(s.table) /\ Keyed(s.table))
  /\ \A e \in Environs : Keyed(e) /\ DOMAIN e \subseteq Milliseconds \cup {"enabled", "on_error"}
  /\ U32 \in Nat \ {0}
  /\ Defaults.dim \in Nat /\ Defaults.maxOpen \in 1..MaxOpen

VARIABLES
  places,    \* the flag, the variable and the platform's path, as what each finds
  environ,   \* the other variables of the environment
  loaded,    \* the Settings, or why there are none
  running     \* how databases were opened, and what each runs with

settingsVars == <<places, environ, loaded, running>>

-----------------------------------------------------------------------------
(* Values.                                                                 *)

Of(t, k) == IF k \in DOMAIN t THEN t[k] ELSE Unset
HasKey(t, k) == k \in DOMAIN t
IsUint(v) == v[1] = "int" /\ v[2] >= 0
IsNumber(v) == v[1] \in {"int", "float"}
IsNamed(v, names) == v[1] = "string" /\ v[2] \in names
Or(v, default) == IF v = Unset THEN default ELSE v[2]
\* table_u64: what is not a non-negative integer counts as absent.
OrIgnored(v, default) == IF IsUint(v) THEN v[2] ELSE default
\* A string key of [embedder]: likewise.
StringOf(t, k) == IF Of(t, k)[1] = "string" THEN Of(t, k) ELSE Unset

Uints == {"dim", "half_life_days"}
OnErrors == {"fail", "degrade"}
FsyncNames == {"each_op", "on_snapshot"}

-----------------------------------------------------------------------------
(* Loading.                                                                *)

\* read_config: a flag must name a file; the variable, and where it is not set the
\* platform's path, need not, and there may be neither.
Source(p) ==
  IF p.flag # NoFlag THEN p.flag
  ELSE LET named == IF p.variable # NoFlag THEN p.variable ELSE p.platform
       IN  IF named \in {NoFlag, Missing} THEN File(<<>>) ELSE named

\* What the parsers of the file refuse.
FileRefused(t) ==
  \/ \E k \in Uints \cap DOMAIN t : ~IsUint(t[k])
  \/ \E k \in Milliseconds \cap DOMAIN t : ~IsUint(t[k])
  \/ HasKey(t, "w_vec") /\ ~IsNumber(t["w_vec"])
  \/ \E k \in {"path", "dir"} \cap DOMAIN t : t[k][1] # "string" \/ t[k][2] = ""
  \/ HasKey(t, "enabled") /\ t["enabled"][1] # "bool"
  \/ HasKey(t, "on_error") /\ ~IsNamed(t["on_error"], OnErrors)
  \/ HasKey(t, "fsync") /\ ~IsNamed(t["fsync"], FsyncNames)
  \/ IsUint(Of(t, "max_open")) /\ ~(t["max_open"][2] \in 1..MaxOpen)

\* A variable is text: what the program reads it as, or "text".
EnvRefused(e) ==
  \/ \E k \in Milliseconds \cap DOMAIN e : ~IsUint(e[k])
  \/ HasKey(e, "enabled") /\ e["enabled"][1] # "bool"
  \/ HasKey(e, "on_error") /\ ~IsNamed(e["on_error"], OnErrors)

\* apply_engine, apply_recall: n as u32 keeps the low bits.
ConfigOf(t) == [dim  |-> Or(Of(t, "dim"), Defaults.dim),
                half |-> Or(Of(t, "half_life_days"), Defaults.half) % U32,
                w    |-> Or(Of(t, "w_vec"), Defaults.w)]
ConfigValid(c) == c.dim <= MaxDim /\ c.half > 0 /\ c.w >= 0

\* A bug Overridden must not have: the file over the environment.
OverriddenByFile(e, t, k) == IF HasKey(t, k) THEN t[k] ELSE Of(e, k)
Overridden(e, t, k) == IF HasKey(e, k) THEN e[k] ELSE Of(t, k)

\* EmbedderCfg::retry.
RetryOf(after, max) ==
  CASE after = Unset -> <<"backoff", Or(max, Defaults.retryMax)>>
    [] after = <<"int", 0>> -> <<"manual", 0>>
    [] OTHER -> <<"fixed", after[2]>>
\* 0 waits for ever, and a key not written leaves the provider's own.
Timeout(ms) == IF ms = Unset THEN "provider" ELSE IF ms[2] = 0 THEN "none" ELSE ms[2]

\* EmbedderCfg::build: asked for by its switch, and without one by a url or a model.
EmbedderWanted(e, t) ==
  LET switch == Overridden(e, t, "enabled")
  IN  IF switch = Unset THEN StringOf(t, "url") # Unset \/ StringOf(t, "model") # Unset
      ELSE switch[2]
EmbedderRefused(e, t) ==
  /\ EmbedderWanted(e, t)
  /\ \/ StringOf(t, "url") = Unset \/ StringOf(t, "model") = Unset
     \/ ConfigOf(t).dim = 0

Resolved(e, t) ==
  [config |-> ConfigOf(t),
   embedder |-> IF EmbedderWanted(e, t)
                THEN <<t["url"][2], t["model"][2], Timeout(Overridden(e, t, "timeout_ms"))>>
                ELSE <<>>,
   onError |-> Or(Overridden(e, t, "on_error"), "fail"),
   retry |-> RetryOf(Overridden(e, t, "retry_after_ms"), Overridden(e, t, "retry_max_ms")),
   every |-> OrIgnored(Of(t, "snapshot_every_ops"), Defaults.every),
   fsync |-> Or(Of(t, "fsync"), "each_op"),
   path |-> Or(Of(t, "path"), ""), dir |-> Or(Of(t, "dir"), ""),
   maxOpen |-> OrIgnored(Of(t, "max_open"), Defaults.maxOpen)]

Refusals(p, e) ==
  \/ Source(p) \in {Missing, NoToml}
  \/ EnvRefused(e)
  \/ LET t == Source(p).table
     IN  FileRefused(t) \/ ~ConfigValid(ConfigOf(t)) \/ EmbedderRefused(e, t)

-----------------------------------------------------------------------------
(* Actions.                                                                *)

Nothing == [at |-> "nothing"]
SettingsInit ==
  /\ places \in Places /\ environ \in Environs
  /\ loaded = Nothing /\ running = Nothing

Load ==
  /\ loaded = Nothing
  /\ loaded' = IF Refusals(places, environ) THEN [at |-> "refused"]
               ELSE [at |-> "loaded", settings |-> Resolved(environ, Source(places).table)]
  /\ UNCHANGED <<places, environ, running>>

\* What a DatabaseBuilder is given.
Built(s, fsync) == [config |-> s.config, embedder |-> s.embedder, onError |-> s.onError,
                    retry |-> s.retry, every |-> s.every, fsync |-> fsync]
Ready == loaded.at = "loaded" /\ running = Nothing

OpenSingle ==
  /\ Ready
  /\ running' = [at |-> "single", memory |-> Built(loaded.settings, loaded.settings.fsync)]
  /\ UNCHANGED <<places, environ, loaded>>

\* open_workspace: the opener each database goes through has no fsync to give.
OpenPool ==
  /\ Ready
  /\ running' = [at |-> "pool", memory |-> Built(loaded.settings, "each_op"),
                limit |-> loaded.settings.maxOpen]
  /\ UNCHANGED <<places, environ, loaded>>

SettingsNext == Load \/ OpenSingle \/ OpenPool
SettingsSpec == SettingsInit /\ [][SettingsNext]_settingsVars

-----------------------------------------------------------------------------
(* Correctness.                                                            *)

\* How a database shows the value v of a key: an interval, for one that never comes
\* back; a wait, for one without an end.
RunsWith(m, k, v) ==
  CASE k = "enabled"        -> (m.embedder # <<>>) = v
    [] k = "timeout_ms"     -> m.embedder # <<>> => m.embedder[3] = IF v = 0 THEN "none" ELSE v
    [] k = "retry_after_ms" -> m.retry = IF v = 0 THEN <<"manual", 0>> ELSE <<"fixed", v>>
    [] k = "retry_max_ms"   -> m.retry[1] = "backoff" => m.retry[2] = v
    [] k = "on_error"       -> m.onError = v
    [] k = "url"            -> m.embedder # <<>> => m.embedder[1] = v
    [] k = "model"          -> m.embedder # <<>> => m.embedder[2] = v
    [] k = "dim"            -> m.config.dim = v
    [] k = "half_life_days" -> v < U32 => m.config.half = v
    [] k = "w_vec"          -> m.config.w = v
    [] k = "snapshot_every_ops" -> m.every = v
    [] OTHER -> TRUE

\* The keys whose value of another type counts as absent (table_u64's doc).
Lax == {"url", "model", "snapshot_every_ops", "max_open"}
Plain(k, v) == k \in Lax => IF k \in {"url", "model"} THEN v[1] = "string" ELSE IsUint(v)

\* settings.rs:1-4, 37-47, 256-259, 422-430, 462-467: a database runs with what the
\* environment says, and where it says nothing with what the one file that governs
\* says; no key is dropped for being ill-formed, except those documented to be; a
\* file that cannot be read stops the program instead of giving way to the next; an
\* embedder runs only in a space that has a size; and durability is never weaker
\* than what was asked for.  The environment's side cannot be reached by a unit
\* test (settings.rs:932-935).
SettingsHold ==
  running # Nothing =>
    LET m    == running.memory
        file == IF places.flag # NoFlag THEN places.flag
                ELSE IF places.variable # NoFlag THEN places.variable ELSE places.platform
        t    == IF file \in {NoFlag, Missing} THEN <<>> ELSE file.table
    IN  /\ file # NoToml /\ (file = Missing => places.flag = NoFlag)
        /\ \A k \in DOMAIN environ : RunsWith(m, k, environ[k][2])
        /\ \A k \in DOMAIN t \ DOMAIN environ : Plain(k, t[k]) => RunsWith(m, k, t[k][2])
        /\ m.embedder # <<>> => m.config.dim > 0 /\ {"url", "model"} \subseteq DOMAIN t
        /\ m.fsync = "on_snapshot" => t["fsync"][2] = "on_snapshot"
        /\ running.at = "single" => m.fsync = Or(Of(t, "fsync"), "each_op")
        /\ running.at = "pool" => running.limit \in 1..MaxOpen
=============================================================================
