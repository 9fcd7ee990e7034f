------------------------------- MODULE Startup -------------------------------
(***************************************************************************)
(* How a process of the system comes up and goes down: the lifespan of the *)
(* API (api/app.py) and serve() of the worker (ingestion/worker.py), the   *)
(* migration both run first (db/migrations.py, alembic/env.py), what they  *)
(* build from the configuration files, and the readiness the API reports.  *)
(* Several instances start, crash and are restarted by the platform in any *)
(* interleaving; they meet in the database alone.                          *)
(*                                                                         *)
(* A deployment is what one instance finds in its environment:             *)
(*   kind       "api" or "worker"                                          *)
(*   url        "set", "unset", or "bad" (a VCAP_SERVICES nobody can read) *)
(*   allowlist  sources.yaml can be read (asked by the worker alone)       *)
(*   migrate    KILN_AUTO_MIGRATE_ON_STARTUP                               *)
(*   head       the last revision its code ships                           *)
(*   models     models.yaml (or its example): exists, parses, and its two  *)
(*              sections, each [present, schema, policy, enabled, env]     *)
(*   security   security.yaml can be read, or is absent; for the worker,   *)
(*              the Git credentials, too                                   *)
(*   hyde       KILN_HYDE_ENABLED                                          *)
(*                                                                         *)
(* A definition whose name starts with Mut is the definition after it with *)
(* a plausible bug; the properties are shown to catch it.                  *)
(***************************************************************************)
EXTENDS Naturals

CONSTANTS
  Instances,    \* processes of the API and of the worker
  Deployments,  \* what an instance may find in its environment
  Revisions,    \* the last revision of any release
  MaxStarts     \* starts of an instance (bound of the model)

ASSUME StartupAssumption ==
  /\ Revisions \in Nat \ {0} /\ MaxStarts \in Nat
  /\ \A d \in Deployments : d.head \in 1..Revisions
  /\ "nobody" \notin Instances

VARIABLES
  schema,     \* alembic_version: the last revision committed, 0 in an empty database
  applied,    \* history: applied[v]: how often revision v was committed
  migrator,   \* the instance with the advisory lock, or Unheld
  deployed,   \* deployed[i]: the deployment of instance i
  at,         \* at[i]: where instance i is
  saw,        \* saw[i]: the revision its migration found
  ambient,    \* ambient[i]: what of Ambient is as alembic has set it
  opened,     \* opened[i]: the clients it has built
  embedding,  \* embedding[i]: app.state.embedding_status, or "unknown"
  hydeOn,     \* hydeOn[i]: app.state.hyde_engine is there
  starts      \* starts[i]: how often it was started

database == <<schema, applied, migrator>>
memory   == <<at, saw, ambient, opened, embedding, hydeOn>>
startup  == <<database, deployed, memory, starts>>

Unheld == "nobody"

(* What a migration changes of its own process: KILN_DATABASE_URL, the     *)
(* cached settings, the loggers that fileConfig disables, and the handlers *)
(* and the level of the root logger, which it replaces.                    *)
Ambient == {"url", "settings", "disabled", "root"}
(* What the finally of run_upgrade_head_sync puts back.                    *)
PutBack == {"url", "settings", "disabled"}

StartupInit ==
  /\ schema \in 0..Revisions
  /\ applied = [v \in 1..Revisions |-> IF v <= schema THEN 1 ELSE 0]
  /\ migrator = Unheld
  /\ deployed \in [Instances -> Deployments]
  /\ at = [i \in Instances |-> "down"]
  /\ saw = [i \in Instances |-> 0]
  /\ ambient = [i \in Instances |-> {}]
  /\ opened = [i \in Instances |-> {}]
  /\ embedding = [i \in Instances |-> "unknown"]
  /\ hydeOn = [i \in Instances |-> FALSE]
  /\ starts = [i \in Instances |-> 0]

Moves(i, s)    == at' = [at EXCEPT ![i] = s]
Opens(i, what) == opened' = [opened EXCEPT ![i] = @ \cup what]

(* The process is gone, and with it its connections, the transaction and   *)
(* the transaction's advisory lock.                                        *)
Ends(i) ==
  /\ Moves(i, "down")
  /\ saw' = [saw EXCEPT ![i] = 0]
  /\ ambient' = [ambient EXCEPT ![i] = {}]
  /\ opened' = [opened EXCEPT ![i] = {}]
  /\ embedding' = [embedding EXCEPT ![i] = "unknown"]
  /\ hydeOn' = [hydeOn EXCEPT ![i] = FALSE]
  /\ migrator' = IF migrator = i THEN Unheld ELSE migrator
  /\ UNCHANGED <<schema, applied>>

(* resolve_database_url raises on a binding it cannot read.  Without a URL *)
(* the API comes up to say so in /readyz; the worker returns 2, as it does *)
(* without its allowlist.                                                  *)
MayStart(d) ==
  /\ d.url # "bad"
  /\ d.kind = "worker" => d.url = "set" /\ d.allowlist

Refuse(i) ==
  /\ at[i] = "down" /\ starts[i] < MaxStarts
  /\ ~MayStart(deployed[i])
  /\ starts' = [starts EXCEPT ![i] = @ + 1]
  /\ UNCHANGED <<database, deployed, memory>>

(* lifespan and serve up to the migration, whose env.py has logging        *)
(* reconfigured and the settings read again before it connects.            *)
Start(i) ==
  /\ at[i] = "down" /\ starts[i] < MaxStarts
  /\ MayStart(deployed[i])
  /\ starts' = [starts EXCEPT ![i] = @ + 1]
  /\ IF deployed[i].url = "set" /\ deployed[i].migrate
       THEN /\ Moves(i, "lock")
            /\ ambient' = [ambient EXCEPT ![i] = Ambient]
            /\ UNCHANGED opened
       ELSE /\ Moves(i, "build")
            /\ Opens(i, IF deployed[i].url = "set" THEN {"db"} ELSE {})
            /\ UNCHANGED ambient
  /\ UNCHANGED <<database, deployed, saw, embedding, hydeOn>>

MutLock(i) ==
  /\ at[i] = "lock"
  /\ migrator' = i
  /\ Moves(i, "read")
  /\ UNCHANGED <<schema, applied, deployed, saw, ambient, opened, embedding, hydeOn, starts>>
(* SELECT pg_advisory_xact_lock: waits for whoever holds it.               *)
Lock(i) ==
  /\ at[i] = "lock"
  /\ migrator = Unheld
  /\ migrator' = i
  /\ Moves(i, "read")
  /\ UNCHANGED <<schema, applied, deployed, saw, ambient, opened, embedding, hydeOn, starts>>

(* run_migrations: alembic reads the version after the lock is granted.    *)
ReadVersion(i) ==
  /\ at[i] = "read" /\ schema <= deployed[i].head
  /\ saw' = [saw EXCEPT ![i] = schema]
  /\ Moves(i, "upgrade")
  /\ UNCHANGED <<database, deployed, ambient, opened, embedding, hydeOn, starts>>

(* One transaction for all the revisions that are missing; then the        *)
(* finally of run_upgrade_head_sync, and the pool.                         *)
Upgrade(i) ==
  /\ at[i] = "upgrade"
  /\ schema' = deployed[i].head
  /\ applied' = [v \in 1..Revisions |->
       IF saw[i] < v /\ v <= deployed[i].head THEN applied[v] + 1 ELSE applied[v]]
  /\ migrator' = Unheld
  /\ ambient' = [ambient EXCEPT ![i] = @ \ PutBack]
  /\ Opens(i, {"db"})
  /\ Moves(i, "build")
  /\ UNCHANGED <<deployed, saw, embedding, hydeOn, starts>>

MutMigrationFails(i) ==
  /\ at[i] \in {"lock", "read", "upgrade"}
  /\ migrator' = IF migrator = i THEN Unheld ELSE migrator
  /\ ambient' = [ambient EXCEPT ![i] = @ \ PutBack]
  /\ Opens(i, {"db"})
  /\ Moves(i, "build")
  /\ UNCHANGED <<schema, applied, deployed, saw, embedding, hydeOn, starts>>
(* The database is away, a statement fails, or the version is of a later   *)
(* release, which alembic cannot locate: the API's lifespan raises, the    *)
(* worker returns 2.                                                       *)
MigrationFails(i) ==
  /\ at[i] \in {"lock", "read", "upgrade"}
  /\ Ends(i)
  /\ UNCHANGED <<deployed, starts>>

(* build_provider_from_settings: only a file that is not there means no    *)
(* provider; a section that is missing, malformed, excluded by policy,     *)
(* disabled, or short of an environment variable raises.                   *)
EmbeddingOf(m) ==
  IF ~m.exists THEN "none"
  ELSE LET s == m.embedding IN
       IF m.parses /\ s.present /\ s.schema /\ s.policy /\ s.enabled /\ s.env
         THEN "some" ELSE "raises"
(* build_generator_from_settings: no section, or a disabled one, is no     *)
(* generator, whatever model it names.                                     *)
GeneratorOf(m) ==
  LET s == m.generator IN
  IF ~m.exists \/ (m.parses /\ (~s.present \/ (s.schema /\ ~s.enabled))) THEN "none"
  ELSE IF m.parses /\ s.schema /\ s.policy /\ s.env THEN "some" ELSE "raises"

ClientsOf(d) ==
  {c \in {"embedding", "generator"} :
     IF c = "embedding" THEN EmbeddingOf(d.models) = "some"
                        ELSE d.kind = "api" /\ GeneratorOf(d.models) = "some"}
(* What lifespan and serve build, in one piece since nothing is awaited;   *)
(* the worker asks for no generator, and reads the security file next.     *)
Builds(d) ==
  /\ EmbeddingOf(d.models) # "raises"
  /\ IF d.kind = "api" THEN GeneratorOf(d.models) # "raises" ELSE d.security
Build(i) ==
  /\ at[i] = "build" /\ Builds(deployed[i])
  /\ Opens(i, ClientsOf(deployed[i]))
  /\ Moves(i, IF deployed[i].kind = "api" THEN "probe" ELSE "serving")
  /\ UNCHANGED <<database, deployed, saw, ambient, embedding, hydeOn, starts>>

(* _probe_embedding, once: an error and a timeout are the same.            *)
Probe(i) ==
  /\ at[i] = "probe"
  /\ \E s \in IF "embedding" \in opened[i] THEN {"ok", "failing"} ELSE {"not_configured"} :
       embedding' = [embedding EXCEPT ![i] = s]
  /\ Moves(i, "configure")
  /\ UNCHANGED <<database, deployed, saw, ambient, opened, hydeOn, starts>>

(* The security file, the limiters and the HyDE engine, then yield.        *)
Configure(i) ==
  /\ at[i] = "configure" /\ deployed[i].security
  /\ hydeOn' = [hydeOn EXCEPT ![i] = deployed[i].hyde /\ "generator" \in opened[i]]
  /\ Moves(i, "serving")
  /\ UNCHANGED <<database, deployed, saw, ambient, opened, embedding, starts>>

(* A file that cannot be used raises out of lifespan or serve; what was    *)
(* opened before is not closed.                                            *)
BuildFails(i) ==
  /\ \/ at[i] = "build" /\ ~Builds(deployed[i])
     \/ at[i] = "configure" /\ ~deployed[i].security
  /\ Ends(i)
  /\ UNCHANGED <<deployed, starts>>

(* SIGTERM and the finally clauses, or a crash at any time.                *)
Stop(i) ==
  /\ at[i] # "down"
  /\ Ends(i)
  /\ UNCHANGED <<deployed, starts>>

StartupNext ==
  \E i \in Instances :
    \/ Refuse(i) \/ Start(i)
    \/ Lock(i) \/ ReadVersion(i) \/ Upgrade(i) \/ MigrationFails(i)
    \/ Build(i) \/ Probe(i) \/ Configure(i) \/ BuildFails(i)
    \/ Stop(i)
StartupSpec == StartupInit /\ [][StartupNext]_startup
-----------------------------------------------------------------------------
(* "advisory lock serializes concurrent starts": every revision up to the  *)
(* one in alembic_version has been applied, and applied once, however many *)
(* instances start on an empty database together, fail or crash in the     *)
(* middle, or ship an older release.                                       *)
RevisionsApplyOnce ==
  \A v \in 1..Revisions : applied[v] = IF v <= schema THEN 1 ELSE 0

(* "running against an unmigrated DB is worse than not running": whoever   *)
(* has got past its migration finds every table of its release, for good,  *)
(* and has its URL, its settings and its loggers back, all but the root    *)
(* logger's handlers and level; and 200 from /readyz, Postgres answering,  *)
(* means just that and an embedding client that is absent or worked.       *)
Ready(i) == "db" \in opened[i] /\ embedding[i] # "failing"
ServesItsSchema ==
  \A i \in Instances :
    LET d == deployed[i] IN
    /\ at[i] \in {"build", "probe", "configure", "serving"} =>
         /\ ambient[i] \subseteq {"root"}
         /\ IF d.migrate /\ d.url = "set" THEN d.head <= schema ELSE ambient[i] = {}
         /\ d.url = "set" <=> "db" \in opened[i]
    /\ at[i] = "serving" =>
         /\ d.kind = "worker" => "db" \in opened[i]
         /\ d.kind = "api" /\ Ready(i) => embedding[i] # "unknown"
         /\ hydeOn[i] => "generator" \in opened[i]
=============================================================================
