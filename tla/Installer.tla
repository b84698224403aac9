----------------------------- MODULE Installer ------------------------------
(* install.py: a sequence of steps over the project's .env, the data         *)
(* directory's .env, the Docker stack and Windmill, run again and again with *)
(* different arguments.  A run may be killed anywhere, a file that it is     *)
(* writing included, and operators start the stack and build assets in       *)
(* Windmill's UI meanwhile.                                                  *)
(*                                                                           *)
(* Docker, the wmill CLI and Windmill are external, and any call of theirs   *)
(* may fail; install.py does not look at most of their return codes.         *)
EXTENDS Naturals, Sequences

CONSTANTS Arguments,    \* argument lists that runs are started with
          Items,        \* Windmill assets that are not tracked in windmill/
  Listed,       \* those of the kinds whose deletion the installer recognises
          MaxRuns       \* bound: runs of the installer

ASSUME ListedAssumption == Listed \subseteq Items

VARIABLES
  pc,           \* the step that the run is at
  run,          \* number of runs so far
  args,         \* arguments of the run
  exists,       \* .env is there
  env,          \* .env
  data,         \* <DATA_DIR>/.env
  hermes,       \* whether Hermes is up, and the settings it was started with
  database,     \* password that the database was initialised with
  workspace,    \* Windmill's workspace is there
  items,        \* untracked assets in it
  secret,       \* Windmill's secret variables
  achieved,     \* history: external calls of this run that succeeded
  torn,         \* history: files of which a kill has lost what it was not writing
  told,         \* history: --env has named the database password
  last          \* history: arguments and files of the last completed run

fileVars == <<exists, env, data>>
stackVars == <<hermes, database>>
windmillVars == <<workspace, items, secret>>
historyVars == <<achieved, torn, told, last>>
installerVars == <<pc, run, args, fileVars, stackVars, windmillVars, historyVars>>

\* Values: nothing, the weak default of docker-compose.yml, and one generated in this run.
Blank == <<>>
Weak == <<"weak">>
Fresh == <<"generated", run>>

\* The keys of .env that matter, in the order of the file.
File == <<"hermes_uid", "provider_key", "telegram", "api_server_key", "db_password", "overrides">>
EnvKeys == {"hermes_uid", "provider_key", "telegram", "api_server_key", "db_password", "overrides"}
DataKeys == {"provider_key", "telegram"}
Example == [k \in EnvKeys |-> IF k = "hermes_uid" THEN <<"1000">> ELSE Blank]

Resting == {"idle", "done", "died", "killed"}

InstallerInit ==
  /\ pc = "idle" /\ run = 0 /\ args \in Arguments
  /\ exists = FALSE
  /\ env = [k \in EnvKeys |-> Blank]
  /\ data = [k \in DataKeys |-> Blank]
  /\ hermes = [up |-> FALSE, key |-> Blank, data |-> data]
  /\ database = Blank
  /\ workspace = FALSE /\ items = {}
  /\ secret = [k \in {"api_key", "telegram"} |-> Blank]
  /\ achieved = {} /\ torn = {} /\ told = FALSE /\ last = {}

Goes(step) == pc' = step

-----------------------------------------------------------------------------
(* Files.                                                                  *)

\* What a kill can leave of a file: write_text truncates it first.
Beginnings(content) ==
  {[k \in EnvKeys |-> IF \E i \in 1..n : File[i] = k THEN content[k] ELSE Blank] :
     n \in 0..(Len(File) - 1)}

\* env_write, and what a kill makes of it.
WriteEnv(content, next) ==
  /\ exists' = TRUE
  /\ \/ env' = content /\ Goes(next) /\ UNCHANGED torn
     \/ env' \in Beginnings(content) /\ Goes("killed") /\ torn' = torn \union {"env"}
  /\ UNCHANGED <<run, args, data, stackVars, windmillVars, achieved, last>>

\* env_set.
EnvSet(k, value, next) == WriteEnv([env EXCEPT ![k] = value], next) /\ UNCHANGED told

\* set_data_env puts its key last; a kill loses that line only, or the other one too.
DataSet(k, value, next) ==
  /\ \/ data' = [data EXCEPT ![k] = value] /\ Goes(next) /\ UNCHANGED torn
     \/ data' = [data EXCEPT ![k] = Blank] /\ Goes("killed") /\ UNCHANGED torn
     \/ data' = [j \in DataKeys |-> Blank] /\ Goes("killed") /\ torn' = torn \union {"data"}
  /\ UNCHANGED <<run, args, exists, env, stackVars, windmillVars, achieved, told, last>>

\* On to the next step with nothing changed.
Skip(next) ==
  /\ Goes(next)
  /\ UNCHANGED <<run, args, fileVars, stackVars, windmillVars, historyVars>>

-----------------------------------------------------------------------------
(* Steps 1 to 7: the plan and the files.                                   *)

\* --gpu implies --with-ollama.
Layers(a) == a.overrides \union (IF "gpu" \in a.overrides THEN {"ollama"} ELSE {})

\* Another run; the history forgets what it achieved, and the last completed run if
\* this one is another.
Begin(a) ==
  /\ pc \in Resting
  /\ run < MaxRuns
  /\ run' = run + 1
  /\ args' = [a EXCEPT !.overrides = Layers(a)]
  /\ Goes("plan")
  /\ achieved' = {}
  /\ last' = {l \in last : l.args = args'}
  /\ UNCHANGED <<fileVars, stackVars, windmillVars, torn, told>>

\* Contradictory arguments, no Docker or an unknown model end the run, and a dry run
\* ends here.
Plan == pc = "plan" /\ (Skip("env_file") \/ Skip("died") \/ Skip("idle"))

CreateEnv ==
  /\ pc = "env_file"
  /\ IF exists THEN Skip("uid") ELSE WriteEnv(Example, "uid") /\ UNCHANGED told

\* On Windows, which has no user ids, this step is left out.
SetUid == pc = "uid" /\ EnvSet("hermes_uid", <<"uid">>, "ollama")

\* compose_add.
NeverLayered(o) == FALSE                                              \* mutant
Layered(o) == \E i \in 1..Len(env["overrides"]) : env["overrides"][i] = o
ComposeAdd(o, next) ==
  IF o \notin args.overrides \/ Layered(o) THEN Skip(next)
  ELSE EnvSet("overrides", Append(env["overrides"], o), next)

\* The override that --gpu patches comes first.
AddOllama == pc = "ollama" /\ ComposeAdd("ollama", "gpu")
AddGpu == pc = "gpu" /\ ComposeAdd("gpu", "others")
AddOthers == pc = "others" /\ ComposeAdd("baserow", "passthrough")

\* --env.
PassThrough ==
  /\ pc = "passthrough"
  /\ IF args.password = Blank THEN Skip("api_server_key")
     ELSE /\ WriteEnv([env EXCEPT !["db_password"] = args.password], "api_server_key")
          /\ told' = TRUE

\* ensure_secret.
Regenerated(k, weak) == TRUE                                          \* mutant
Missing(k, weak) == env[k] \in {Blank, weak}
EnsureSecret(k, weak, next) == IF Missing(k, weak) THEN EnvSet(k, Fresh, next) ELSE Skip(next)

EnsureApiServerKey == pc = "api_server_key" /\ EnsureSecret("api_server_key", Blank, "db_password")
EnsureDbPassword == pc = "db_password" /\ EnsureSecret("db_password", Weak, "provider_data")

\* The provider's key goes to both files.
ProviderData ==
  /\ pc = "provider_data"
  /\ IF args.key = Blank THEN Skip("telegram_data")
     ELSE DataSet("provider_key", args.key, "provider_env")
ProviderEnv == pc = "provider_env" /\ EnvSet("provider_key", args.key, "telegram_data")

\* And so does the Telegram channel.
TelegramData ==
  /\ pc = "telegram_data"
  /\ IF args.telegram = Blank THEN Skip("up")
     ELSE DataSet("telegram", args.telegram, "telegram_env")
TelegramEnv == pc = "telegram_env" /\ EnvSet("telegram", args.telegram, "telegram_restart")

-----------------------------------------------------------------------------
(* Steps 8 to 10, 13: the stack.                                           *)

Restarted == hermes' = [hermes EXCEPT !.data = data]
Restart(next) ==
  /\ \/ Restarted /\ achieved' = achieved \union {"restarted"}
     \/ UNCHANGED <<hermes, achieved>>
  /\ Goes(next)
  /\ UNCHANGED <<run, args, fileVars, database, windmillVars, torn, told, last>>

\* docker restart, if Hermes is running.
TelegramRestart == pc = "telegram_restart" /\ IF hermes.up THEN Restart("up") ELSE Skip("up")

\* docker-compose.gpu.yml patches a service of docker-compose.ollama.yml.
Position(o) == {i \in 1..Len(env["overrides"]) : env["overrides"][i] = o}
ComposeAccepts ==
  \A g \in Position("gpu") : \E o \in Position("ollama") : o < g

\* ${WM_DB_PASSWORD:-windmill}
OrDefault(password) == IF password = Blank THEN Weak ELSE password

\* docker compose up: a fresh database takes the password it is given, an old one keeps
\* its own; Hermes is recreated if its API_SERVER_KEY changed, or for another change.
ComposeUp ==
  /\ ComposeAccepts
  /\ database' = IF database = Blank THEN OrDefault(env["db_password"]) ELSE database
  /\ LET started == [up |-> TRUE, key |-> env["api_server_key"], data |-> data]
     IN  hermes' \in {started} \union {h \in {hermes} : h.up /\ h.key = started.key}

\* Neither pulling, building nor starting is checked.
Up ==
  /\ pc = "up"
  /\ \/ ComposeUp /\ achieved' = achieved \union {"up"}
     \/ UNCHANGED <<stackVars, achieved>>
  /\ Goes("heal")
  /\ UNCHANGED <<run, args, fileVars, windmillVars, torn, told, last>>

\* Removing what has drifted in the running container restarts it.
Heal == pc = "heal" /\ (Skip("healthy") \/ (hermes.up /\ Restart("healthy")))

\* wait_hermes_healthy: forty tries, or the run dies.
Healthy == pc = "healthy" /\ (Skip("died") \/ (hermes.up /\ Skip("memory")))

\* Hindsight becomes Hermes's memory.
Memory ==
  /\ pc = "memory"
  /\ IF args.memory THEN Restart("windmill") \/ Restart("died") ELSE Skip("windmill")

-----------------------------------------------------------------------------
(* Step 11: setup_windmill.                                                *)

\* The API answers and knows the default administrator, or the whole step is skipped.
Login ==
  /\ pc = "windmill"
  /\ Skip("headroom") \/ (args.windmill /\ Skip("workspace"))

\* The workspace and its state folders: there, created, or only a warning.  (Registering
\* Windmill as an MCP server of Hermes, at the end of the step, touches nothing else.)
CreateWorkspace ==
  /\ pc = "workspace"
  /\ workspace' \in {workspace, TRUE}
  /\ Goes("assets")
  /\ UNCHANGED <<run, args, fileVars, stackVars, items, secret, historyVars>>

MayPush(deletions) == deletions = {} \/ args.forced
AfterDryRun(deletions) == IF MayPush(deletions) THEN "push" ELSE "headroom"

\* The deletions recognised in the output of wmill sync push --dry-run: those of a fixed
\* list of kinds, none in the output of a dry run that failed.
Deletions == {items \intersect Listed, {}}

\* push_windmill_assets: without the CLI, or if a deletion is recognised and
\* WMILL_FORCE_PUSH is not set, nothing is pushed.  Whether the dry run succeeded is
\* not looked at.
DryRun ==
  /\ pc = "assets"
  /\ Skip("headroom") \/ \E deletions \in Deletions : Skip(AfterDryRun(deletions))

\* The push mirrors the repository; one that fails may have deleted some of the items.
Push ==
  /\ pc = "push"
  /\ \/ items' = {} /\ workspace /\ Goes("seed_api_key")
     \/ items' \in SUBSET items /\ Goes("headroom")
  /\ UNCHANGED <<run, args, fileVars, stackVars, workspace, secret, historyVars>>

\* variables/create, or variables/update if it exists; either may fail.
CreatedOnly(k, value, next) ==                                        \* mutant
  /\ secret' = [secret EXCEPT ![k] = IF secret[k] = Blank THEN value ELSE secret[k]]
  /\ achieved' = achieved \union {k}
  /\ Goes(next)
  /\ UNCHANGED <<run, args, fileVars, stackVars, workspace, items,
                 torn, told, last>>
Seed(k, value, next) ==
  /\ \/ /\ value # Blank
        /\ secret' = [secret EXCEPT ![k] = value]
        /\ achieved' = achieved \union {k}
     \/ UNCHANGED <<secret, achieved>>
  /\ Goes(next)
  /\ UNCHANGED <<run, args, fileVars, stackVars, workspace, items,
                 torn, told, last>>

SeedApiKey == pc = "seed_api_key" /\ Seed("api_key", env["api_server_key"], "seed_telegram")
SeedTelegram == pc = "seed_telegram" /\ Seed("telegram", env["telegram"], "headroom")

\* Hermes is routed through Headroom.
Headroom ==
  /\ pc = "headroom"
  /\ IF args.headroom /\ args.key # Blank THEN Restart("skills") \/ Restart("died")
     ELSE Skip("skills")

\* Skills are only ever added.
Finish ==
  /\ pc = "skills"
  /\ Goes("done")
  /\ last' = {[args |-> args, env |-> env, data |-> data]}
  /\ UNCHANGED <<run, args, fileVars, stackVars, windmillVars, achieved, torn, told>>

Install == \/ Plan \/ CreateEnv \/ SetUid \/ AddOllama \/ AddGpu \/ AddOthers \/ PassThrough
           \/ EnsureApiServerKey \/ EnsureDbPassword
           \/ ProviderData \/ ProviderEnv \/ TelegramData \/ TelegramEnv \/ TelegramRestart
           \/ Up \/ Heal \/ Healthy \/ Memory
           \/ Login \/ CreateWorkspace \/ DryRun \/ Push \/ SeedApiKey \/ SeedTelegram
           \/ Headroom \/ Finish

-----------------------------------------------------------------------------
(* What else happens.                                                      *)

Kill == pc \notin Resting /\ Skip("killed")

\* make up.
StartStack ==
  /\ exists
  /\ ComposeUp
  /\ UNCHANGED <<pc, run, args, fileVars, windmillVars, historyVars>>

\* Somebody builds an asset in the UI.
Build(i) ==
  /\ workspace
  /\ items' = items \union {i}
  /\ UNCHANGED <<pc, run, args, fileVars, stackVars, workspace, secret,
                 historyVars>>

InstallerNext == \/ \E a \in Arguments : Begin(a)
                 \/ Install \/ Kill \/ StartStack
                 \/ \E i \in Items : Build(i)

InstallerSpec == InstallerInit /\ [][InstallerNext]_installerVars

-----------------------------------------------------------------------------
(* Properties.                                                             *)

\* Running the installer again never locks anybody out of the database: unless a kill
\* tore .env, --env named the password, or the stack had been started with the weak
\* default, .env holds the password that the database was initialised with.
PasswordAccepted ==
  database \notin {Blank, Weak} /\ "env" \notin torn /\ ~told => env["db_password"] = database

\* After a run, everybody who shares a key has the same one: Windmill's secrets what .env
\* says, if they could be set, Hermes the API_SERVER_KEY of .env, if the stack could be
\* started, and the data directory's settings, if anything restarted it.
KeysAgree ==
  pc = "done" =>
    /\ "api_key" \in achieved => secret["api_key"] = env["api_server_key"]
    /\ "telegram" \in achieved => secret["telegram"] = env["telegram"]
    /\ "up" \in achieved => hermes.key = env["api_server_key"]
    /\ "restarted" \in achieved => hermes.data = data

\* "Safe to re-run (idempotent)": a run with the arguments of the last completed one ends
\* with the same files, whatever was killed between them, unless the kill tore a file or
\* --env names a password that counts as missing.
Idempotent ==
  [][pc' = "done" /\ pc # "done" /\ torn = {} /\ args.password # Weak =>
       \A l \in last : env = l.env /\ data = l.data]_installerVars
=============================================================================
