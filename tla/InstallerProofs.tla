-------------------------- MODULE InstallerProofs ---------------------------
(* What Installer promises of a rerun: the database's password is kept, those *)
(* who share a key agree on it, and the same arguments end with the same      *)
(* files.  For all arguments, assets and numbers of runs.                     *)
EXTENDS Installer, TLAPS

\* Without a file the stack can only have been started with the default, and
\* PasswordAccepted.
PasswordInv ==
  /\ DOMAIN env = EnvKeys
  /\ ~exists => database \in {Blank, Weak} /\ env["db_password"] = Blank
  /\ PasswordAccepted

\* Writing .env preserves PasswordInv if what is written keeps the password, or if the
\* database has none to lose, or if --env asked for another.
LEMMA WritesKeepPassword ==
  ASSUME PasswordInv, NEW content, NEW next,
         DOMAIN content = EnvKeys,
         WriteEnv(content, next),
         \/ content["db_password"] = env["db_password"] /\ (told => told')
         \/ database \in {Blank, Weak}
         \/ told'
  PROVE  PasswordInv'
<1>1. database' = database /\ exists' = TRUE
  BY DEF WriteEnv, stackVars
<1>2. CASE env' = content /\ torn' = torn
  BY <1>1, <1>2 DEF PasswordInv, PasswordAccepted
<1>3. CASE env' \in Beginnings(content) /\ torn' = torn \union {"env"}
  BY <1>1, <1>3 DEF PasswordInv, PasswordAccepted, Beginnings
<1> QED
  BY <1>2, <1>3 DEF WriteEnv

\* In particular, so does setting any other key.
LEMMA SettingsKeepPassword ==
  ASSUME PasswordInv, NEW k, k # "db_password", NEW value, NEW next, EnvSet(k, value, next)
  PROVE  PasswordInv'
<1> DEFINE content == [env EXCEPT ![k] = value]
<1>1. DOMAIN content = EnvKeys /\ content["db_password"] = env["db_password"]
  BY DEF PasswordInv, EnvKeys
<1>2. WriteEnv(content, next) /\ told' = told
  BY DEF EnvSet
<1> HIDE DEF content
<1> QED
  BY <1>1, <1>2, WritesKeepPassword

\* So does every step that leaves .env alone and starts nothing.
LEMMA OthersKeepPassword ==
  ASSUME PasswordInv, UNCHANGED <<exists, env, database, told>>, torn \subseteq torn'
  PROVE  PasswordInv'
  BY DEF PasswordInv, PasswordAccepted

\* Starting the stack gives a fresh database the password of .env, or the default.
LEMMA StartingKeepsPassword ==
  ASSUME PasswordInv, ComposeUp, UNCHANGED <<exists, env, torn, told>>
  PROVE  PasswordInv'
  BY DEF PasswordInv, PasswordAccepted, ComposeUp, OrDefault

LEMMA PasswordInitially == InstallerInit => PasswordInv
  BY DEF InstallerInit, PasswordInv, PasswordAccepted, Blank, EnvKeys

LEMMA PasswordStep == PasswordInv /\ [InstallerNext]_installerVars => PasswordInv'
<1> SUFFICES ASSUME PasswordInv, [InstallerNext]_installerVars
             PROVE  PasswordInv'
  OBVIOUS
<1> USE DEF Skip, fileVars, stackVars, historyVars
<1>1. CASE UNCHANGED installerVars
  BY <1>1, OthersKeepPassword DEF installerVars
<1>2. ASSUME NEW a \in Arguments, Begin(a) PROVE PasswordInv'
  BY <1>2, OthersKeepPassword DEF Begin
<1>3. CASE Plan
  BY <1>3, OthersKeepPassword DEF Plan
<1>4. CASE CreateEnv
  <2>1. CASE exists
    BY <1>4, <2>1, OthersKeepPassword DEF CreateEnv
  <2>2. CASE ~exists
    <3>1. WriteEnv(Example, "uid") /\ DOMAIN Example = EnvKeys
      BY <1>4, <2>2 DEF CreateEnv, Example
    <3>2. database \in {Blank, Weak}
      BY <2>2 DEF PasswordInv
    <3> QED
      BY <3>1, <3>2, WritesKeepPassword
  <2> QED
    BY <2>1, <2>2
<1>5. CASE SetUid
  BY <1>5, SettingsKeepPassword DEF SetUid
<1>6. ASSUME NEW o, NEW next, ComposeAdd(o, next) PROVE PasswordInv'
  <2>1. CASE Skip(next)
    BY <2>1, OthersKeepPassword
  <2>2. CASE EnvSet("overrides", Append(env["overrides"], o), next)
    BY <2>2, SettingsKeepPassword
  <2> QED
    BY <1>6, <2>1, <2>2 DEF ComposeAdd
<1>7. CASE AddOllama \/ AddGpu \/ AddOthers
  BY <1>6, <1>7 DEF AddOllama, AddGpu, AddOthers
<1>8. CASE PassThrough
  <2>1. CASE args.password = Blank
    BY <1>8, <2>1, OthersKeepPassword DEF PassThrough
  <2>2. CASE args.password # Blank
    <3> DEFINE content == [env EXCEPT !["db_password"] = args.password]
    <3>1. WriteEnv(content, "api_server_key") /\ told' = TRUE
      BY <1>8, <2>2 DEF PassThrough
    <3>2. DOMAIN content = EnvKeys
      BY DEF PasswordInv
    <3> HIDE DEF content
    <3> QED
      BY <3>1, <3>2, WritesKeepPassword
  <2> QED
    BY <2>1, <2>2
<1>9. CASE EnsureApiServerKey
  <2>1. CASE Skip("db_password")
    BY <2>1, OthersKeepPassword
  <2>2. CASE EnvSet("api_server_key", Fresh, "db_password")
    BY <2>2, SettingsKeepPassword
  <2> QED
    BY <1>9, <2>1, <2>2 DEF EnsureApiServerKey, EnsureSecret
<1>10. CASE EnsureDbPassword
  <2>1. CASE ~Missing("db_password", Weak)
    BY <1>10, <2>1, OthersKeepPassword DEF EnsureDbPassword, EnsureSecret
  <2>2. CASE Missing("db_password", Weak)
    <3> DEFINE content == [env EXCEPT !["db_password"] = Fresh]
    <3>1. WriteEnv(content, "provider_data") /\ told' = told
      BY <1>10, <2>2 DEF EnsureDbPassword, EnsureSecret, EnvSet
    <3>2. DOMAIN content = EnvKeys
      BY DEF PasswordInv
    <3>3. database' = database
      BY <3>1 DEF WriteEnv
    <3>4. CASE database \in {Blank, Weak} \/ told'
      <4> HIDE DEF content
      <4> QED
        BY <3>1, <3>2, <3>4, WritesKeepPassword
    <3>5. CASE "env" \in torn
      <4>1. "env" \in torn' /\ exists' /\ DOMAIN env' = EnvKeys
        <5> HIDE DEF content
        <5> QED
          BY <3>1, <3>2, <3>5 DEF WriteEnv, Beginnings
      <4> QED
        BY <4>1 DEF PasswordInv, PasswordAccepted
    <3>6. database \in {Blank, Weak} \/ told' \/ "env" \in torn
      BY <2>2, <3>1 DEF PasswordInv, PasswordAccepted, Missing
    <3> QED
      BY <3>4, <3>5, <3>6
  <2> QED
    BY <2>1, <2>2
<1>11. CASE ProviderData \/ TelegramData
  BY <1>11, OthersKeepPassword DEF ProviderData, TelegramData, DataSet
<1>12. CASE ProviderEnv
  BY <1>12, SettingsKeepPassword DEF ProviderEnv
<1>13. CASE TelegramEnv
  BY <1>13, SettingsKeepPassword DEF TelegramEnv
<1>14. CASE TelegramRestart \/ Heal \/ Healthy \/ Memory \/ Headroom
  BY <1>14, OthersKeepPassword DEF TelegramRestart, Heal, Healthy, Memory, Headroom, Restart
<1>15. CASE Up
  <2>1. UNCHANGED <<exists, env, torn, told>>
    BY <1>15 DEF Up
  <2>2. CASE ComposeUp
    BY <2>1, <2>2, StartingKeepsPassword
  <2>3. CASE UNCHANGED stackVars
    BY <2>1, <2>3, OthersKeepPassword
  <2> QED
    BY <1>15, <2>2, <2>3 DEF Up
<1>16. CASE Login \/ CreateWorkspace \/ DryRun \/ Push \/ SeedApiKey \/ SeedTelegram
  BY <1>16, OthersKeepPassword
     DEF Login, CreateWorkspace, DryRun, Push, SeedApiKey, SeedTelegram, Seed
<1>17. CASE Finish
  BY <1>17, OthersKeepPassword DEF Finish
<1>18. CASE Kill
  BY <1>18, OthersKeepPassword DEF Kill
<1>19. CASE StartStack
  BY <1>19, StartingKeepsPassword DEF StartStack
<1>20. ASSUME NEW i \in Items, Build(i) PROVE PasswordInv'
  BY <1>20, OthersKeepPassword DEF Build
<1> QED
  BY <1>1, <1>2, <1>3, <1>4, <1>5, <1>7, <1>8, <1>9, <1>10, <1>11, <1>12, <1>13, <1>14,
     <1>15, <1>16, <1>17, <1>18, <1>19, <1>20 DEF InstallerNext, Install

\* Running the installer again, being killed and started over, never locks anybody out of
\* the database, with the exceptions that PasswordAccepted names (ensure_secret).
THEOREM RerunsKeepThePassword == InstallerSpec => []PasswordAccepted
<1>1. PasswordInv => PasswordAccepted
  BY DEF PasswordInv
<1> QED
  BY <1>1, PasswordInitially, PasswordStep, PTL DEF InstallerSpec

-----------------------------------------------------------------------------
(* Who shares a key.                                                       *)

\* Where a run has achieved nothing yet: until the stack, only the files are written.
Filing == {"plan", "env_file", "uid", "ollama", "gpu", "others", "passthrough",
           "api_server_key", "db_password", "provider_data", "provider_env",
           "telegram_data", "telegram_env", "telegram_restart"}

\* What a run has achieved is still so, at every step of it and after it: the files that
\* it was achieved with are written before, and no later start uses other ones.
KeysInv ==
  /\ DOMAIN hermes = {"up", "key", "data"} /\ DOMAIN secret = {"api_key", "telegram"}
  /\ pc \in Filing => achieved = {}
  /\ "api_key" \in achieved => secret["api_key"] = env["api_server_key"]
  /\ "telegram" \in achieved => secret["telegram"] = env["telegram"]
  /\ "up" \in achieved => hermes.key = env["api_server_key"]
  /\ "restarted" \in achieved => hermes.data = data

LEMMA KeysInitially == InstallerInit => KeysInv
  BY DEF InstallerInit, KeysInv

\* A step of which only files and the place in the run are known is taken before anything
\* is achieved.
LEMMA FilingKeepsKeys ==
  ASSUME KeysInv, pc \in Filing, UNCHANGED <<hermes, secret, achieved>>
  PROVE  KeysInv'
  BY DEF KeysInv

\* One that only moves on.
LEMMA MovingKeepsKeys ==
  ASSUME KeysInv, UNCHANGED <<env, data, hermes, secret, achieved>>,
         pc' \in Filing => pc \in Filing
  PROVE  KeysInv'
  BY DEF KeysInv

LEMMA WritingKeepsKeys ==
  ASSUME KeysInv, pc \in Filing, NEW content, NEW next, WriteEnv(content, next)
  PROVE  KeysInv'
  BY FilingKeepsKeys DEF WriteEnv, stackVars, windmillVars

LEMMA RestartKeepsKeys ==
  ASSUME KeysInv, pc' \notin Filing, UNCHANGED <<env, data, secret>>,
         \/ Restarted /\ achieved' = achieved \union {"restarted"}
         \/ UNCHANGED <<hermes, achieved>>
  PROVE  KeysInv'
<1>1. CASE UNCHANGED <<hermes, achieved>>
  BY <1>1, MovingKeepsKeys
<1>2. CASE Restarted /\ achieved' = achieved \union {"restarted"}
  <2>1. /\ DOMAIN hermes' = {"up", "key", "data"} /\ hermes'.data = data /\ hermes'.key = hermes.key
    BY <1>2 DEF Restarted, KeysInv
  <2> QED
    BY <1>2, <2>1 DEF KeysInv
<1> QED
  BY <1>1, <1>2

LEMMA ComposeKeepsKeys ==
  ASSUME KeysInv, ComposeUp, UNCHANGED <<env, data, secret>>,
         achieved' \in {achieved, achieved \union {"up"}},
         pc' \in Filing => pc \in Filing /\ achieved' = achieved
  PROVE  KeysInv'
<1>1. /\ DOMAIN hermes' = {"up", "key", "data"}
      /\ hermes'.key = env["api_server_key"]
      /\ hermes'.data = data \/ hermes' = hermes
  BY DEF ComposeUp, KeysInv
<1> QED
  BY <1>1 DEF KeysInv

LEMMA KeysStep == KeysInv /\ [InstallerNext]_installerVars => KeysInv'
<1> SUFFICES ASSUME KeysInv, [InstallerNext]_installerVars
             PROVE  KeysInv'
  OBVIOUS
<1> USE DEF Goes, Resting, fileVars, stackVars, windmillVars, historyVars
<1>1. CASE UNCHANGED installerVars
  BY <1>1, MovingKeepsKeys DEF installerVars
<1>2. ASSUME NEW a \in Arguments, Begin(a) PROVE KeysInv'
  BY <1>2 DEF Begin, KeysInv
<1>3. CASE Plan \/ Kill
  BY <1>3, MovingKeepsKeys DEF Plan, Kill, Skip, Filing
<1>4. CASE CreateEnv \/ SetUid
  BY <1>4, MovingKeepsKeys, WritingKeepsKeys DEF CreateEnv, SetUid, EnvSet, Skip, Filing
<1>5. CASE AddOllama \/ AddGpu \/ AddOthers
  BY <1>5, MovingKeepsKeys, WritingKeepsKeys
     DEF AddOllama, AddGpu, AddOthers, ComposeAdd, EnvSet, Skip, Filing
<1>6. CASE PassThrough \/ EnsureApiServerKey \/ EnsureDbPassword
  BY <1>6, MovingKeepsKeys, WritingKeepsKeys
     DEF PassThrough, EnsureApiServerKey, EnsureDbPassword, EnsureSecret, EnvSet, Skip, Filing
<1>7. CASE ProviderData \/ TelegramData
  BY <1>7, MovingKeepsKeys, FilingKeepsKeys DEF ProviderData, TelegramData, DataSet, Skip, Filing
<1>8. CASE ProviderEnv \/ TelegramEnv
  BY <1>8, WritingKeepsKeys DEF ProviderEnv, TelegramEnv, EnvSet, Filing
<1>9. ASSUME NEW next, next \notin Filing, Restart(next) PROVE KeysInv'
  BY <1>9, RestartKeepsKeys DEF Restart
<1>10. ASSUME NEW next, next \notin Filing, Skip(next) PROVE KeysInv'
  BY <1>10, MovingKeepsKeys DEF Skip
<1>11. CASE TelegramRestart \/ Heal \/ Healthy \/ Memory \/ Headroom
  BY <1>9, <1>10, <1>11 DEF TelegramRestart, Heal, Healthy, Memory, Headroom, Filing
<1>12. CASE Up
  <2>1. /\ UNCHANGED <<env, data, secret>> /\ pc' \notin Filing
        /\ achieved' \in {achieved, achieved \union {"up"}}
    BY <1>12 DEF Up, Filing
  <2>2. CASE ComposeUp
    BY <2>1, <2>2, ComposeKeepsKeys
  <2>3. CASE UNCHANGED <<stackVars, achieved>>
    BY <2>1, <2>3, MovingKeepsKeys
  <2> QED
    BY <1>12, <2>2, <2>3 DEF Up
<1>13. CASE Login \/ CreateWorkspace
  BY <1>13, MovingKeepsKeys DEF Login, CreateWorkspace, Skip, Filing
<1>14. CASE DryRun
  BY <1>14, MovingKeepsKeys DEF DryRun, AfterDryRun, Skip, Filing
<1>15. CASE Push
  BY <1>15, MovingKeepsKeys DEF Push, Filing
<1>16. ASSUME NEW k \in {"api_key", "telegram"}, NEW value, NEW next, next \notin Filing,
              Seed(k, value, next),
              value = IF k = "api_key" THEN env["api_server_key"] ELSE env["telegram"]
       PROVE  KeysInv'
  <2>1. UNCHANGED <<env, data, hermes>> /\ pc' \notin Filing
    BY <1>16 DEF Seed
  <2>2. CASE UNCHANGED <<secret, achieved>>
    BY <2>1, <2>2, MovingKeepsKeys
  <2>3. CASE secret' = [secret EXCEPT ![k] = value] /\ achieved' = achieved \union {k}
    BY <1>16, <2>1, <2>3 DEF KeysInv
  <2> QED
    BY <1>16, <2>2, <2>3 DEF Seed
<1>17. CASE SeedApiKey \/ SeedTelegram
  BY <1>16, <1>17 DEF SeedApiKey, SeedTelegram, Filing
<1>18. CASE Finish
  BY <1>18, MovingKeepsKeys DEF Finish, Filing
<1>19. CASE StartStack
  BY <1>19, ComposeKeepsKeys DEF StartStack
<1>20. ASSUME NEW i \in Items, Build(i) PROVE KeysInv'
  BY <1>20, MovingKeepsKeys DEF Build
<1> QED
  BY <1>1, <1>2, <1>3, <1>4, <1>5, <1>6, <1>7, <1>8, <1>11, <1>12, <1>13, <1>14, <1>15,
     <1>17, <1>18, <1>19, <1>20 DEF InstallerNext, Install

\* After a run, everybody who shares a key has the same one, although an operator may have
\* started the stack meanwhile (setup_windmill, main's steps 8 to 13).
THEOREM SharersAgree == InstallerSpec => []KeysAgree
<1>1. KeysInv => KeysAgree
  BY DEF KeysInv, KeysAgree
<1> QED
  BY <1>1, KeysInitially, KeysStep, PTL DEF InstallerSpec

-----------------------------------------------------------------------------
(* Running the installer again.                                            *)

\* The steps that a run has left behind when it is at one of these.
PastTelegram == {"telegram_env", "telegram_restart", "up", "heal", "healthy", "memory",
                 "windmill", "workspace", "assets", "push", "seed_api_key", "seed_telegram",
                 "headroom", "skills", "done"}
PastTelegramEnv == PastTelegram \ {"telegram_env"}
PastProviderEnv == PastTelegram \union {"telegram_data"}
PastProvider == PastProviderEnv \union {"provider_env"}
PastDbPassword == PastProvider \union {"provider_data"}
PastApiServerKey == PastDbPassword \union {"db_password"}
PastPassThrough == PastApiServerKey \union {"api_server_key"}
PastOthers == PastPassThrough \union {"passthrough"}
PastGpu == PastOthers \union {"others"}
PastOllama == PastGpu \union {"gpu"}
PastUid == PastOllama \union {"ollama"}
PastEnvFile == PastUid \union {"uid"}

\* What the arguments say of the keys that both files hold.
Given(k) == IF k = "provider_key" THEN args.key ELSE args.telegram

IsFunctionOn(f, S) == f = [k \in S |-> f[k]]

FilesInv ==
  /\ IsFunctionOn(env, EnvKeys) /\ IsFunctionOn(data, DataKeys)
  /\ env["overrides"] \in Seq({"ollama", "gpu", "baserow"})

\* What a run has written, it does not write again with something else.
ProgressInv ==
  /\ pc \in PastEnvFile => exists
  /\ pc \in PastUid => env["hermes_uid"] = <<"uid">>
  /\ pc \in PastOllama /\ "ollama" \in args.overrides => Layered("ollama")
  /\ pc \in PastGpu /\ "gpu" \in args.overrides => Layered("gpu")
  /\ pc \in PastOthers /\ "baserow" \in args.overrides => Layered("baserow")
  /\ pc \in PastPassThrough /\ args.password \notin {Blank, Weak} => env["db_password"] = args.password
  /\ pc \in PastApiServerKey => env["api_server_key"] # Blank
  /\ pc \in PastDbPassword => env["db_password"] \notin {Blank, Weak}
  /\ pc = "provider_env" => args.key # Blank
  /\ pc = "telegram_env" => args.telegram # Blank
  /\ pc \in PastProvider /\ args.key # Blank => data["provider_key"] = args.key
  /\ pc \in PastProviderEnv /\ args.key # Blank => env["provider_key"] = args.key
  /\ pc \in PastTelegram /\ args.telegram # Blank => data["telegram"] = args.telegram
  /\ pc \in PastTelegramEnv /\ args.telegram # Blank => env["telegram"] = args.telegram

\* .env has everything that a run with these arguments writes.
Settled ==
  /\ env["hermes_uid"] = <<"uid">>
  /\ \A o \in {"ollama", "gpu", "baserow"} : o \in args.overrides => Layered(o)
  /\ args.password # Blank => env["db_password"] = args.password
  /\ env["api_server_key"] # Blank /\ env["db_password"] \notin {Blank, Weak}
  /\ args.key # Blank => env["provider_key"] = args.key
  /\ args.telegram # Blank => env["telegram"] = args.telegram

\* Until its arguments change, .env is as the last completed run has left it, and the data
\* directory's lacks at most a line that the next run will write again.
SettledInv ==
  \A l \in last :
    /\ l.args = args /\ exists
    /\ torn = {} /\ args.password # Weak =>
         /\ env = l.env /\ Settled
         /\ IsFunctionOn(l.data, DataKeys)
         /\ \A k \in DataKeys :
              IF Given(k) = Blank THEN data[k] = l.data[k] ELSE l.data[k] = Given(k)

RerunInv == FilesInv /\ ProgressInv /\ SettledInv

LEMMA RerunInitially == InstallerInit => RerunInv
<1> SUFFICES ASSUME InstallerInit PROVE RerunInv
  OBVIOUS
<1>1. FilesInv
  BY DEF InstallerInit, FilesInv, IsFunctionOn, EnvKeys, Blank
<1>2. ProgressInv
  BY DEF InstallerInit, ProgressInv, PastTelegram, PastTelegramEnv, PastProviderEnv, PastProvider,
         PastDbPassword, PastApiServerKey, PastPassThrough, PastOthers, PastGpu, PastOllama,
         PastUid, PastEnvFile
<1>3. SettledInv
  BY DEF InstallerInit, SettledInv
<1> QED
  BY <1>1, <1>2, <1>3 DEF RerunInv

\* A run that has stopped has nothing behind it.
LEMMA StoppedProgress == ASSUME pc' \in {"idle", "plan", "died", "killed"} PROVE ProgressInv'
  BY DEF ProgressInv, PastTelegram, PastTelegramEnv, PastProviderEnv, PastProvider,
         PastDbPassword, PastApiServerKey, PastPassThrough, PastOthers, PastGpu, PastOllama,
         PastUid, PastEnvFile

\* A step that touches no file, from one place to the next.
LEMMA FilesKept ==
  ASSUME RerunInv, UNCHANGED <<exists, env, data, args, torn, last>>
  PROVE  FilesInv' /\ SettledInv'
<1>1. FilesInv'
  BY DEF RerunInv, FilesInv, IsFunctionOn
<1>2. Settled' <=> Settled
  BY DEF Settled, Layered
<1>3. \A k : Given(k)' = Given(k)
  BY DEF Given
<1>4. SettledInv'
  BY <1>2, <1>3 DEF RerunInv, SettledInv, IsFunctionOn
<1> QED
  BY <1>1, <1>4

\* Past the files, steps only move on.
LEMMA LaterKept ==
  ASSUME RerunInv, UNCHANGED <<exists, env, data, args, torn, last>>,
         pc' \in {"idle", "plan", "died", "killed"} \/ (pc \in PastTelegramEnv /\ pc' \in PastTelegramEnv)
                                                   \/ pc' = pc
  PROVE  RerunInv'
<1>1. CASE pc' \in {"idle", "plan", "died", "killed"}
  BY <1>1, FilesKept, StoppedProgress DEF RerunInv
<1>2. CASE pc \in PastTelegramEnv /\ pc' \in PastTelegramEnv
  <2>1. /\ pc \in PastTelegram /\ pc \in PastTelegramEnv /\ pc \in PastProviderEnv
        /\ pc \in PastProvider /\ pc \in PastDbPassword /\ pc \in PastApiServerKey
        /\ pc \in PastPassThrough /\ pc \in PastOthers /\ pc \in PastGpu /\ pc \in PastOllama
        /\ pc \in PastUid /\ pc \in PastEnvFile /\ pc' \notin {"provider_env", "telegram_env"}
    BY <1>2 DEF PastTelegram, PastTelegramEnv, PastProviderEnv, PastProvider,
         PastDbPassword, PastApiServerKey, PastPassThrough, PastOthers, PastGpu, PastOllama,
         PastUid, PastEnvFile
  <2>2. ProgressInv'
    BY <2>1 DEF RerunInv, ProgressInv, Layered
  <2> QED
    BY <2>2, FilesKept DEF RerunInv
<1>3. CASE pc' = pc
  <2>1. ProgressInv'
    BY <1>3 DEF RerunInv, ProgressInv, Layered
  <2> QED
    BY <2>1, FilesKept DEF RerunInv
<1> QED
  BY <1>1, <1>2, <1>3

\* Setting a key of .env, to what it is already if .env is settled.
LEMMA EnvWritten ==
  ASSUME RerunInv, NEW k \in EnvKeys, NEW value, NEW next,
         WriteEnv([env EXCEPT ![k] = value], next),
         k = "overrides" => value \in Seq({"ollama", "gpu", "baserow"}),
         last # {} /\ Settled /\ args.password # Weak => value = env[k]
  PROVE  /\ FilesInv' /\ SettledInv'
         /\ \/ pc' = "killed"
            \/ pc' = next /\ env' = [env EXCEPT ![k] = value]
         /\ UNCHANGED <<data, args, last>> /\ exists' = TRUE
<1>1. UNCHANGED <<data, args, last>> /\ exists' = TRUE
  BY DEF WriteEnv
<1> DEFINE content == [env EXCEPT ![k] = value]
<1>2. /\ IsFunctionOn(content, EnvKeys) /\ content["overrides"] \in Seq({"ollama", "gpu", "baserow"})
      /\ content[k] = value
      /\ \A j \in EnvKeys : j # k => content[j] = env[j]
  BY DEF RerunInv, FilesInv, IsFunctionOn, EnvKeys
<1>3. CASE env' = content /\ pc' = next /\ torn' = torn
  <2>1. FilesInv'
    BY <1>1, <1>2, <1>3 DEF RerunInv, FilesInv, IsFunctionOn
  <2>2. ASSUME NEW l \in last', torn' = {}, args'.password # Weak
        PROVE  /\ l.args = args' /\ env' = l.env /\ Settled'
               /\ IsFunctionOn(l.data, DataKeys)
               /\ \A j \in DataKeys :
                    IF Given(j)' = Blank THEN data'[j] = l.data[j] ELSE l.data[j] = Given(j)'
    <3>1. /\ l.args = args /\ env = l.env /\ Settled
          /\ IsFunctionOn(l.data, DataKeys)
          /\ \A j \in DataKeys :
               IF Given(j) = Blank THEN data[j] = l.data[j] ELSE l.data[j] = Given(j)
      BY <1>1, <1>3, <2>2 DEF RerunInv, SettledInv
    <3>2. value = env[k]
      BY <1>1, <2>2, <3>1
    <3>3. env' = env
      BY <1>2, <1>3, <3>2 DEF RerunInv, FilesInv, IsFunctionOn
    <3>4. Settled'
      BY <1>1, <3>1, <3>3 DEF Settled, Layered
    <3> QED
      BY <1>1, <3>1, <3>3, <3>4 DEF Given
  <2>3. \A l \in last' : l.args = args' /\ exists'
    BY <1>1 DEF RerunInv, SettledInv
  <2>4. SettledInv'
    BY <2>2, <2>3 DEF SettledInv, IsFunctionOn
  <2> QED
    BY <1>1, <1>3, <2>1, <2>4
<1>4. CASE env' \in Beginnings(content) /\ pc' = "killed" /\ torn' = torn \union {"env"}
  <2>1. PICK n : env' = [j \in EnvKeys |-> IF \E i \in 1..n : File[i] = j THEN content[j] ELSE Blank]
    BY <1>4 DEF Beginnings
  <2>2. env'["overrides"] \in {content["overrides"], Blank}
    BY <2>1 DEF EnvKeys
  <2>3. FilesInv'
    <3>1. Blank \in Seq({"ollama", "gpu", "baserow"})
      BY DEF Blank
    <3>2. IsFunctionOn(env', EnvKeys)
      BY <2>1 DEF IsFunctionOn
    <3>3. IsFunctionOn(data', DataKeys)
      BY <1>1 DEF RerunInv, FilesInv
    <3> QED
      BY <1>2, <2>2, <3>1, <3>2, <3>3 DEF FilesInv, IsFunctionOn
  <2>4. SettledInv'
    BY <1>1, <1>4 DEF RerunInv, SettledInv
  <2> QED
    BY <1>1, <1>4, <2>3, <2>4
<1> HIDE DEF content
<1>5. WriteEnv(content, next)
  BY DEF content
<1> QED
  BY <1>3, <1>4, <1>5 DEF WriteEnv, Goes, content

\* The first steps: .env, the user, the layers, --env, the secrets.
LEMMA FirstStepsRerun ==
  ASSUME RerunInv,
         \/ CreateEnv \/ SetUid \/ AddOllama \/ AddGpu \/ AddOthers \/ PassThrough
         \/ EnsureApiServerKey \/ EnsureDbPassword
  PROVE  RerunInv'
<1> USE DEF PastTelegram, PastTelegramEnv, PastProviderEnv, PastProvider,
         PastDbPassword, PastApiServerKey, PastPassThrough, PastOthers, PastGpu, PastOllama,
         PastUid, PastEnvFile
<1>1. CASE CreateEnv
  <2>1. CASE exists
    <3>1. pc' = "uid" /\ UNCHANGED <<exists, env, data, args, torn, last>>
      BY <1>1, <2>1 DEF CreateEnv, Skip, Goes, fileVars, historyVars
    <3>2. ProgressInv'
      BY <2>1, <3>1 DEF ProgressInv
    <3> QED
      BY <3>1, <3>2, FilesKept DEF RerunInv
  <2>2. CASE ~exists
    <3>1. WriteEnv(Example, "uid")
      BY <1>1, <2>2 DEF CreateEnv
    <3>2. UNCHANGED <<data, args, last>> /\ exists' /\ pc' \in {"uid", "killed"}
      BY <3>1 DEF WriteEnv, Goes
    <3>3. last = {}
      BY <2>2 DEF RerunInv, SettledInv
    <3>4. SettledInv'
      BY <3>2, <3>3 DEF SettledInv
    <3>5. ProgressInv'
      BY <3>2 DEF ProgressInv
    <3>6. IsFunctionOn(env', EnvKeys) /\ env'["overrides"] \in {Blank, Example["overrides"]}
      BY <3>1 DEF WriteEnv, Beginnings, IsFunctionOn, Example, EnvKeys
    <3>7. env'["overrides"] \in Seq({"ollama", "gpu", "baserow"})
      <4>1. Example["overrides"] = Blank
        BY DEF Example, EnvKeys
      <4>2. Blank \in Seq({"ollama", "gpu", "baserow"})
        BY DEF Blank
      <4> QED
        BY <3>6, <4>1, <4>2
    <3> QED
      BY <3>2, <3>4, <3>5, <3>6, <3>7 DEF RerunInv, FilesInv, IsFunctionOn
  <2> QED
    BY <2>1, <2>2
<1>2. CASE SetUid
  <2>1. WriteEnv([env EXCEPT !["hermes_uid"] = <<"uid">>], "ollama") /\ pc = "uid"
    BY <1>2 DEF SetUid, EnvSet
  <2>2. Settled => <<"uid">> = env["hermes_uid"]
    BY DEF Settled
  <2>3. /\ FilesInv' /\ SettledInv'
        /\ \/ pc' = "killed"
           \/ pc' = "ollama" /\ env' = [env EXCEPT !["hermes_uid"] = <<"uid">>]
        /\ exists' = TRUE
    BY <2>1, <2>2, EnvWritten DEF EnvKeys
  <2>4. ProgressInv'
    BY <2>3 DEF ProgressInv, RerunInv, FilesInv, IsFunctionOn, EnvKeys
  <2> QED
    BY <2>3, <2>4 DEF RerunInv
<1>3. ASSUME NEW o \in {"ollama", "gpu", "baserow"}, NEW next, ComposeAdd(o, next)
      PROVE  /\ FilesInv' /\ SettledInv' /\ UNCHANGED <<data, args>>
             /\ exists => exists'
             /\ \/ pc' = "killed"
                \/ /\ pc' = next
                   /\ \A k \in EnvKeys \ {"overrides"} : env'[k] = env[k]
                   /\ \A p \in {"ollama", "gpu", "baserow"} : Layered(p) => Layered(p)'
                   /\ o \in args.overrides => Layered(o)'
  <2>1. CASE o \notin args.overrides \/ Layered(o)
    <3>1. pc' = next /\ UNCHANGED <<exists, env, data, args, torn, last>>
      BY <1>3, <2>1 DEF ComposeAdd, Skip, Goes, fileVars, historyVars
    <3> QED
      BY <2>1, <3>1, FilesKept DEF Layered
  <2>2. CASE o \in args.overrides /\ ~Layered(o)
    <3> DEFINE old == env["overrides"]
               new == Append(old, o)
    <3>1. WriteEnv([env EXCEPT !["overrides"] = new], next)
      BY <1>3, <2>2 DEF ComposeAdd, EnvSet
    <3>2. old \in Seq({"ollama", "gpu", "baserow"})
      BY DEF RerunInv, FilesInv
    <3>3. /\ new \in Seq({"ollama", "gpu", "baserow"})
          /\ \A i \in 1..Len(old) : i \in 1..Len(new) /\ new[i] = old[i]
          /\ Len(old) + 1 \in 1..Len(new) /\ new[Len(old) + 1] = o
      BY <3>2
    <3>4. ~Settled
      BY <2>2 DEF Settled
    <3>5. /\ FilesInv' /\ SettledInv'
          /\ \/ pc' = "killed"
             \/ pc' = next /\ env' = [env EXCEPT !["overrides"] = new]
          /\ UNCHANGED <<data, args, last>> /\ exists' = TRUE
      <4> HIDE DEF new
      <4> QED
        BY <3>1, <3>3, <3>4, EnvWritten DEF EnvKeys
    <3>6. CASE pc' = next /\ env' = [env EXCEPT !["overrides"] = new]
      <4>1. env'["overrides"] = new /\ \A k \in EnvKeys \ {"overrides"} : env'[k] = env[k]
        <5> HIDE DEF new
        <5> QED
          BY <3>6 DEF RerunInv, FilesInv, IsFunctionOn, EnvKeys
      <4>2. \A p \in {"ollama", "gpu", "baserow"} : Layered(p) => Layered(p)'
        BY <3>3, <4>1 DEF Layered
      <4>3. Layered(o)'
        BY <3>3, <4>1 DEF Layered
      <4> QED
        BY <3>5, <3>6, <4>1, <4>2, <4>3
    <3> QED
      BY <3>5, <3>6
  <2> QED
    BY <2>1, <2>2
<1>4. CASE AddOllama
  <2>1. ComposeAdd("ollama", "gpu") /\ pc = "ollama"
    BY <1>4 DEF AddOllama
  <2>2. ProgressInv'
    BY <1>3, <2>1 DEF ProgressInv, RerunInv, EnvKeys
  <2> QED
    BY <1>3, <2>1, <2>2 DEF RerunInv
<1>5. CASE AddGpu
  <2>1. ComposeAdd("gpu", "others") /\ pc = "gpu"
    BY <1>5 DEF AddGpu
  <2>2. ProgressInv'
    BY <1>3, <2>1 DEF ProgressInv, RerunInv, EnvKeys
  <2> QED
    BY <1>3, <2>1, <2>2 DEF RerunInv
<1>6. CASE AddOthers
  <2>1. ComposeAdd("baserow", "passthrough") /\ pc = "others"
    BY <1>6 DEF AddOthers
  <2>2. ProgressInv'
    BY <1>3, <2>1 DEF ProgressInv, RerunInv, EnvKeys
  <2> QED
    BY <1>3, <2>1, <2>2 DEF RerunInv
<1>7. CASE PassThrough
  <2>1. CASE args.password = Blank
    <3>1. pc = "passthrough" /\ pc' = "api_server_key"
          /\ UNCHANGED <<exists, env, data, args, torn, last>>
      BY <1>7, <2>1 DEF PassThrough, Skip, Goes, fileVars, historyVars
    <3>2. ProgressInv'
      BY <2>1, <3>1 DEF ProgressInv, RerunInv, Layered
    <3> QED
      BY <3>1, <3>2, FilesKept DEF RerunInv
  <2>2. CASE args.password # Blank
    <3>1. WriteEnv([env EXCEPT !["db_password"] = args.password], "api_server_key")
          /\ pc = "passthrough"
      BY <1>7, <2>2 DEF PassThrough
    <3>2. Settled => args.password = env["db_password"]
      BY <2>2 DEF Settled
    <3>3. /\ FilesInv' /\ SettledInv'
          /\ \/ pc' = "killed"
             \/ pc' = "api_server_key" /\ env' = [env EXCEPT !["db_password"] = args.password]
          /\ UNCHANGED <<data, args, last>> /\ exists' = TRUE
      BY <3>1, <3>2, EnvWritten DEF EnvKeys
    <3>4. ProgressInv'
      BY <3>1, <3>3 DEF ProgressInv, RerunInv, FilesInv, IsFunctionOn, EnvKeys, Layered
    <3> QED
      BY <3>3, <3>4 DEF RerunInv
  <2> QED
    BY <2>1, <2>2
<1>8. Fresh # Blank /\ Fresh # Weak
  BY DEF Fresh, Blank, Weak
<1>9. ASSUME NEW k \in {"api_server_key", "db_password"}, NEW weak \in {Blank, Weak}, NEW next,
             weak = Weak <=> k = "db_password",
             EnsureSecret(k, weak, next)
      PROVE  /\ FilesInv' /\ SettledInv' /\ UNCHANGED <<data, args>>
             /\ exists => exists'
             /\ \/ pc' = "killed"
                \/ /\ pc' = next
                   /\ \A j \in EnvKeys \ {k} : env'[j] = env[j]
                   /\ env'[k] \notin {Blank, weak}
                   /\ env[k] \notin {Blank, weak} => env'[k] = env[k]
  <2>1. CASE ~Missing(k, weak)
    <3>1. pc' = next /\ UNCHANGED <<exists, env, data, args, torn, last>>
      BY <1>9, <2>1 DEF EnsureSecret, Skip, Goes, fileVars, historyVars
    <3> QED
      BY <2>1, <3>1, FilesKept DEF Missing
  <2>2. CASE Missing(k, weak)
    <3>1. WriteEnv([env EXCEPT ![k] = Fresh], next)
      BY <1>9, <2>2 DEF EnsureSecret, EnvSet
    <3>2. ~Settled
      BY <1>9, <2>2 DEF Settled, Missing
    <3>3. /\ FilesInv' /\ SettledInv'
          /\ \/ pc' = "killed"
             \/ pc' = next /\ env' = [env EXCEPT ![k] = Fresh]
          /\ UNCHANGED <<data, args, last>> /\ exists' = TRUE
      BY <1>9, <3>1, <3>2, EnvWritten DEF EnvKeys
    <3> QED
      BY <1>8, <1>9, <2>2, <3>3 DEF RerunInv, FilesInv, IsFunctionOn, EnvKeys, Missing
  <2> QED
    BY <2>1, <2>2
<1>10. Blank # Weak
  BY DEF Blank, Weak
<1>11. CASE EnsureApiServerKey
  <2>1. EnsureSecret("api_server_key", Blank, "db_password") /\ pc = "api_server_key"
    BY <1>11 DEF EnsureApiServerKey
  <2>2. /\ FilesInv' /\ SettledInv' /\ UNCHANGED <<data, args>>
        /\ exists => exists'
        /\ \/ pc' = "killed"
           \/ /\ pc' = "db_password"
              /\ \A j \in EnvKeys \ {"api_server_key"} : env'[j] = env[j]
              /\ env'["api_server_key"] # Blank
    BY <1>9, <1>10, <2>1
  <2>3. ProgressInv'
    BY <2>1, <2>2 DEF ProgressInv, RerunInv, EnvKeys, Layered
  <2> QED
    BY <2>2, <2>3 DEF RerunInv
<1>12. CASE EnsureDbPassword
  <2>1. EnsureSecret("db_password", Weak, "provider_data") /\ pc = "db_password"
    BY <1>12 DEF EnsureDbPassword
  <2>2. /\ FilesInv' /\ SettledInv' /\ UNCHANGED <<data, args>>
        /\ exists => exists'
        /\ \/ pc' = "killed"
           \/ /\ pc' = "provider_data"
              /\ \A j \in EnvKeys \ {"db_password"} : env'[j] = env[j]
              /\ env'["db_password"] \notin {Blank, Weak}
              /\ env["db_password"] \notin {Blank, Weak} => env'["db_password"] = env["db_password"]
    BY <1>9, <1>10, <2>1
  <2>3. ProgressInv'
    BY <2>1, <2>2 DEF ProgressInv, RerunInv, EnvKeys, Layered
  <2> QED
    BY <2>2, <2>3 DEF RerunInv
<1> QED
  BY <1>1, <1>2, <1>4, <1>5, <1>6, <1>7, <1>11, <1>12

\* The steps that give the data directory's file and .env the same keys.
LEMMA SharedKeysRerun ==
  ASSUME RerunInv, ProviderData \/ ProviderEnv \/ TelegramData \/ TelegramEnv
  PROVE  RerunInv'
<1> USE DEF PastTelegram, PastTelegramEnv, PastProviderEnv, PastProvider,
         PastDbPassword, PastApiServerKey, PastPassThrough, PastOthers, PastGpu, PastOllama,
         PastUid, PastEnvFile
<1>1. ASSUME NEW k \in DataKeys, NEW next, Given(k) # Blank, DataSet(k, Given(k), next)
      PROVE  /\ FilesInv' /\ SettledInv' /\ UNCHANGED <<exists, env, args>>
             /\ \/ pc' = "killed"
                \/ pc' = next /\ data' = [data EXCEPT ![k] = Given(k)]
  <2>1. UNCHANGED <<exists, env, args, last>>
    BY <1>1 DEF DataSet
  <2>2. /\ Settled' <=> Settled
        /\ \A j : Given(j)' = Given(j)
    BY <2>1 DEF Settled, Layered, Given
  <2>3. ASSUME NEW value, data' = [data EXCEPT ![k] = value], torn' = torn,
               value \in {Blank, Given(k)}
        PROVE  FilesInv' /\ SettledInv'
    <3>1. /\ IsFunctionOn(data', DataKeys) /\ data'[k] = value
          /\ \A j \in DataKeys : j # k => data'[j] = data[j]
      BY <2>3 DEF RerunInv, FilesInv, IsFunctionOn
    <3>2. FilesInv'
      BY <2>1, <3>1 DEF RerunInv, FilesInv, IsFunctionOn
    <3>3. ASSUME NEW l \in last', torn' = {}, args'.password # Weak, NEW j \in DataKeys
          PROVE  IF Given(j)' = Blank THEN data'[j] = l.data[j] ELSE l.data[j] = Given(j)'
      <4>1. IF Given(j) = Blank THEN data[j] = l.data[j] ELSE l.data[j] = Given(j)
        BY <2>1, <2>3, <3>3 DEF RerunInv, SettledInv
      <4>2. CASE j = k
        BY <1>1, <2>2, <4>1, <4>2
      <4>3. CASE j # k
        BY <2>2, <3>1, <4>1, <4>3
      <4> QED
        BY <4>2, <4>3
    <3>4. SettledInv'
      BY <2>1, <2>2, <2>3, <3>3 DEF RerunInv, SettledInv, IsFunctionOn
    <3> QED
      BY <3>2, <3>4
  <2>4. CASE data' = [j \in DataKeys |-> Blank] /\ pc' = "killed" /\ torn' = torn \union {"data"}
    <3>1. FilesInv'
      BY <2>1, <2>4 DEF RerunInv, FilesInv, IsFunctionOn
    <3>2. SettledInv'
      BY <2>1, <2>4 DEF RerunInv, SettledInv
    <3> QED
      BY <2>1, <2>4, <3>1, <3>2
  <2> QED
    BY <1>1, <2>1, <2>3, <2>4 DEF DataSet, Goes
<1>2. CASE ProviderData
  <2>1. CASE args.key = Blank
    <3>1. pc = "provider_data" /\ pc' = "telegram_data"
          /\ UNCHANGED <<exists, env, data, args, torn, last>>
      BY <1>2, <2>1 DEF ProviderData, Skip, Goes, fileVars, historyVars
    <3>2. ProgressInv'
      BY <2>1, <3>1 DEF ProgressInv, RerunInv, Layered
    <3> QED
      BY <3>1, <3>2, FilesKept DEF RerunInv
  <2>2. CASE args.key # Blank
    <3>1. /\ Given("provider_key") = args.key /\ pc = "provider_data"
          /\ DataSet("provider_key", args.key, "provider_env")
      BY <1>2, <2>2 DEF ProviderData, Given
    <3>2. /\ FilesInv' /\ SettledInv' /\ UNCHANGED <<exists, env, args>>
          /\ \/ pc' = "killed"
             \/ pc' = "provider_env" /\ data' = [data EXCEPT !["provider_key"] = args.key]
      BY <1>1, <2>2, <3>1 DEF DataKeys
    <3>3. ProgressInv'
      BY <2>2, <3>1, <3>2 DEF ProgressInv, RerunInv, FilesInv, IsFunctionOn, DataKeys, Layered
    <3> QED
      BY <3>2, <3>3 DEF RerunInv
  <2> QED
    BY <2>1, <2>2
<1>3. CASE ProviderEnv
  <2>1. WriteEnv([env EXCEPT !["provider_key"] = args.key], "telegram_data") /\ pc = "provider_env"
    BY <1>3 DEF ProviderEnv, EnvSet
  <2>2. Settled => args.key = env["provider_key"]
    BY <2>1 DEF Settled, RerunInv, ProgressInv
  <2>3. /\ FilesInv' /\ SettledInv'
        /\ \/ pc' = "killed"
           \/ pc' = "telegram_data" /\ env' = [env EXCEPT !["provider_key"] = args.key]
        /\ UNCHANGED <<data, args, last>> /\ exists' = TRUE
    BY <2>1, <2>2, EnvWritten DEF EnvKeys
  <2>4. ProgressInv'
    BY <2>1, <2>3 DEF ProgressInv, RerunInv, FilesInv, IsFunctionOn, EnvKeys, Layered
  <2> QED
    BY <2>3, <2>4 DEF RerunInv
<1>4. CASE TelegramData
  <2>1. CASE args.telegram = Blank
    <3>1. pc = "telegram_data" /\ pc' = "up"
          /\ UNCHANGED <<exists, env, data, args, torn, last>>
      BY <1>4, <2>1 DEF TelegramData, Skip, Goes, fileVars, historyVars
    <3>2. ProgressInv'
      BY <2>1, <3>1 DEF ProgressInv, RerunInv, Layered
    <3> QED
      BY <3>1, <3>2, FilesKept DEF RerunInv
  <2>2. CASE args.telegram # Blank
    <3>1. /\ Given("telegram") = args.telegram /\ pc = "telegram_data"
          /\ DataSet("telegram", args.telegram, "telegram_env")
      BY <1>4, <2>2 DEF TelegramData, Given
    <3>2. /\ FilesInv' /\ SettledInv' /\ UNCHANGED <<exists, env, args>>
          /\ \/ pc' = "killed"
             \/ pc' = "telegram_env" /\ data' = [data EXCEPT !["telegram"] = args.telegram]
      BY <1>1, <2>2, <3>1 DEF DataKeys
    <3>3. ProgressInv'
      BY <2>2, <3>1, <3>2 DEF ProgressInv, RerunInv, FilesInv, IsFunctionOn, DataKeys, Layered
    <3> QED
      BY <3>2, <3>3 DEF RerunInv
  <2> QED
    BY <2>1, <2>2
<1>5. CASE TelegramEnv
  <2>1. WriteEnv([env EXCEPT !["telegram"] = args.telegram], "telegram_restart")
        /\ pc = "telegram_env"
    BY <1>5 DEF TelegramEnv, EnvSet
  <2>2. Settled => args.telegram = env["telegram"]
    BY <2>1 DEF Settled, RerunInv, ProgressInv
  <2>3. /\ FilesInv' /\ SettledInv'
        /\ \/ pc' = "killed"
           \/ pc' = "telegram_restart" /\ env' = [env EXCEPT !["telegram"] = args.telegram]
        /\ UNCHANGED <<data, args, last>> /\ exists' = TRUE
    BY <2>1, <2>2, EnvWritten DEF EnvKeys
  <2>4. ProgressInv'
    BY <2>1, <2>3 DEF ProgressInv, RerunInv, FilesInv, IsFunctionOn, EnvKeys, Layered
  <2> QED
    BY <2>3, <2>4 DEF RerunInv
<1> QED
  BY <1>2, <1>3, <1>4, <1>5

\* A run that ends has settled both files.
LEMMA FinishedIsSettled ==
  ASSUME RerunInv, pc = "skills", args.password # Weak
  PROVE  /\ exists /\ Settled
         /\ \A k \in DataKeys : Given(k) # Blank => data[k] = Given(k)
<1>1. /\ pc \in PastTelegram /\ pc \in PastTelegramEnv /\ pc \in PastProviderEnv
      /\ pc \in PastProvider /\ pc \in PastDbPassword /\ pc \in PastApiServerKey
      /\ pc \in PastPassThrough /\ pc \in PastOthers /\ pc \in PastGpu /\ pc \in PastOllama
      /\ pc \in PastUid /\ pc \in PastEnvFile
  BY DEF PastTelegram, PastTelegramEnv, PastProviderEnv, PastProvider,
         PastDbPassword, PastApiServerKey, PastPassThrough, PastOthers, PastGpu, PastOllama,
         PastUid, PastEnvFile
<1> QED
  BY <1>1 DEF RerunInv, ProgressInv, Settled, Given, DataKeys

LEMMA RerunStep == RerunInv /\ [InstallerNext]_installerVars => RerunInv'
<1> SUFFICES ASSUME RerunInv, [InstallerNext]_installerVars
             PROVE  RerunInv'
  OBVIOUS
<1> USE DEF Goes, fileVars, stackVars, windmillVars, historyVars
<1>1. CASE UNCHANGED installerVars
  BY <1>1, LaterKept DEF installerVars
<1>2. ASSUME NEW a \in Arguments, Begin(a) PROVE RerunInv'
  <2>1. /\ UNCHANGED <<exists, env, data, torn>> /\ pc' = "plan"
        /\ last' = {l \in last : l.args = args'}
    BY <1>2 DEF Begin
  <2>2. FilesInv' /\ ProgressInv'
    BY <2>1, StoppedProgress DEF RerunInv, FilesInv, IsFunctionOn
  <2>3. CASE last' = {}
    BY <2>2, <2>3 DEF RerunInv, SettledInv
  <2>4. CASE args' = args
    <3>1. Settled' <=> Settled
      BY <2>1, <2>4 DEF Settled, Layered
    <3>2. \A k : Given(k)' = Given(k)
      BY <2>4 DEF Given
    <3>3. \A l \in last' : l \in last
      BY <2>1
    <3>4. SettledInv'
      BY <2>1, <2>4, <3>1, <3>2, <3>3 DEF RerunInv, SettledInv, IsFunctionOn
    <3> QED
      BY <2>2, <3>4 DEF RerunInv
  <2>5. last' = {} \/ args' = args
    BY <2>1 DEF RerunInv, SettledInv
  <2> QED
    BY <2>2, <2>3, <2>4, <2>5 DEF RerunInv
<1>3. CASE Plan
  <2>1. /\ pc = "plan" /\ pc' \in {"env_file", "died", "idle"}
        /\ UNCHANGED <<exists, env, data, args, torn, last>>
    BY <1>3 DEF Plan, Skip
  <2>2. ProgressInv'
    BY <2>1 DEF ProgressInv, PastTelegram, PastTelegramEnv, PastProviderEnv, PastProvider,
         PastDbPassword, PastApiServerKey, PastPassThrough, PastOthers, PastGpu, PastOllama,
         PastUid, PastEnvFile
  <2> QED
    BY <2>1, <2>2, FilesKept DEF RerunInv
<1>4. CASE CreateEnv \/ SetUid \/ AddOllama \/ AddGpu \/ AddOthers \/ PassThrough
           \/ EnsureApiServerKey \/ EnsureDbPassword
  BY <1>4, FirstStepsRerun
<1>5. CASE ProviderData \/ ProviderEnv \/ TelegramData \/ TelegramEnv
  BY <1>5, SharedKeysRerun
<1>6. CASE TelegramRestart \/ Up \/ Heal \/ Healthy \/ Memory \/ Headroom
  <2>1. UNCHANGED <<exists, env, data, args, torn, last>>
    BY <1>6 DEF TelegramRestart, Up, Heal, Healthy, Memory, Headroom, Restart, Skip
  <2>2. pc' = "died" \/ (pc \in PastTelegramEnv /\ pc' \in PastTelegramEnv)
    BY <1>6 DEF TelegramRestart, Up, Heal, Healthy, Memory, Headroom, Restart, Skip,
                PastTelegram, PastTelegramEnv
  <2> QED
    BY <2>1, <2>2, LaterKept
<1>7. CASE Login \/ CreateWorkspace \/ DryRun \/ Push \/ SeedApiKey \/ SeedTelegram
  <2>1. UNCHANGED <<exists, env, data, args, torn, last>>
    BY <1>7 DEF Login, CreateWorkspace, DryRun, Push, SeedApiKey, SeedTelegram, Seed, Skip
  <2>2. pc \in PastTelegramEnv /\ pc' \in PastTelegramEnv
    BY <1>7 DEF Login, CreateWorkspace, DryRun, AfterDryRun, Push, SeedApiKey, SeedTelegram,
                Seed, Skip, PastTelegram, PastTelegramEnv
  <2> QED
    BY <2>1, <2>2, LaterKept
<1>8. CASE Finish
  <2>1. /\ UNCHANGED <<exists, env, data, args, torn>> /\ pc = "skills" /\ pc' = "done"
        /\ last' = {[args |-> args, env |-> env, data |-> data]}
    BY <1>8 DEF Finish
  <2>2. FilesInv'
    BY <2>1 DEF RerunInv, FilesInv, IsFunctionOn
  <2>3. ProgressInv'
    BY <2>1 DEF RerunInv, ProgressInv, Layered, PastTelegram, PastTelegramEnv, PastProviderEnv,
         PastProvider, PastDbPassword, PastApiServerKey, PastPassThrough, PastOthers, PastGpu,
         PastOllama, PastUid, PastEnvFile
  <2>4. exists
    BY <2>1 DEF RerunInv, ProgressInv, PastTelegram, PastTelegramEnv, PastProviderEnv,
         PastProvider, PastDbPassword, PastApiServerKey, PastPassThrough, PastOthers, PastGpu,
         PastOllama, PastUid, PastEnvFile
  <2>5. Settled' <=> Settled
    BY <2>1 DEF Settled, Layered
  <2>6. \A k : Given(k)' = Given(k)
    BY <2>1 DEF Given
  <2>7. ASSUME args.password # Weak
        PROVE  Settled /\ \A k \in DataKeys : Given(k) # Blank => data[k] = Given(k)
    BY <2>1, <2>7, FinishedIsSettled
  <2>8. SettledInv'
    BY <2>1, <2>4, <2>5, <2>6, <2>7 DEF SettledInv, RerunInv, FilesInv, IsFunctionOn
  <2> QED
    BY <2>2, <2>3, <2>8 DEF RerunInv
<1>9. CASE Kill
  BY <1>9, LaterKept DEF Kill, Skip
<1>10. CASE StartStack
  BY <1>10, LaterKept DEF StartStack
<1>11. ASSUME NEW i \in Items, Build(i) PROVE RerunInv'
  BY <1>11, LaterKept DEF Build
<1> QED
  BY <1>1, <1>2, <1>3, <1>4, <1>5, <1>6, <1>7, <1>8, <1>9, <1>10, <1>11
     DEF InstallerNext, Install

\* "Safe to re-run (idempotent)": whatever runs with the same arguments are killed or die
\* between them, the next one that completes leaves the files that the last one left, with
\* the exceptions that Idempotent names (env_set, compose_add, ensure_secret, set_data_env).
THEOREM RerunsAreIdempotent == InstallerSpec => Idempotent
<1>1. RerunInv /\ [InstallerNext]_installerVars =>
        [pc' = "done" /\ pc # "done" /\ torn = {} /\ args.password # Weak =>
           \A l \in last : env = l.env /\ data = l.data]_installerVars
  <2> SUFFICES ASSUME RerunInv, [InstallerNext]_installerVars,
                      pc' = "done", pc # "done", torn = {}, args.password # Weak, NEW l \in last
               PROVE  env = l.env /\ data = l.data
    OBVIOUS
  <2>1. pc = "skills"
    <3> USE DEF Goes, fileVars, stackVars, windmillVars, historyVars
    <3>1. CASE UNCHANGED installerVars
      BY <3>1 DEF installerVars
    <3>2. ASSUME NEW a \in Arguments, Begin(a) PROVE FALSE
      BY <3>2 DEF Begin
    <3>3. CASE Plan \/ CreateEnv \/ SetUid \/ Kill \/ AddOllama \/ AddGpu \/ AddOthers
      BY <3>3 DEF Plan, CreateEnv, SetUid, Kill, AddOllama, AddGpu, AddOthers, ComposeAdd, Skip,
                  EnvSet, WriteEnv
    <3>4. CASE PassThrough \/ EnsureApiServerKey \/ EnsureDbPassword
      BY <3>4 DEF PassThrough, EnsureApiServerKey, EnsureDbPassword, EnsureSecret, Skip, EnvSet,
                  WriteEnv
    <3>5. CASE ProviderData \/ ProviderEnv \/ TelegramData \/ TelegramEnv
      BY <3>5 DEF ProviderData, ProviderEnv, TelegramData, TelegramEnv, DataSet, Skip, EnvSet,
                  WriteEnv
    <3>6. CASE TelegramRestart \/ Up \/ Heal \/ Healthy \/ Memory \/ Headroom
      BY <3>6 DEF TelegramRestart, Up, Heal, Healthy, Memory, Headroom, Restart, Skip
    <3>7. CASE Login \/ CreateWorkspace \/ DryRun \/ Push \/ SeedApiKey \/ SeedTelegram
      BY <3>7 DEF Login, CreateWorkspace, DryRun, AfterDryRun, Push, SeedApiKey, SeedTelegram,
                  Seed, Skip
    <3>8. CASE Finish
      BY <3>8 DEF Finish
    <3>9. CASE StartStack
      BY <3>9 DEF StartStack
    <3>10. ASSUME NEW j \in Items, Build(j) PROVE FALSE
      BY <3>10 DEF Build
    <3> QED
      BY <3>1, <3>2, <3>3, <3>4, <3>5, <3>6, <3>7, <3>8, <3>9, <3>10 DEF InstallerNext, Install
  <2>2. /\ env = l.env /\ IsFunctionOn(data, DataKeys) /\ IsFunctionOn(l.data, DataKeys)
        /\ \A k \in DataKeys :
             IF Given(k) = Blank THEN data[k] = l.data[k] ELSE l.data[k] = Given(k)
    BY DEF RerunInv, SettledInv, FilesInv
  <2>3. \A k \in DataKeys : Given(k) # Blank => data[k] = Given(k)
    BY <2>1, FinishedIsSettled
  <2> QED
    BY <2>2, <2>3 DEF IsFunctionOn
<1> QED
  BY <1>1, RerunInitially, RerunStep, PTL DEF InstallerSpec, Idempotent
=============================================================================
