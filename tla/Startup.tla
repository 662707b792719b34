------------------------------ MODULE Startup ------------------------------
(***************************************************************************)
(* From the configuration file to the first launches: main() and run() of  *)
(* cmd/incuse/main.go in order, for a process that is started again after  *)
(* the operator has changed the file.  Who refuses what, and when, is the  *)
(* subject; what GitHub and Incus answer is in Supervisor and Orchestrator.*)
(***************************************************************************)
EXTENDS Settings

CONSTANTS
  Base,       \* the configurations the operator starts from
  Alternates, \* Alternates[f]: other values of field f
  Path,       \* the files a configuration may name
  Text,       \* the strings YAML may put into the other fields
  RandomSuffixes, \* what randomNameSuffix may return
  MaxEdits    \* bound: how many changes the operator makes

FileMode == {"missing", "directory", "0600", "0644", "0666"}
Content == {"text", "empty", "unreadable"}

\* The fields of the file and what each may hold.
FieldType ==
  LET File == Path \cup {""}
      Class == [vcpus : DOMAIN Decimal, memory_gib : DOMAIN Decimal,
                disk_gib : DOMAIN Decimal, arch : DOMAIN ArchName,
                max_runners : Int]
  IN [config_url |-> Text, mode |-> Text, pat_file |-> File,
      client_id |-> Text, private_key_file |-> File,
      installation_id |-> Int,
      prefix |-> Seq(Character), runner_group |-> Text,
      base_labels |-> Seq(Seq(Character)), classes |-> Seq(Class),
      url |-> Text, cert_file |-> File, key_file |-> File,
      server_cert_file |-> File, project |-> Text,
      default_profile |-> Text, storage_pool |-> Text,
      request_timeout |-> Int, use_baked_image |-> BOOLEAN,
      image_server |-> Text, image_protocol |-> Text,
      image_alias |-> Text, work_folder |-> Text,
      registration_timeout |-> Int, max_job_duration |-> Int,
      release_cache_ttl |-> Seq(Int), max_parallel_mints |-> Int,
      max_parallel_launches |-> Int, instance_type |-> Text,
      privileged |-> BOOLEAN]

IsConfiguration(c) ==
  /\ c = [f \in DOMAIN FieldType |-> c[f]]
  /\ \A f \in DOMAIN FieldType : c[f] \in FieldType[f]

ASSUME StartupAssumption ==
  /\ {"", "Default", "incuse", "incuse-runner", "images", "simplestreams",
      "ubuntu", "_work", "vm"} \subseteq Text
  /\ \A c \in Base : IsConfiguration(c)
  /\ DOMAIN Alternates \subseteq DOMAIN FieldType
  /\ \A f \in DOMAIN Alternates : Alternates[f] \subseteq FieldType[f]
  /\ \A s \in RandomSuffixes :
       s \in Seq(Lowercase \cup Digit) /\ Len(s) = SuffixLen
  /\ MaxEdits \in Nat

VARIABLES
  config,    \* the configuration file
  mode,      \* mode[p]: mode of file p, if it is a regular file
  content,   \* content[p]: what reading p yields
  edits,     \* how many changes the operator has made
  proc,      \* where main is
  cur,       \* the class the loop of run() is at
  read,      \* the files this process has opened, with the secrecy they need
  failure,   \* what the last failed start was blamed on
  hub,       \* GitHub: for each scale set, by group and name, the labels last
             \* sent
  wrote,     \* the last bootstrap created or updated its scale set
  requests   \* the launches this process has asked for

inputVars == <<config, mode, content, edits>>
startupVars == <<inputVars, proc, cur, read, failure, hub, wrote, requests>>

\* What this process works with: the file, read once, with its defaults.
cfg == ApplyDefaults(config)
Spec(i) == ScaleSetSpecs(cfg)[i]
ScaleSet(i) == <<Spec(i).runner_group, Spec(i).name>>
Classes == DOMAIN cfg.classes

StartupInit ==
  /\ config \in Base
  /\ mode = [p \in Path |-> "0600"]
  /\ content = [p \in Path |-> "text"]
  /\ edits = 0
  /\ proc = "down" /\ cur = 1 /\ read = {} /\ failure = "none"
  /\ hub = <<>> /\ wrote = FALSE /\ requests = {}

----------------------------------------------------------------------------
(* The operator, while the process is down.                                *)

Edit ==
  /\ proc = "down"
  /\ edits < MaxEdits
  /\ edits' = edits + 1
  /\ \/ /\ \E f \in DOMAIN Alternates : \E v \in Alternates[f] :
             config' = [config EXCEPT ![f] = v]
        /\ UNCHANGED <<mode, content>>
     \/ /\ \E p \in Path : \E m \in FileMode : mode' = [mode EXCEPT ![p] = m]
        /\ UNCHANGED <<config, content>>
     \/ /\ \E p \in Path : \E t \in Content : content' = [content EXCEPT ![p] = t]
        /\ UNCHANGED <<config, mode>>
  /\ UNCHANGED <<proc, cur, read, failure, hub, wrote, requests>>

----------------------------------------------------------------------------
(* main and run.                                                           *)

Proceed(l) == proc' = l /\ UNCHANGED failure
Refuse(why) == proc' = "failed" /\ failure' = why

\* Load: defaults, then Validate.
Load ==
  /\ proc = "down"
  /\ IF Validate(cfg) THEN Proceed("preflight") ELSE Refuse("config")
  /\ UNCHANGED <<inputVars, cur, read, hub, wrote, requests>>

Preflight ==
  /\ proc = "preflight"
  /\ IF PreflightOK(cfg, mode) THEN Proceed("connect") ELSE Refuse("preflight")
  /\ UNCHANGED <<inputVars, cur, read, hub, wrote, requests>>

\* --validate: the process ends here.
ValidateOnly ==
  /\ proc = "connect"
  /\ Proceed("down")
  /\ UNCHANGED <<inputVars, cur, read, hub, wrote, requests>>

Readable(p) == mode[p] \notin {"missing", "directory"} /\ content[p] # "unreadable"

ReadAll(refs, next) ==
  /\ read' = read \cup refs
  /\ IF \A ref \in refs : Readable(ref[1]) THEN Proceed(next) ELSE Refuse("file")

\* incus.Connect.
Connect ==
  /\ proc = "connect"
  /\ IF DialAccepts(cfg) THEN ReadAll(DialReads(cfg), "creds")
                         ELSE Refuse("setting") /\ UNCHANGED read
  /\ UNCHANGED <<inputVars, cur, hub, wrote, requests>>

ReadAuthCreds ==
  /\ proc = "creds"
  /\ IF AuthReads(cfg) = {} THEN Refuse("setting") /\ UNCHANGED read
                            ELSE ReadAll(AuthReads(cfg), "new")
  /\ UNCHANGED <<inputVars, cur, hub, wrote, requests>>

\* Nothing is left of a token after its trailing white space is trimmed.
EmptySecret == \E ref \in AuthReads(cfg) : content[ref[1]] = "empty"

NewScaleSet ==
  /\ proc = "new"
  /\ IF ~NewScaleSetAccepts(cfg, Spec(cur)) THEN Refuse("setting")
     ELSE IF EmptySecret THEN Refuse("secret") ELSE Proceed("bootstrap")
  /\ UNCHANGED <<inputVars, cur, read, hub, wrote, requests>>

\* reconcileScaleSet: the set is created, its labels are updated, or neither.
Reconcile(set, want) ==
  /\ IF set \in DOMAIN hub
       THEN \E existing \in Reorderings(Stored(hub[set])) :
              wrote' = ~LabelNamesMatch(existing, want)
       ELSE wrote' = TRUE
  /\ hub' = IF wrote' THEN (set :> want) @@ hub ELSE hub

\* The client is built, and the scale set looked up in its runner group.
Bootstrap ==
  /\ proc = "bootstrap"
  /\ IF BuildClientAccepts(cfg)
       THEN /\ Reconcile(ScaleSet(cur), Spec(cur).base_labels)
            /\ Proceed("orchestrator")
       ELSE Refuse("setting") /\ wrote' = FALSE /\ UNCHANGED hub
  /\ UNCHANGED <<inputVars, cur, read, requests>>

\* Mutant: the loop goes on after the last class.
NewOrchestrator_PastLast ==
  /\ proc = "orchestrator"
  /\ cur' = cur + 1
  /\ Proceed(IF cur > Len(cfg.classes) THEN "serving" ELSE "orchestrator")
  /\ UNCHANGED <<inputVars, read, hub, wrote, requests>>

NewOrchestrator ==
  /\ proc = "orchestrator"
  /\ IF NewOrchestratorAccepts(cfg, Spec(cur))
       THEN /\ cur' = cur + 1
            /\ Proceed(IF cur = Len(cfg.classes) THEN "serving" ELSE "new")
       ELSE Refuse("setting") /\ UNCHANGED cur
  /\ UNCHANGED <<inputVars, read, hub, wrote, requests>>

\* One spawnIdleRunner of a class, up to the daemon's answer.
SpawnRunner(i, suffix) ==
  /\ proc = "serving"
  /\ LET name == MakeRunnerName(Spec(i).name, suffix)
         req == LaunchRequest(cfg, Spec(i), name)
     IN IF RenderAccepts(cfg, name) /\ LaunchAccepts(req)
          THEN /\ requests' = requests \cup
                    {[class |-> i, suffix |-> suffix, req |-> req]}
               /\ Proceed("serving")
          ELSE Refuse("setting") /\ UNCHANGED requests
  /\ UNCHANGED <<inputVars, cur, read, hub, wrote>>

\* The process has failed or is stopped; GitHub keeps its scale sets.
Stop ==
  /\ proc \in {"failed", "serving"}
  /\ Proceed("down")
  /\ cur' = 1 /\ read' = {} /\ requests' = {}
  /\ UNCHANGED <<inputVars, hub, wrote>>

StartupNext ==
  \/ Edit
  \/ Load \/ Preflight \/ ValidateOnly \/ Connect \/ ReadAuthCreds
  \/ NewScaleSet \/ Bootstrap \/ NewOrchestrator
  \/ \E i \in Classes, suffix \in RandomSuffixes : SpawnRunner(i, suffix)
  \/ Stop

StartupSpec == StartupInit /\ [][StartupNext]_startupVars

----------------------------------------------------------------------------

\* Every variable has its type, and run() loops over the classes it has.
StartupTypeOK ==
  /\ IsConfiguration(config)
  /\ mode \in [Path -> FileMode] /\ content \in [Path -> Content]
  /\ edits \in 0 .. MaxEdits
  /\ proc \in {"down", "preflight", "connect", "creds", "new", "bootstrap",
               "orchestrator", "serving", "failed"}
  /\ cur \in 1 .. Len(cfg.classes) + 1
  /\ read \subseteq Path \X {"0600", "0644"}
  /\ failure \in {"none", "config", "preflight", "file", "secret", "setting"}
  /\ wrote \in BOOLEAN
  /\ \A q \in requests : q.class \in Classes /\ q.suffix \in RandomSuffixes

\* No constructor, renderer or launch objects to a setting that Validate has
\* accepted, but for one: a config_url that has a scheme and a host and names no
\* organization, repository or enterprise.  Such a file passes --validate and
\* every process that is started with it fails (config.go:255, scaleset.go:113).
\* Otherwise only an unreadable or empty file, GitHub and Incus can keep the
\* process from launching runners of every class.
NoLateRefusal ==
  proc = "failed" /\ failure = "setting" => ~BuildClientAccepts(cfg)

\* Start-up never reads a file Preflight has not looked at: none that is wider
\* than what it is used for allows, in either mode of authentication and with
\* either transport.
ReadsOnlyVetted == \A ref \in read : mode[ref[1]] \in Allows(ref[2])

\* One local image is never launched for two architectures, whatever classes
\* are configured ("image_alias resolves to one local image", config.go:304).
OneArchPerLocalImage ==
  \A p, q \in requests :
    LocalImage(p.req) /\ LocalImage(q.req) /\ p.req.alias = q.req.alias =>
      p.req.architecture = q.req.architecture

\* A runner's name fits Incus' limit, starts with a letter, does not end in a
\* dash, and tells both its class and its suffix: what the limit on scale-set
\* names (54) leaves is enough for the suffix, so nothing is ever cut off.
RunnerNamesTell ==
  /\ \A q \in requests :
       /\ Len(q.req.name) <= MaxName
       /\ q.req.name[1] \in Lowercase
       /\ IsSuffix(Dash \o q.suffix, q.req.name)
  /\ \A p, q \in requests :
       p.req.name = q.req.name => p.class = q.class /\ p.suffix = q.suffix

\* A process that starts with the runner group, the name and the labels its
\* predecessor sent leaves the scale set alone: no class is updated at every
\* start because GitHub folds labels that ScaleSetLabels kept apart, or returns
\* them in another order.
LabelsSettle ==
  [][proc = "bootstrap" /\ ScaleSet(cur) \in DOMAIN hub =>
       (hub[ScaleSet(cur)] = Spec(cur).base_labels => ~wrote')]_startupVars
============================================================================
