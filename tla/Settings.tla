------------------------------ MODULE Settings ------------------------------
(***************************************************************************)
(* The configuration as a record, and everything that fills it in, checks  *)
(* it or is derived from it: internal/config, the checks of the            *)
(* constructors in internal/scaleset and internal/orchestrator, of         *)
(* cloud-init and of a launch request.                                     *)
(*                                                                         *)
(* The empty string and 0 are values that were not set.  Durations are     *)
(* negative, 0 or positive; a pointer is a sequence of at most one value.  *)
(***************************************************************************)
EXTENDS Names

Positive(c, fields) == \A f \in fields : c[f] > 0
Present(c, fields) == \A f \in fields : c[f] # ""

\* What a field holds that was not set, and what it then gets.  With a baked
\* image, server and protocol stay empty: the alias is local.
Unset(f) ==
  CASE f \in {"prefix", "release_cache_ttl"} -> <<>>
    [] f \in {"request_timeout", "registration_timeout", "max_job_duration",
              "max_parallel_mints", "max_parallel_launches"} -> 0
    [] OTHER -> ""

Default(baked) ==
  [prefix |-> <<"b">>, runner_group |-> "Default", project |-> "incuse",
   default_profile |-> "incuse-runner", request_timeout |-> 1,
   image_server |-> IF baked THEN "" ELSE "images",
   image_protocol |-> IF baked THEN "" ELSE "simplestreams",
   image_alias |-> IF baked THEN "incuse-runner" ELSE "ubuntu",
   work_folder |-> "_work", registration_timeout |-> 1,
   max_job_duration |-> 1, release_cache_ttl |-> <<1>>,
   max_parallel_mints |-> 1, max_parallel_launches |-> 1,
   instance_type |-> "vm"]

ApplyDefaults(c) ==
  LET default == Default(c.use_baked_image)
  IN [f \in DOMAIN c |->
        IF f \in DOMAIN default /\ c[f] = Unset(f) THEN default[f] ELSE c[f]]

----------------------------------------------------------------------------
(* Validate.                                                               *)

\* "url" stands for the URL of an organization, a repository or an enterprise;
\* "host" for one with a scheme and a host that names none of these.
ValidGitHub(c) ==
  /\ c.config_url \in {"url", "host"}
  /\ \/ c.mode = "pat" /\ Present(c, {"pat_file"})
     \/ /\ c.mode = "app"
        /\ Present(c, {"client_id", "private_key_file"})
        /\ c.installation_id # 0

\* Mutant: one character too many.
ValidName_OffByOne(c, class) ==
  Len(ScaleSetName(c.prefix, class)) <= MaxScaleSetName + 1

ValidName(c, class) ==
  Len(ScaleSetName(c.prefix, class)) <= MaxScaleSetName

ValidClass(c, class) ==
  /\ Positive(class, {"vcpus", "memory_gib", "disk_gib", "max_runners"})
  /\ class.arch \in {"amd64", "arm64"}
  /\ ValidName(c, class)

\* Mutant: the architectures of a baked image's classes are not compared.
OneBakedArch_Unchecked(c) == TRUE

\* image_alias resolves to one local image.
OneBakedArch(c) ==
  c.use_baked_image =>
    \A class \in ToSet(c.classes) : class.arch = c.classes[1].arch

ValidClasses(c) ==
  /\ ValidNamePrefix(c.prefix)
  /\ c.classes # <<>>
  /\ \A class \in ToSet(c.classes) : ValidClass(c, class)
  /\ \A i, j \in DOMAIN c.classes :
       ScaleSetName(c.prefix, c.classes[i])
         = ScaleSetName(c.prefix, c.classes[j]) => i = j
  /\ OneBakedArch(c)

\* Mutant: the key is not asked for.
ValidIncus_NoKey(c) ==
  /\ c.url # "" => Present(c, {"cert_file"})
  /\ Present(c, {"storage_pool"})
  /\ Positive(c, {"request_timeout"})

ValidIncus(c) ==
  /\ c.url # "" => Present(c, {"cert_file", "key_file"})
  /\ Present(c, {"storage_pool"})
  /\ Positive(c, {"request_timeout"})

\* "/work" stands for the paths validWorkFolder rejects.
ValidWorkFolder(s) == s \notin {"", "/work"}

ValidRunner(c) ==
  /\ ValidWorkFolder(c.work_folder)
  /\ Positive(c, {"registration_timeout", "max_job_duration",
                  "max_parallel_mints", "max_parallel_launches"})
  /\ c.release_cache_ttl # <<>> /\ c.release_cache_ttl[1] >= 0
  /\ c.instance_type \in {"vm", "container"}
  /\ c.privileged => c.instance_type = "container"

Validate(c) ==
  ValidGitHub(c) /\ ValidClasses(c) /\ ValidIncus(c) /\ ValidRunner(c)

----------------------------------------------------------------------------
(* Preflight.  A file is missing, a directory, or has one of the modes     *)
(* 0600, 0644 and 0666.                                                    *)

Allows(limit) == IF limit = "0600" THEN {"0600"} ELSE {"0600", "0644"}

\* Mutant: the client key is not looked at.
Referenced_NoKey(c) ==
  (CASE c.mode = "pat" -> {<<c.pat_file, "0600">>}
     [] c.mode = "app" -> {<<c.private_key_file, "0600">>}
     [] OTHER -> {})
  \cup
  (IF c.url = "" THEN {}
   ELSE {<<c.cert_file, "0600">>, <<c.server_cert_file, "0644">>})

\* The files Preflight looks at, each with the widest mode it accepts.
Referenced(c) ==
  (CASE c.mode = "pat" -> {<<c.pat_file, "0600">>}
     [] c.mode = "app" -> {<<c.private_key_file, "0600">>}
     [] OTHER -> {})
  \cup
  (IF c.url = "" THEN {}
   ELSE {<<c.cert_file, "0600">>, <<c.key_file, "0600">>,
         <<c.server_cert_file, "0644">>})

\* An empty path is not looked at.
PreflightOK(c, mode) ==
  \A ref \in Referenced(c) : ref[1] # "" => mode[ref[1]] \in Allows(ref[2])

----------------------------------------------------------------------------
(* What is derived from an accepted configuration.                         *)

RunnerSpec(class) ==
  [vcpus |-> class.vcpus, memory_mb |-> class.memory_gib * 1024,
   disk_gb |-> class.disk_gib,
   arch |-> IF class.arch = "AMD64" THEN "amd64" ELSE class.arch]

ScaleSetSpecs(c) ==
  [i \in DOMAIN c.classes |->
     LET name == ScaleSetName(c.prefix, c.classes[i]) IN
     [name |-> name,
      runner_group |-> c.runner_group,
      base_labels |-> ScaleSetLabels(c.base_labels, name),
      max_runners |-> c.classes[i].max_runners,
      runner |-> RunnerSpec(c.classes[i])]]

\* dial; what a file or the daemon may object to is not a matter of settings.
DialAccepts(c) == c.url # "" => Present(c, {"cert_file", "key_file"})

\* The files dial and readAuthCreds read, and the secrecy they need.
DialReads(c) ==
  IF c.url = "" THEN {}
  ELSE {<<c.cert_file, "0600">>, <<c.key_file, "0600">>} \cup
       (IF c.server_cert_file = "" THEN {}
        ELSE {<<c.server_cert_file, "0644">>})

AuthReads(c) ==
  CASE c.mode = "pat" -> {<<c.pat_file, "0600">>}
    [] c.mode = "app" -> {<<c.private_key_file, "0600">>}
    [] OTHER -> {}

\* scaleset.New, apart from the secrets.
NewScaleSetAccepts(c, spec) ==
  /\ Present(c, {"config_url"}) /\ Present(spec, {"runner_group"})
  /\ spec.name # <<>> /\ spec.base_labels # <<>>
  /\ c.mode = "app" => Present(c, {"client_id"}) /\ c.installation_id # 0

\* buildClient: the client's constructor takes the scope from the URL's path.
BuildClientAccepts(c) == c.config_url = "url"

\* orchestrator.New.
NewOrchestratorAccepts(c, spec) ==
  /\ Present(c, {"project", "default_profile"})
  /\ Positive(c, {"registration_timeout", "max_job_duration",
                  "max_parallel_mints", "max_parallel_launches"})
  /\ spec.max_runners > 0
  /\ Positive(spec.runner, {"vcpus", "memory_mb", "disk_gb"})
  /\ spec.runner.arch \in {"amd64", "arm64"}

\* CloudInitSpec.Validate, for what GitHub and the resolver do not supply.
RenderAccepts(c, runnerName) ==
  runnerName # <<>> /\ (c.use_baked_image \/ Present(c, {"work_folder"}))

\* buildLaunchRequest: without a server the protocol is dropped too.
LaunchRequest(c, spec, runnerName) ==
  [name |-> runnerName,
   architecture |-> spec.runner.arch,
   type |-> IF c.instance_type = "container" THEN "container"
                                             ELSE "virtual-machine",
   privileged |-> c.instance_type = "container" /\ c.privileged,
   server |-> c.image_server,
   protocol |-> CASE c.image_server = "" -> ""
                  [] c.image_server # "" /\ c.image_protocol = "" -> "simplestreams"
                  [] OTHER -> c.image_protocol,
   alias |-> c.image_alias]

\* validateLaunch.
LaunchAccepts(req) ==
  /\ req.name # <<>>
  /\ req.architecture \in {"amd64", "arm64"}
  /\ Present(req, {"type"})
  /\ req.alias # "" \/ req.server # ""

\* Launch looks the alias up in the daemon's own image store.
LocalImage(req) == req.server = "" /\ req.alias # ""
=============================================================================
