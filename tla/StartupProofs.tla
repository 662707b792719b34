--------------------------- MODULE StartupProofs ---------------------------
(***************************************************************************)
(* The properties of Startup, for every configuration an operator can      *)
(* write, any files, and any number of changes and restarts.               *)
(***************************************************************************)
EXTENDS Startup, NamesProofs

\* The operator's change of one field leaves a configuration.
LEMMA EditTyped ==
  ASSUME NEW c, IsConfiguration(c),
         NEW f \in DOMAIN FieldType, NEW v \in FieldType[f]
  PROVE  IsConfiguration([c EXCEPT ![f] = v])
BY DEF IsConfiguration

\* The fields of the configuration file.
Fields ==
  {"config_url", "mode", "pat_file", "client_id", "private_key_file",
   "installation_id", "prefix", "runner_group", "base_labels", "classes",
   "url", "cert_file", "key_file", "server_cert_file", "project",
   "default_profile", "storage_pool", "request_timeout", "use_baked_image",
   "image_server", "image_protocol", "image_alias", "work_folder",
   "registration_timeout", "max_job_duration", "release_cache_ttl",
   "max_parallel_mints", "max_parallel_launches", "instance_type",
   "privileged"}

\* The fields of a configuration, by name.
LEMMA FieldsAre == DOMAIN FieldType = Fields
BY DEF FieldType, Fields

\* The fields applyDefaults may fill in.
Defaulted ==
  {"prefix", "runner_group", "project", "default_profile", "request_timeout",
   "image_server", "image_protocol", "image_alias", "work_folder",
   "registration_timeout", "max_job_duration", "release_cache_ttl",
   "max_parallel_mints", "max_parallel_launches", "instance_type"}

\* applyDefaults fills in these fields, each with a value of its type.
LEMMA DefaultsAre ==
  ASSUME NEW baked
  PROVE  /\ DOMAIN Default(baked) = Defaulted
         /\ \A f \in Defaulted : Default(baked)[f] \in FieldType[f]
<1> DEFINE default == Default(baked)
<1>1. DOMAIN default = Defaulted
  BY DEF Default, Defaulted
<1>2. /\ default.runner_group \in Text /\ default.project \in Text
      /\ default.default_profile \in Text /\ default.image_server \in Text
      /\ default.image_protocol \in Text /\ default.image_alias \in Text
      /\ default.work_folder \in Text /\ default.instance_type \in Text
  BY StartupAssumption DEF Default
<1>3. /\ default.request_timeout \in Int
      /\ default.registration_timeout \in Int
      /\ default.max_job_duration \in Int /\ default.max_parallel_mints \in Int
      /\ default.max_parallel_launches \in Int
  BY DEF Default
<1>4. default.prefix \in Seq(Character)
  <2>1. default.prefix = <<"b">> /\ "b" \in Character
    BY DEF Default, Character, Lowercase
  <2> HIDE DEF default
  <2> QED BY <2>1
<1>5. default.release_cache_ttl \in Seq(Int)
  <2>1. default.release_cache_ttl = <<1>>  BY DEF Default
  <2> HIDE DEF default
  <2> QED BY <2>1
<1> HIDE DEF default
<1>6. \A f \in Defaulted : default[f] \in FieldType[f]
  <2>1. /\ FieldType.runner_group = Text /\ FieldType.project = Text
        /\ FieldType.default_profile = Text
        /\ FieldType.image_server = Text /\ FieldType.image_protocol = Text
        /\ FieldType.image_alias = Text /\ FieldType.work_folder = Text
        /\ FieldType.instance_type = Text
    BY DEF FieldType
  <2>2. /\ FieldType.request_timeout = Int
        /\ FieldType.registration_timeout = Int
        /\ FieldType.max_job_duration = Int
        /\ FieldType.max_parallel_mints = Int
        /\ FieldType.max_parallel_launches = Int
    BY DEF FieldType
  <2>3. /\ FieldType.prefix = Seq(Character)
        /\ FieldType.release_cache_ttl = Seq(Int)
    BY DEF FieldType
  <2> QED BY <1>2, <1>3, <1>4, <1>5, <2>1, <2>2, <2>3 DEF Defaulted
<1> QED BY <1>1, <1>6 DEF default

\* applyDefaults makes a configuration of a configuration.
LEMMA DefaultsTyped ==
  ASSUME NEW c, IsConfiguration(c)
  PROVE  IsConfiguration(ApplyDefaults(c))
<1> DEFINE d == ApplyDefaults(c)
           default == Default(c.use_baked_image)
<1>1. DOMAIN c = DOMAIN FieldType
  BY DEF IsConfiguration
<1>2. d = [f \in DOMAIN FieldType |-> d[f]]
  BY <1>1 DEF ApplyDefaults
<1>3. \A f \in DOMAIN FieldType :
        d[f] = c[f] \/ (f \in Defaulted /\ d[f] = default[f])
  <2> HIDE DEF default
  <2>1. DOMAIN default = Defaulted  BY DefaultsAre DEF default
  <2>2. \A f \in DOMAIN c :
          d[f] = IF f \in DOMAIN default /\ c[f] = Unset(f)
                   THEN default[f] ELSE c[f]
    BY DEF ApplyDefaults, default
  <2> HIDE DEF d
  <2> QED BY <1>1, <2>1, <2>2
<1> HIDE DEF d
<1>4. \A f \in DOMAIN FieldType : d[f] \in FieldType[f]
  BY <1>3, DefaultsAre DEF IsConfiguration
<1> QED BY <1>2, <1>4 DEF IsConfiguration, d

\* No field that has a default is left empty, but for the baked image's
\* server and protocol.
LEMMA DefaultsGiven ==
  ASSUME NEW c, IsConfiguration(c)
  PROVE  LET d == ApplyDefaults(c) IN
         /\ d.runner_group # "" /\ d.project # "" /\ d.default_profile # ""
         /\ d.image_alias # "" /\ d.work_folder # ""
         /\ d.use_baked_image \/ d.image_server # ""
<1> DEFINE default == Default(c.use_baked_image)
           names == {"runner_group", "project", "default_profile",
                     "image_alias", "work_folder", "image_server"}
<1>1. \A f \in names : Unset(f) = ""
  BY DEF Unset
<1>2. /\ default.runner_group # "" /\ default.project # ""
      /\ default.default_profile # "" /\ default.image_alias # ""
      /\ default.work_folder # ""
      /\ c.use_baked_image \/ default.image_server # ""
  BY DEF Default
<1>3. names \subseteq DOMAIN default /\ names \subseteq DOMAIN c
  BY FieldsAre, DefaultsAre DEF IsConfiguration, Fields, Defaulted
<1>4. \A f \in names : ApplyDefaults(c)[f] =
                         IF c[f] = "" THEN default[f] ELSE c[f]
  <2> HIDE DEF default, names
  <2> QED BY <1>1, <1>3 DEF ApplyDefaults, default
<1>5. ApplyDefaults(c).use_baked_image = c.use_baked_image
  <2>1. /\ "use_baked_image" \in DOMAIN c
        /\ "use_baked_image" \notin DOMAIN default
    BY FieldsAre, DefaultsAre DEF IsConfiguration, Fields, Defaulted
  <2> HIDE DEF default
  <2> QED BY <2>1 DEF ApplyDefaults, default
<1> HIDE DEF default
<1> QED BY <1>2, <1>4, <1>5
----------------------------------------------------------------------------
(* What Validate's acceptance implies for what is made of the file.        *)

\* A configuration whose defaults are filled in.
Working(d) ==
  /\ IsConfiguration(d)
  /\ d.runner_group # "" /\ d.project # "" /\ d.default_profile # ""
  /\ d.image_alias # "" /\ d.work_folder # ""
  /\ d.use_baked_image \/ d.image_server # ""

\* What Load hands to Validate.
LEMMA CfgWorking ==
  ASSUME NEW c, IsConfiguration(c)
  PROVE  Working(ApplyDefaults(c))
BY DefaultsTyped, DefaultsGiven DEF Working

\* The types of the fields the names and the files are made from.
LEMMA ConfigurationFields ==
  ASSUME NEW d, IsConfiguration(d)
  PROVE  /\ d.prefix \in Seq(Character)
         /\ d.base_labels \in Seq(Seq(Character))
         /\ d.classes \in Seq([vcpus : DOMAIN Decimal, memory_gib : DOMAIN Decimal,
                               disk_gib : DOMAIN Decimal, arch : DOMAIN ArchName,
                               max_runners : Int])
         /\ \A f \in {"pat_file", "private_key_file", "cert_file", "key_file",
                      "server_cert_file"} : d[f] \in Path \cup {""}
<1>1. \A f \in Fields : d[f] \in FieldType[f]
  BY FieldsAre DEF IsConfiguration
<1>2. /\ FieldType.prefix = Seq(Character)
      /\ FieldType.base_labels = Seq(Seq(Character))
      /\ FieldType.classes =
           Seq([vcpus : DOMAIN Decimal, memory_gib : DOMAIN Decimal,
                disk_gib : DOMAIN Decimal, arch : DOMAIN ArchName,
                max_runners : Int])
  BY DEF FieldType
<1>3. /\ FieldType.pat_file = Path \cup {""}
      /\ FieldType.private_key_file = Path \cup {""}
      /\ FieldType.cert_file = Path \cup {""}
      /\ FieldType.key_file = Path \cup {""}
      /\ FieldType.server_cert_file = Path \cup {""}
  BY DEF FieldType
<1> QED BY <1>1, <1>2, <1>3 DEF Fields

\* A prefix that Validate accepts is a name sanitizeNamePart can shorten but
\* not empty.
LEMMA PrefixAccepted ==
  ASSUME NEW s \in Seq(Character), ValidNamePrefix(s)
  PROVE  /\ s \in Seq(NameChar) /\ s # <<>> /\ s[1] \in Alnum
         /\ s[1] \in Lowercase /\ s[Len(s)] # "-"
<1>1. \A i \in 1 .. Len(s) : s[i] \in NameChar
  BY DEF ValidNamePrefix, ToSet, NameChar, Alnum
<1>2. s \in Seq(NameChar)
  BY <1>1
<1> QED BY <1>2 DEF ValidNamePrefix, Last, Alnum

\* A class that Validate accepts has positive sizes, an architecture Incus
\* knows and a name within the limit.
LEMMA ClassAccepted ==
  ASSUME NEW d, IsConfiguration(d), Validate(d), NEW i \in DOMAIN d.classes
  PROVE  LET class == d.classes[i] IN
         /\ Sized(class) /\ class.arch \in {"amd64", "arm64"}
         /\ class.max_runners \in Int /\ class.max_runners > 0
         /\ Len(ScaleSetName(d.prefix, class)) <= MaxScaleSetName
<1> DEFINE class == d.classes[i]
<1>1. class \in [vcpus : DOMAIN Decimal, memory_gib : DOMAIN Decimal,
                 disk_gib : DOMAIN Decimal, arch : DOMAIN ArchName,
                 max_runners : Int]
  <2> DEFINE S == [vcpus : DOMAIN Decimal, memory_gib : DOMAIN Decimal,
                   disk_gib : DOMAIN Decimal, arch : DOMAIN ArchName,
                   max_runners : Int]
  <2>1. d.classes \in Seq(S)  BY ConfigurationFields
  <2> HIDE DEF S
  <2>2. class \in S  BY <2>1
  <2> QED BY <2>2 DEF S
<1>2. ValidClass(d, class)
  <2>1. class \in ToSet(d.classes)  BY DEF ToSet
  <2> HIDE DEF class
  <2> QED BY <2>1 DEF Validate, ValidClasses
<1> HIDE DEF class
<1>3. \A f \in {"vcpus", "memory_gib", "disk_gib", "max_runners"} : class[f] > 0
  BY <1>2 DEF ValidClass, Positive
<1> QED BY <1>1, <1>2, <1>3 DEF Sized, ValidClass, ValidName, class

\* The name of a class's scale set: the prefix and a plain part, within the
\* limit.
LEMMA SpecNamed ==
  ASSUME NEW d, IsConfiguration(d), Validate(d), NEW i \in DOMAIN d.classes
  PROVE  LET name == ScaleSetSpecs(d)[i].name
             part == ClassPart(d.classes[i])
         IN /\ name = d.prefix \o part /\ Plain(part)
            /\ Len(name) <= MaxScaleSetName
            /\ name \in Seq(Character) /\ name # <<>>
<1> DEFINE class == d.classes[i]
           part == ClassPart(class)
           p == d.prefix
           name == p \o part
<1>1. ScaleSetSpecs(d)[i].name = name
  BY DEF ScaleSetSpecs, ScaleSetName
<1>2. Plain(part)
  BY ClassAccepted, ClassPartPlain
<1>3. Len(name) <= MaxScaleSetName
  BY ClassAccepted DEF ScaleSetName
<1>4. p \in Seq(Character) /\ p # <<>>
  BY ConfigurationFields DEF Validate, ValidClasses, ValidNamePrefix
<1>5. part \in Seq(Character)
  <2>1. NameChar \subseteq Character
    BY DEF NameChar, Alnum, Character
  <2> HIDE DEF part
  <2> QED BY <1>2, <2>1 DEF Plain
<1> HIDE DEF part, p
<1>6. name \in Seq(Character) /\ name # <<>>
  BY <1>4, <1>5
<1> QED BY <1>1, <1>2, <1>3, <1>6 DEF part, p

\* No constructor refuses a class of an accepted configuration.
LEMMA ConstructorsAccept ==
  ASSUME NEW d, Working(d), Validate(d), NEW i \in DOMAIN d.classes
  PROVE  LET spec == ScaleSetSpecs(d)[i] IN
         NewScaleSetAccepts(d, spec) /\ NewOrchestratorAccepts(d, spec)
<1> DEFINE spec == ScaleSetSpecs(d)[i]
           class == d.classes[i]
<1>1. IsConfiguration(d)
  BY DEF Working
<1>2. /\ spec.runner_group = d.runner_group
      /\ spec.base_labels = ScaleSetLabels(d.base_labels, spec.name)
      /\ spec.max_runners = class.max_runners
      /\ spec.runner = RunnerSpec(class)
  BY DEF ScaleSetSpecs
<1>3. spec.name # <<>> /\ spec.name \in Seq(Character)
  BY <1>1, SpecNamed
<1>4. d.base_labels \in Seq(Seq(Character))
  BY <1>1, ConfigurationFields
<1> DEFINE name == spec.name
<1>5. /\ Sized(class) /\ class.arch \in {"amd64", "arm64"}
      /\ class.max_runners > 0
  BY <1>1, ClassAccepted
<1> HIDE DEF spec, class, name
<1>6. spec.base_labels # <<>>
  <2>1. name \in Seq(Character) /\ name # <<>>
        /\ spec.base_labels = ScaleSetLabels(d.base_labels, name)
    BY <1>2, <1>3 DEF name
  <2> QED BY <1>4, <2>1, ScaleSetLabelsDistinct
<1>7. NewScaleSetAccepts(d, spec)
  <2>1. /\ d.config_url # ""
        /\ d.mode = "app" => d.client_id # "" /\ d.installation_id # 0
    BY DEF Validate, ValidGitHub, Present
  <2> QED BY <1>2, <1>3, <1>6, <2>1 DEF NewScaleSetAccepts, Present, Working
<1>8. NewOrchestratorAccepts(d, spec)
  <2>1. /\ Positive(d, {"registration_timeout", "max_job_duration",
                        "max_parallel_mints", "max_parallel_launches"})
        /\ Present(d, {"project", "default_profile"})
    BY DEF Validate, ValidRunner, Working, Present
  <2>2. /\ spec.runner.vcpus = class.vcpus
        /\ spec.runner.memory_mb = class.memory_gib * 1024
        /\ spec.runner.disk_gb = class.disk_gib
        /\ spec.runner.arch = class.arch
    BY <1>2, <1>5 DEF RunnerSpec
  <2>3. class.memory_gib * 1024 > 0
    BY <1>5, NamesAssumption DEF Sized
  <2>4. Positive(spec.runner, {"vcpus", "memory_mb", "disk_gb"})
    BY <1>5, <2>2, <2>3 DEF Sized, Positive
  <2> QED BY <1>2, <1>5, <2>1, <2>2, <2>4 DEF NewOrchestratorAccepts
<1> QED BY <1>7, <1>8 DEF spec

\* A runner's name of an accepted configuration.
LEMMA RunnerNamed ==
  ASSUME NEW d, IsConfiguration(d), Validate(d), NEW i \in DOMAIN d.classes,
         NEW suf \in RandomSuffixes
  PROVE  LET name == MakeRunnerName(ScaleSetSpecs(d)[i].name, suf) IN
         /\ name # <<>> /\ Len(name) <= MaxName /\ name[1] \in Lowercase
         /\ IsSuffix(Dash \o suf, name)
<1> DEFINE p == d.prefix
           t == ClassPart(d.classes[i])
           short == SanitizeNamePart(p)
           name == MakeRunnerName(p \o t, suf)
<1>1. /\ p \in Seq(NameChar) /\ p # <<>> /\ p[1] \in Alnum
      /\ p[1] \in Lowercase /\ p[Len(p)] # "-"
  BY ConfigurationFields, PrefixAccepted DEF Validate, ValidClasses
<1>2. /\ ScaleSetSpecs(d)[i].name = p \o t /\ Plain(t)
      /\ Len(p \o t) <= MaxScaleSetName
  BY SpecNamed
<1>3. suf \in Suffix
  BY StartupAssumption DEF Suffix, Alnum
<1> HIDE DEF p, t
<1>4. /\ short \in Seq(NameChar) /\ name = ((short \o t) \o Dash) \o suf
      /\ name # <<>> /\ Len(name) <= MaxName /\ name[1] = p[1]
  BY <1>1, <1>2, <1>3, MakeRunnerNameWhole
<1>5. IsSuffix(Dash \o suf, name)
  <2> DEFINE left == short \o t
             dash == Dash
  <2>1. /\ t \in Seq(NameChar) /\ dash \in Seq(NameChar)
        /\ suf \in Seq(NameChar)
    BY <1>2, <1>3 DEF Plain, Dash, Suffix, NameChar
  <2> HIDE DEF short
  <2>2. left \in Seq(NameChar)
    BY <1>4, <2>1
  <2>3. name = (left \o dash) \o suf
    BY <1>4
  <2> HIDE DEF left, name, dash
  <2>4. name = left \o (dash \o suf) /\ dash \o suf \in Seq(NameChar)
    BY <2>1, <2>2, <2>3
  <2> QED BY <2>2, <2>4, SuffixOfConcat DEF dash
<1> QED BY <1>1, <1>2, <1>4, <1>5

\* The names of two runners differ if their classes or their suffixes do.
LEMMA RunnerNamesDiffer ==
  ASSUME NEW d, IsConfiguration(d), Validate(d),
         NEW i \in DOMAIN d.classes, NEW j \in DOMAIN d.classes,
         NEW x \in RandomSuffixes, NEW y \in RandomSuffixes,
         MakeRunnerName(ScaleSetSpecs(d)[i].name, x)
           = MakeRunnerName(ScaleSetSpecs(d)[j].name, y)
  PROVE  i = j /\ x = y
<1> DEFINE p == d.prefix
           t == ClassPart(d.classes[i])
           u == ClassPart(d.classes[j])
<1>1. p \in Seq(NameChar) /\ p # <<>> /\ p[1] \in Alnum /\ p[Len(p)] # "-"
  BY ConfigurationFields, PrefixAccepted DEF Validate, ValidClasses
<1>2. /\ ScaleSetSpecs(d)[i].name = p \o t /\ Plain(t)
      /\ Len(p \o t) <= MaxScaleSetName
      /\ ScaleSetSpecs(d)[j].name = p \o u /\ Plain(u)
      /\ Len(p \o u) <= MaxScaleSetName
  BY SpecNamed
<1>3. x \in Suffix /\ y \in Suffix
  BY StartupAssumption DEF Suffix, Alnum
<1>4. t = u /\ x = y
  <2> HIDE DEF p, t, u
  <2> QED BY <1>1, <1>2, <1>3, MakeRunnerNameTells
<1>5. ScaleSetName(d.prefix, d.classes[i]) = ScaleSetName(d.prefix, d.classes[j])
  BY <1>4 DEF ScaleSetName
<1>6. i = j
  BY <1>5 DEF Validate, ValidClasses
<1> QED BY <1>4, <1>6

\* Neither the cloud-init renderer nor Launch refuses a runner of an accepted
\* configuration.
LEMMA LaunchAccepted ==
  ASSUME NEW d, Working(d), Validate(d), NEW i \in DOMAIN d.classes,
         NEW suf \in RandomSuffixes
  PROVE  LET spec == ScaleSetSpecs(d)[i]
             name == MakeRunnerName(spec.name, suf)
         IN RenderAccepts(d, name) /\ LaunchAccepts(LaunchRequest(d, spec, name))
<1> DEFINE spec == ScaleSetSpecs(d)[i]
           name == MakeRunnerName(spec.name, suf)
           req == LaunchRequest(d, spec, name)
           class == d.classes[i]
<1>1. name # <<>>
  BY RunnerNamed DEF Working
<1>2. class.arch \in {"amd64", "arm64"}
  BY ClassAccepted DEF Working
<1>3. spec.runner.arch = class.arch
  <2>1. spec.runner = RunnerSpec(class)  BY DEF ScaleSetSpecs
  <2> HIDE DEF spec, class
  <2> QED BY <1>2, <2>1 DEF RunnerSpec
<1> HIDE DEF spec, name, class
<1>4. req.name = name /\ req.architecture = spec.runner.arch
      /\ req.alias = d.image_alias /\ req.type # ""
  BY DEF LaunchRequest
<1> HIDE DEF req
<1>5. LaunchAccepts(req)
  BY <1>1, <1>2, <1>3, <1>4 DEF LaunchAccepts, Present, Working
<1>6. RenderAccepts(d, name)
  BY <1>1 DEF RenderAccepts, Present, Working
<1> QED BY <1>5, <1>6 DEF req, name, spec

\* Two requests for the local image are for one architecture.
LEMMA LocalRequestsAgree ==
  ASSUME NEW d, Working(d), Validate(d),
         NEW i \in DOMAIN d.classes, NEW j \in DOMAIN d.classes, NEW m, NEW n,
         LocalImage(LaunchRequest(d, ScaleSetSpecs(d)[i], m))
  PROVE  LaunchRequest(d, ScaleSetSpecs(d)[i], m).architecture
           = LaunchRequest(d, ScaleSetSpecs(d)[j], n).architecture
<1>1. d.use_baked_image
  <2> DEFINE spec == ScaleSetSpecs(d)[i]
  <2> HIDE DEF spec
  <2>1. LaunchRequest(d, spec, m).server = d.image_server
    BY DEF LaunchRequest
  <2> QED BY <2>1 DEF LocalImage, Working, spec
<1>2. \A k \in DOMAIN d.classes : d.classes[k].arch = d.classes[1].arch
  <2>1. \A k \in DOMAIN d.classes : d.classes[k] \in ToSet(d.classes)
    BY DEF ToSet
  <2> QED BY <1>1, <2>1 DEF Validate, ValidClasses, OneBakedArch
<1>3. ASSUME NEW k \in DOMAIN d.classes, NEW name
      PROVE  LaunchRequest(d, ScaleSetSpecs(d)[k], name).architecture
               = RunnerSpec(d.classes[k]).arch
  <2> DEFINE spec == ScaleSetSpecs(d)[k]
  <2>1. spec.runner = RunnerSpec(d.classes[k])  BY DEF ScaleSetSpecs
  <2> HIDE DEF spec
  <2>2. LaunchRequest(d, spec, name).architecture = spec.runner.arch
    BY DEF LaunchRequest
  <2> QED BY <2>1, <2>2 DEF spec
<1>4. RunnerSpec(d.classes[i]).arch = RunnerSpec(d.classes[j]).arch
  BY <1>2 DEF RunnerSpec
<1> QED BY <1>3, <1>4

\* Preflight has looked at every file start-up reads, in either mode.
LEMMA ReadsVetted ==
  ASSUME NEW d, IsConfiguration(d), Validate(d), NEW modes,
         PreflightOK(d, modes), NEW ref \in DialReads(d) \cup AuthReads(d)
  PROVE  ref \in Path \X {"0600", "0644"} /\ modes[ref[1]] \in Allows(ref[2])
<1>1. \/ (d.mode = "pat" /\ d.pat_file # "")
      \/ (d.mode = "app" /\ d.private_key_file # "")
  BY DEF Validate, ValidGitHub, Present
<1>2. d.url # "" => (d.cert_file # "" /\ d.key_file # "")
  BY DEF Validate, ValidIncus, Present
<1>3. \A f \in {"pat_file", "private_key_file", "cert_file", "key_file",
                "server_cert_file"} : d[f] \in Path \cup {""}
  BY ConfigurationFields
<1> DEFINE Vetted(f, m) == /\ ref = <<d[f], m>> /\ d[f] # ""
                           /\ d[f] \in Path \cup {""} /\ m \in {"0600", "0644"}
                           /\ <<d[f], m>> \in Referenced(d)
<1>4. ASSUME NEW f, NEW m, Vetted(f, m)
      PROVE  ref \in Path \X {"0600", "0644"} /\ modes[ref[1]] \in Allows(ref[2])
  BY <1>4 DEF PreflightOK
<1>5. CASE ref \in DialReads(d)
  <2>1. d.url # ""  BY <1>5 DEF DialReads
  <2>2. \/ ref = <<d["cert_file"], "0600">>
        \/ ref = <<d["key_file"], "0600">>
        \/ (ref = <<d["server_cert_file"], "0644">> /\ d["server_cert_file"] # "")
    BY <1>5, <2>1 DEF DialReads
  <2>3. \/ Vetted("cert_file", "0600") \/ Vetted("key_file", "0600")
        \/ Vetted("server_cert_file", "0644")
    BY <1>2, <1>3, <2>1, <2>2 DEF Referenced
  <2> HIDE DEF Vetted
  <2> QED BY <1>4, <2>3
<1>6. CASE ref \in AuthReads(d)
  <2>1. CASE d.mode = "pat" /\ d.pat_file # ""
    <3>1. Vetted("pat_file", "0600")
      BY <1>3, <1>6, <2>1 DEF AuthReads, Referenced
    <3> QED BY <1>4, <3>1
  <2>2. CASE d.mode = "app" /\ d.private_key_file # ""
    <3>1. Vetted("private_key_file", "0600")
      BY <1>3, <1>6, <2>2 DEF AuthReads, Referenced
    <3> QED BY <1>4, <3>1
  <2> QED BY <1>1, <2>1, <2>2
<1> QED BY <1>5, <1>6

\* dial and readAuthCreds find what they need in an accepted configuration.
LEMMA CredentialsNamed ==
  ASSUME NEW d, Validate(d)
  PROVE  DialAccepts(d) /\ AuthReads(d) # {}
BY DEF Validate, ValidGitHub, ValidIncus, DialAccepts, AuthReads, Present
----------------------------------------------------------------------------
(* The inductive invariant.                                                *)

\* Where main is once Preflight has accepted the files.
Admitted ==
  {"connect", "creds", "new", "bootstrap", "orchestrator", "serving"}

\* A process that has not connected holds nothing.
NothingYet ==
  proc \in {"down", "preflight", "connect"} =>
    read = {} /\ requests = {} /\ cur = 1

\* The loop over the classes is at one of them.
AtClass ==
  /\ proc = "creds" => cur = 1
  /\ proc \in {"new", "bootstrap", "orchestrator"} => cur \in Classes

\* Whoever has opened a file or asked for a launch has passed both checks, and
\* the operator has changed nothing since.
Checked ==
  /\ (proc \in Admitted \cup {"preflight"} \/ read # {} \/ requests # {}) =>
       Validate(cfg)
  /\ (proc \in Admitted \/ read # {}) => PreflightOK(cfg, mode)
  /\ read \subseteq DialReads(cfg) \cup AuthReads(cfg)

\* Each request is the one this configuration makes of its class and suffix.
Asked ==
  \A q \in requests :
    q.req = LaunchRequest(cfg, Spec(q.class),
                          MakeRunnerName(Spec(q.class).name, q.suffix))

StartupInv ==
  StartupTypeOK /\ NothingYet /\ AtClass /\ Checked /\ Asked /\ NoLateRefusal

\* The classes are numbered from 1.
LEMMA ClassCount ==
  ASSUME NEW d, IsConfiguration(d)
  PROVE  /\ Len(d.classes) \in Nat /\ DOMAIN d.classes = 1 .. Len(d.classes)
         /\ d.classes # <<>> => 1 \in DOMAIN d.classes
<1> DEFINE S == [vcpus : DOMAIN Decimal, memory_gib : DOMAIN Decimal,
                 disk_gib : DOMAIN Decimal, arch : DOMAIN ArchName,
                 max_runners : Int]
<1>1. d.classes \in Seq(S)
  BY ConfigurationFields
<1> HIDE DEF S
<1> DEFINE x == d.classes
<1>2. x \in Seq(S)  BY <1>1
<1> HIDE DEF x
<1>3. /\ Len(x) \in Nat /\ DOMAIN x = 1 .. Len(x)
      /\ x # <<>> => 1 \in DOMAIN x
  BY <1>2
<1> QED BY <1>3 DEF x

\* It holds at the start.
LEMMA StartupInit_Inv == StartupInit => StartupInv
<1> SUFFICES ASSUME StartupInit PROVE StartupInv
  OBVIOUS
<1>1. IsConfiguration(config)
  BY StartupAssumption DEF StartupInit
<1>2. /\ proc = "down" /\ cur = 1 /\ read = {} /\ requests = {}
      /\ failure = "none" /\ wrote = FALSE /\ edits = 0
      /\ mode = [p \in Path |-> "0600"] /\ content = [p \in Path |-> "text"]
  BY DEF StartupInit
<1>3. cur \in 1 .. Len(cfg.classes) + 1
  <2>1. Working(cfg)  BY <1>1, CfgWorking DEF cfg
  <2>2. Len(cfg.classes) \in Nat  BY <2>1, ClassCount DEF Working
  <2> QED BY <1>2, <2>2
<1>4. mode \in [Path -> FileMode] /\ content \in [Path -> Content]
  BY <1>2 DEF FileMode, Content
<1>5. edits \in 0 .. MaxEdits
  <2>1. MaxEdits \in Nat  BY StartupAssumption
  <2>2. edits = 0          BY <1>2
  <2> QED BY <2>1, <2>2
<1>6. StartupTypeOK
  BY <1>1, <1>2, <1>3, <1>4, <1>5 DEF StartupTypeOK
<1> QED BY <1>2, <1>6 DEF StartupInv, NothingYet, AtClass, Checked, Admitted,
                          Asked, NoLateRefusal

\* The working configuration, while the invariant holds.
LEMMA WhileRunning ==
  ASSUME StartupTypeOK
  PROVE  /\ Working(cfg) /\ IsConfiguration(cfg)
         /\ Len(cfg.classes) \in Nat /\ Classes = 1 .. Len(cfg.classes)
         /\ Validate(cfg) => 1 \in Classes
<1>1. Working(cfg)
  BY CfgWorking DEF StartupTypeOK, cfg
<1>2. Validate(cfg) => cfg.classes # <<>>
  BY DEF Validate, ValidClasses
<1>3. /\ Len(cfg.classes) \in Nat
      /\ DOMAIN cfg.classes = 1 .. Len(cfg.classes)
      /\ cfg.classes # <<>> => 1 \in DOMAIN cfg.classes
  BY <1>1, ClassCount DEF Working
<1> QED BY <1>1, <1>2, <1>3 DEF Working, Classes

\* What the invariant says after a step that leaves the file and its files
\* alone.
LEMMA SameFile ==
  ASSUME StartupTypeOK, UNCHANGED inputVars
  PROVE  /\ cfg' = cfg
         /\ /\ proc' \in {"down", "failed", "preflight"} \cup Admitted
            /\ cur' \in 1 .. Len(cfg.classes) + 1
            /\ read' \subseteq Path \X {"0600", "0644"}
            /\ failure' \in {"none", "config", "preflight", "file", "secret",
                            "setting"}
            /\ wrote' \in BOOLEAN
            /\ \A q \in requests' :
                 q.class \in Classes /\ q.suffix \in RandomSuffixes
            => StartupTypeOK'
         /\ /\ proc' = "creds" => cur' = 1
            /\ proc' \in {"new", "bootstrap", "orchestrator"} => cur' \in Classes
            => AtClass'
         /\ /\ (\/ proc' \in Admitted \cup {"preflight"}
                \/ read' # {} \/ requests' # {}) => Validate(cfg)
            /\ (proc' \in Admitted \/ read' # {}) => PreflightOK(cfg, mode)
            /\ read' \subseteq DialReads(cfg) \cup AuthReads(cfg)
            => Checked'
         /\ (\A q \in requests' :
               q.req = LaunchRequest(cfg, Spec(q.class),
                                     MakeRunnerName(Spec(q.class).name, q.suffix)))
            => Asked'
<1>1. config' = config /\ mode' = mode /\ content' = content /\ edits' = edits
  BY DEF inputVars
<1>2. cfg' = cfg  BY <1>1 DEF cfg
<1>3. Classes' = Classes  BY <1>2 DEF Classes
<1>4. \A i : Spec(i)' = Spec(i)  BY <1>2 DEF Spec
<1>5. ASSUME proc' \in {"down", "failed", "preflight"} \cup Admitted,
             cur' \in 1 .. Len(cfg.classes) + 1,
             read' \subseteq Path \X {"0600", "0644"},
             failure' \in {"none", "config", "preflight", "file", "secret",
                          "setting"},
             wrote' \in BOOLEAN,
             \A q \in requests' :
               q.class \in Classes /\ q.suffix \in RandomSuffixes
      PROVE  StartupTypeOK'
  <2>1. /\ IsConfiguration(config') /\ edits' \in 0 .. MaxEdits
        /\ mode' \in [Path -> FileMode] /\ content' \in [Path -> Content]
    BY <1>1 DEF StartupTypeOK
  <2> QED BY <1>2, <1>3, <1>5, <2>1 DEF StartupTypeOK, Admitted
<1>6. /\ proc' = "creds" => cur' = 1
      /\ proc' \in {"new", "bootstrap", "orchestrator"} => cur' \in Classes
      => AtClass'
  BY <1>3 DEF AtClass
<1>7. /\ (\/ proc' \in Admitted \cup {"preflight"}
          \/ read' # {} \/ requests' # {}) => Validate(cfg)
      /\ (proc' \in Admitted \/ read' # {}) => PreflightOK(cfg, mode)
      /\ read' \subseteq DialReads(cfg) \cup AuthReads(cfg)
      => Checked'
  BY <1>1, <1>2 DEF Checked, Admitted
<1>8. (\A q \in requests' :
         q.req = LaunchRequest(cfg, Spec(q.class),
                               MakeRunnerName(Spec(q.class).name, q.suffix)))
      => Asked'
  BY <1>2, <1>4 DEF Asked
<1> QED BY <1>2, <1>5, <1>6, <1>7, <1>8

\* Every step keeps it.
LEMMA StartupNext_Inv == StartupInv /\ [StartupNext]_startupVars => StartupInv'
<1> SUFFICES ASSUME StartupInv, [StartupNext]_startupVars PROVE StartupInv'
  OBVIOUS
<1>1. /\ StartupTypeOK /\ NothingYet /\ AtClass /\ Checked /\ Asked
      /\ NoLateRefusal
  BY DEF StartupInv
<1>2. /\ Working(cfg) /\ IsConfiguration(cfg)
      /\ Len(cfg.classes) \in Nat /\ Classes = 1 .. Len(cfg.classes)
      /\ Validate(cfg) => 1 \in Classes
  BY <1>1, WhileRunning
<1>3. CASE Edit
  <2>1. /\ proc = "down" /\ edits < MaxEdits /\ edits' = edits + 1
        /\ UNCHANGED <<proc, cur, read, failure, hub, wrote, requests>>
    BY <1>3 DEF Edit
  <2>2. read = {} /\ requests = {} /\ cur = 1
    BY <1>1, <2>1 DEF NothingYet
  <2>3. IsConfiguration(config')
    <3>1. CASE config' = config
      BY <1>1, <3>1 DEF StartupTypeOK
    <3>2. CASE \E f \in DOMAIN Alternates : \E v \in Alternates[f] :
                 config' = [config EXCEPT ![f] = v]
      <4>1. PICK f \in DOMAIN Alternates : \E v \in Alternates[f] :
                   config' = [config EXCEPT ![f] = v]
        BY <3>2
      <4>2. PICK v \in Alternates[f] : config' = [config EXCEPT ![f] = v]
        BY <4>1
      <4>3. f \in DOMAIN FieldType /\ v \in FieldType[f]
        BY StartupAssumption
      <4> QED BY <1>1, <4>2, <4>3, EditTyped DEF StartupTypeOK
    <3> QED BY <1>3, <3>1, <3>2 DEF Edit
  <2>4. mode' \in [Path -> FileMode] /\ content' \in [Path -> Content]
    BY <1>1, <1>3 DEF Edit, StartupTypeOK
  <2>5. cur' \in 1 .. Len(cfg'.classes) + 1
    <3>1. IsConfiguration(cfg')
      BY <2>3, DefaultsTyped DEF cfg
    <3>2. Len(cfg'.classes) \in Nat
      BY <3>1, ClassCount
    <3> QED BY <2>1, <2>2, <3>2
  <2>6. edits' \in 0 .. MaxEdits
    <3>1. MaxEdits \in Nat         BY StartupAssumption
    <3>2. edits \in 0 .. MaxEdits  BY <1>1 DEF StartupTypeOK
    <3> QED BY <2>1, <3>1, <3>2
  <2>7. StartupTypeOK'
    BY <1>1, <2>1, <2>2, <2>3, <2>4, <2>5, <2>6 DEF StartupTypeOK
  <2>8. NothingYet' /\ AtClass' /\ Asked' /\ NoLateRefusal'
    BY <1>1, <2>1, <2>2 DEF NothingYet, AtClass, Asked, NoLateRefusal
  <2>9. Checked'
    BY <2>1, <2>2 DEF Checked, Admitted
  <2> QED BY <2>7, <2>8, <2>9 DEF StartupInv
<1>4. CASE Load
  <2>1. /\ proc = "down" /\ UNCHANGED <<inputVars, cur, read, hub, wrote, requests>>
        /\ \/ (Validate(cfg) /\ proc' = "preflight" /\ failure' = failure)
           \/ (proc' = "failed" /\ failure' = "config")
    BY <1>4 DEF Load, Proceed, Refuse
  <2>2. read' = {} /\ requests' = {} /\ cur' = 1 /\ UNCHANGED inputVars
    BY <1>1, <2>1 DEF NothingYet
  <2>3. StartupTypeOK'
    BY <1>1, <1>2, <2>1, <2>2, SameFile DEF StartupTypeOK
  <2>4. NothingYet' /\ AtClass' /\ Asked'
    BY <1>1, <2>1, <2>2, SameFile DEF NothingYet
  <2>5. Checked'
    BY <1>1, <2>1, <2>2, SameFile DEF Admitted
  <2>6. NoLateRefusal'
    BY <1>1, <2>1 DEF NoLateRefusal
  <2> QED BY <2>3, <2>4, <2>5, <2>6 DEF StartupInv
<1>5. CASE Preflight
  <2>1. /\ proc = "preflight"
        /\ UNCHANGED <<inputVars, cur, read, hub, wrote, requests>>
        /\ \/ (PreflightOK(cfg, mode) /\ proc' = "connect" /\ failure' = failure)
           \/ (proc' = "failed" /\ failure' = "preflight")
    BY <1>5 DEF Preflight, Proceed, Refuse
  <2>2. read' = {} /\ requests' = {} /\ cur' = 1 /\ UNCHANGED inputVars
    BY <1>1, <2>1 DEF NothingYet
  <2>3. StartupTypeOK'
    BY <1>1, <1>2, <2>1, <2>2, SameFile DEF StartupTypeOK, Admitted
  <2>4. NothingYet' /\ AtClass' /\ Asked'
    BY <1>1, <2>1, <2>2, SameFile DEF NothingYet
  <2>5. Checked'
    BY <1>1, <2>1, <2>2, SameFile DEF Checked, Admitted
  <2>6. NoLateRefusal'
    BY <1>1, <2>1 DEF NoLateRefusal
  <2> QED BY <2>3, <2>4, <2>5, <2>6 DEF StartupInv
<1>6. CASE ValidateOnly
  <2>1. /\ proc = "connect" /\ proc' = "down" /\ failure' = failure
        /\ UNCHANGED <<inputVars, cur, read, hub, wrote, requests>>
    BY <1>6 DEF ValidateOnly, Proceed
  <2>2. read' = {} /\ requests' = {} /\ cur' = 1 /\ UNCHANGED inputVars
    BY <1>1, <2>1 DEF NothingYet
  <2>3. StartupTypeOK'
    BY <1>1, <1>2, <2>1, <2>2, SameFile DEF StartupTypeOK
  <2>4. NothingYet' /\ AtClass' /\ Checked' /\ Asked' /\ NoLateRefusal'
    BY <1>1, <2>1, <2>2, SameFile DEF NothingYet, Admitted, NoLateRefusal
  <2> QED BY <2>3, <2>4 DEF StartupInv
<1>7. ASSUME proc \in Admitted
      PROVE  /\ Validate(cfg) /\ PreflightOK(cfg, mode)
             /\ DialReads(cfg) \cup AuthReads(cfg) \subseteq Path \X {"0600", "0644"}
  <2>1. Validate(cfg) /\ PreflightOK(cfg, mode)
    BY <1>1, <1>7 DEF Checked
  <2> QED BY <1>2, <2>1, ReadsVetted
<1>8. CASE Connect
  <2>1. proc = "connect" /\ UNCHANGED inputVars
        /\ UNCHANGED <<cur, hub, wrote, requests>>
    BY <1>8 DEF Connect
  <2>2. /\ Validate(cfg) /\ PreflightOK(cfg, mode)
        /\ DialReads(cfg) \subseteq Path \X {"0600", "0644"}
    BY <1>7, <2>1 DEF Admitted
  <2>3. /\ read' = read \cup DialReads(cfg)
        /\ \/ (proc' = "creds" /\ failure' = failure)
           \/ (proc' = "failed" /\ failure' = "file")
    BY <1>8, <2>2, CredentialsNamed DEF Connect, ReadAll, Proceed, Refuse
  <2>4. read = {} /\ requests = {} /\ cur = 1
    BY <1>1, <2>1 DEF NothingYet
  <2>5. StartupTypeOK'
    BY <1>1, <1>2, <2>1, <2>2, <2>3, <2>4, SameFile DEF StartupTypeOK, Admitted
  <2>6. NothingYet' /\ AtClass' /\ Asked' /\ NoLateRefusal'
    BY <1>1, <2>1, <2>3, <2>4, SameFile DEF NothingYet, NoLateRefusal
  <2>7. Checked'
    BY <1>1, <2>1, <2>2, <2>3, <2>4, SameFile DEF Admitted
  <2> QED BY <2>5, <2>6, <2>7 DEF StartupInv
<1>9. CASE ReadAuthCreds
  <2>1. proc = "creds" /\ UNCHANGED inputVars
        /\ UNCHANGED <<cur, hub, wrote, requests>>
    BY <1>9 DEF ReadAuthCreds
  <2>2. /\ Validate(cfg) /\ PreflightOK(cfg, mode)
        /\ AuthReads(cfg) \subseteq Path \X {"0600", "0644"}
    BY <1>7, <2>1 DEF Admitted
  <2>3. /\ read' = read \cup AuthReads(cfg)
        /\ \/ (proc' = "new" /\ failure' = failure)
           \/ (proc' = "failed" /\ failure' = "file")
    BY <1>9, <2>2, CredentialsNamed DEF ReadAuthCreds, ReadAll, Proceed, Refuse
  <2>4. cur = 1 /\ 1 \in Classes
    BY <1>1, <1>2, <2>1, <2>2 DEF AtClass
  <2>5. StartupTypeOK'
    BY <1>1, <1>2, <2>1, <2>2, <2>3, <2>4, SameFile DEF StartupTypeOK, Admitted
  <2>6. NothingYet' /\ AtClass' /\ Asked' /\ NoLateRefusal'
    BY <1>1, <2>1, <2>3, <2>4, SameFile DEF NothingYet, Asked, NoLateRefusal
  <2>7. Checked'
    BY <1>1, <2>1, <2>2, <2>3, SameFile DEF Checked, Admitted
  <2> QED BY <2>5, <2>6, <2>7 DEF StartupInv
<1>10. ASSUME NEW i \in Classes, Validate(cfg)
       PROVE  NewScaleSetAccepts(cfg, Spec(i)) /\ NewOrchestratorAccepts(cfg, Spec(i))
  BY <1>2, <1>10, ConstructorsAccept DEF Spec, Classes
<1>11. CASE NewScaleSet \/ Bootstrap \/ NewOrchestrator
  <2>1. /\ proc \in {"new", "bootstrap", "orchestrator"}
        /\ UNCHANGED inputVars /\ read' = read /\ requests' = requests
    BY <1>11 DEF NewScaleSet, Bootstrap, NewOrchestrator
  <2>2. Validate(cfg) /\ PreflightOK(cfg, mode) /\ cur \in Classes
    BY <1>1, <1>7, <2>1 DEF Admitted, AtClass
  <2>3. wrote' \in BOOLEAN
    BY <1>1, <1>11
       DEF NewScaleSet, Bootstrap, Reconcile, NewOrchestrator, StartupTypeOK
  <2>4. \/ (proc' \in {"bootstrap", "orchestrator"} /\ failure' = failure /\ cur' = cur)
        \/ (proc' = "failed" /\ failure' = "secret" /\ cur' = cur)
        \/ (proc' = "failed" /\ failure' = "setting" /\ cur' = cur
             /\ ~BuildClientAccepts(cfg))
        \/ (proc' = "new" /\ failure' = failure /\ cur' = cur + 1
             /\ cur # Len(cfg.classes))
        \/ (proc' = "serving" /\ failure' = failure /\ cur' = cur + 1)
    <3>1. CASE NewScaleSet
      BY <1>10, <2>2, <3>1 DEF NewScaleSet, Proceed, Refuse
    <3>2. CASE Bootstrap
      BY <3>2 DEF Bootstrap, Proceed, Refuse
    <3>3. CASE NewOrchestrator
      BY <1>10, <2>2, <3>3 DEF NewOrchestrator, Proceed, Refuse
    <3> QED BY <1>11, <3>1, <3>2, <3>3
  <2>5. /\ cur' \in 1 .. Len(cfg.classes) + 1
        /\ proc' \in {"new", "bootstrap", "orchestrator"} => cur' \in Classes
    BY <1>2, <2>2, <2>4
  <2>6. StartupTypeOK'
    BY <1>1, <2>1, <2>3, <2>4, <2>5, SameFile DEF StartupTypeOK, Admitted
  <2>7. NothingYet' /\ AtClass' /\ Asked' /\ NoLateRefusal'
    BY <1>1, <2>1, <2>4, <2>5, SameFile DEF NothingYet, Asked, NoLateRefusal
  <2>8. Checked'
    BY <1>1, <2>1, <2>2, SameFile DEF Checked
  <2> QED BY <2>6, <2>7, <2>8 DEF StartupInv
<1>12. CASE \E i \in Classes, suffix \in RandomSuffixes : SpawnRunner(i, suffix)
  <2>1. PICK i \in Classes, suffix \in RandomSuffixes : SpawnRunner(i, suffix)
    BY <1>12
  <2> DEFINE req == LaunchRequest(cfg, Spec(i), MakeRunnerName(Spec(i).name, suffix))
             new == [class |-> i, suffix |-> suffix, req |-> req]
  <2>2. /\ proc = "serving" /\ UNCHANGED inputVars
        /\ UNCHANGED <<cur, read, hub, wrote>>
    BY <2>1 DEF SpawnRunner
  <2>3. Validate(cfg) /\ PreflightOK(cfg, mode)
    BY <1>7, <2>2 DEF Admitted
  <2>4. /\ requests' = requests \cup {new}
        /\ proc' = "serving" /\ failure' = failure
    BY <1>2, <2>1, <2>3, LaunchAccepted
       DEF SpawnRunner, Proceed, Refuse, Spec, Classes
  <2>5. new.class = i /\ new.suffix = suffix /\ new.req = req
    OBVIOUS
  <2> HIDE DEF new, req
  <2>6. StartupTypeOK'
    BY <1>1, <2>2, <2>4, <2>5, SameFile DEF StartupTypeOK, Admitted
  <2>7. NothingYet' /\ AtClass' /\ NoLateRefusal'
    BY <1>1, <2>2, <2>4, SameFile DEF NothingYet, NoLateRefusal
  <2>8. Checked'
    BY <1>1, <2>2, <2>3, SameFile DEF Checked
  <2>9. Asked'
    BY <1>1, <2>2, <2>4, <2>5, SameFile DEF Asked, req
  <2> QED BY <2>6, <2>7, <2>8, <2>9 DEF StartupInv
<1>13. CASE Stop
  <2>1. /\ proc' = "down" /\ failure' = failure /\ cur' = 1
        /\ read' = {} /\ requests' = {} /\ UNCHANGED inputVars
        /\ wrote' = wrote
    BY <1>13 DEF Stop, Proceed
  <2>2. StartupTypeOK'
    BY <1>1, <1>2, <2>1, SameFile DEF StartupTypeOK
  <2>3. NothingYet' /\ AtClass' /\ Checked' /\ Asked' /\ NoLateRefusal'
    BY <1>1, <2>1, SameFile DEF NothingYet, Admitted, NoLateRefusal
  <2> QED BY <2>2, <2>3 DEF StartupInv
<1>14. CASE UNCHANGED startupVars
  <2>1. /\ UNCHANGED inputVars
        /\ UNCHANGED <<proc, cur, read, failure, hub, wrote, requests>>
    BY <1>14 DEF startupVars
  <2>2. StartupTypeOK'
    BY <1>1, <2>1, SameFile DEF StartupTypeOK, Admitted
  <2>3. NothingYet' /\ AtClass' /\ Checked' /\ Asked' /\ NoLateRefusal'
    BY <1>1, <2>1, SameFile
       DEF NothingYet, AtClass, Checked, Asked, NoLateRefusal
  <2> QED BY <2>2, <2>3 DEF StartupInv
<1> QED BY <1>3, <1>4, <1>5, <1>6, <1>8, <1>9, <1>11, <1>12, <1>13, <1>14
           DEF StartupNext
----------------------------------------------------------------------------
(* The theorems.                                                           *)

\* The inductive invariant holds, whatever files the operator writes.
THEOREM StartupCorrect == StartupSpec => []StartupInv
<1>1. StartupInit => StartupInv
  BY StartupInit_Inv
<1>2. StartupInv /\ [StartupNext]_startupVars => StartupInv'
  BY StartupNext_Inv
<1> QED BY <1>1, <1>2, PTL DEF StartupSpec

\* The variables of main keep their types, and run() stays within its classes.
THEOREM StartupTypeCorrect == StartupSpec => []StartupTypeOK
<1>1. StartupInv => StartupTypeOK
  BY DEF StartupInv
<1> QED BY <1>1, StartupCorrect, PTL

\* Of what Validate accepts, buildClient refuses a URL that names nothing, and
\* nobody refuses anything else: the three places that check a setting again
\* (scaleset.New, orchestrator.New and CloudInitSpec.Validate) agree with it on
\* every configuration.
THEOREM NoLateRefusalCorrect == StartupSpec => []NoLateRefusal
<1>1. StartupInv => NoLateRefusal
  BY DEF StartupInv
<1> QED BY <1>1, StartupCorrect, PTL

\* Connect and readAuthCreds open no file that Preflight has not looked at.
THEOREM ReadsVettedCorrect == StartupSpec => []ReadsOnlyVetted
<1>1. StartupInv => ReadsOnlyVetted
  <2> SUFFICES ASSUME StartupInv, NEW ref \in read
               PROVE  mode[ref[1]] \in Allows(ref[2])
    BY DEF ReadsOnlyVetted
  <2>1. IsConfiguration(cfg)
    BY WhileRunning DEF StartupInv
  <2>2. /\ Validate(cfg) /\ PreflightOK(cfg, mode)
        /\ ref \in DialReads(cfg) \cup AuthReads(cfg)
    BY DEF StartupInv, Checked
  <2> QED BY <2>1, <2>2, ReadsVetted
<1> QED BY <1>1, StartupCorrect, PTL

\* A local image is launched for one architecture only, because Validate lets
\* the classes of a baked image differ in size alone.
THEOREM OneArchCorrect == StartupSpec => []OneArchPerLocalImage
<1>1. StartupInv => OneArchPerLocalImage
  <2> SUFFICES ASSUME StartupInv, NEW p \in requests, NEW q \in requests,
                      LocalImage(p.req)
               PROVE  p.req.architecture = q.req.architecture
    BY DEF OneArchPerLocalImage
  <2>1. /\ Working(cfg) /\ Validate(cfg)
        /\ p.class \in DOMAIN cfg.classes /\ q.class \in DOMAIN cfg.classes
    BY WhileRunning DEF StartupInv, StartupTypeOK, Checked, Classes
  <2> DEFINE m == MakeRunnerName(Spec(p.class).name, p.suffix)
             n == MakeRunnerName(Spec(q.class).name, q.suffix)
  <2>2. /\ p.req = LaunchRequest(cfg, ScaleSetSpecs(cfg)[p.class], m)
        /\ q.req = LaunchRequest(cfg, ScaleSetSpecs(cfg)[q.class], n)
    BY DEF StartupInv, Asked, Spec
  <2> HIDE DEF m, n
  <2> QED BY <2>1, <2>2, LocalRequestsAgree
<1> QED BY <1>1, StartupCorrect, PTL

\* Every runner's name is one Incus takes, and no two classes or suffixes give
\* the same one: makeRunnerName never has to cut a name short.
THEOREM RunnerNamesCorrect == StartupSpec => []RunnerNamesTell
<1>1. StartupInv => RunnerNamesTell
  <2> SUFFICES ASSUME StartupInv PROVE RunnerNamesTell
    OBVIOUS
  <2>1. ASSUME NEW q \in requests
        PROVE  /\ IsConfiguration(cfg) /\ Validate(cfg)
               /\ q.class \in DOMAIN cfg.classes /\ q.suffix \in RandomSuffixes
               /\ q.req.name
                    = MakeRunnerName(ScaleSetSpecs(cfg)[q.class].name, q.suffix)
    <3>1. /\ IsConfiguration(cfg) /\ Validate(cfg)
          /\ q.class \in DOMAIN cfg.classes /\ q.suffix \in RandomSuffixes
      BY WhileRunning DEF StartupInv, StartupTypeOK, Checked, Classes
    <3> DEFINE spec == ScaleSetSpecs(cfg)[q.class]
               name == MakeRunnerName(spec.name, q.suffix)
    <3>2. q.req = LaunchRequest(cfg, spec, name)
      BY DEF StartupInv, Asked, Spec
    <3> HIDE DEF name, spec
    <3>3. LaunchRequest(cfg, spec, name).name = name
      BY DEF LaunchRequest
    <3> QED BY <3>1, <3>2, <3>3 DEF name, spec
  <2>2. ASSUME NEW q \in requests
        PROVE  /\ Len(q.req.name) <= MaxName
               /\ q.req.name[1] \in Lowercase
               /\ IsSuffix(Dash \o q.suffix, q.req.name)
    BY <2>1, RunnerNamed
  <2>3. ASSUME NEW p \in requests, NEW q \in requests,
               p.req.name = q.req.name
        PROVE  p.class = q.class /\ p.suffix = q.suffix
    BY <2>1, <2>3, RunnerNamesDiffer
  <2> QED BY <2>2, <2>3 DEF RunnerNamesTell
<1> QED BY <1>1, StartupCorrect, PTL

\* A restart with unchanged group, names and labels writes nothing to GitHub:
\* ScaleSetLabels sends no two labels that GitHub would fold, so what it stored
\* is what was sent, and labelNamesMatch finds it in whatever order it returns.
THEOREM LabelsSettleCorrect == StartupSpec => LabelsSettle
<1>1. StartupInv /\ [StartupNext]_startupVars =>
        [proc = "bootstrap" /\ ScaleSet(cur) \in DOMAIN hub =>
           (hub[ScaleSet(cur)] = Spec(cur).base_labels => ~wrote')]_startupVars
  <2> SUFFICES ASSUME StartupInv, StartupNext, proc = "bootstrap",
                      ScaleSet(cur) \in DOMAIN hub,
                      hub[ScaleSet(cur)] = Spec(cur).base_labels
               PROVE  ~wrote'
    OBVIOUS
  <2> DEFINE name == Spec(cur).name
             set == ScaleSet(cur)
             want == Spec(cur).base_labels
  <2>1. Bootstrap
    BY DEF StartupNext, Edit, Load, Preflight, ValidateOnly, Connect,
           ReadAuthCreds, NewScaleSet, NewOrchestrator, SpawnRunner, Stop
  <2>2. /\ IsConfiguration(cfg) /\ Validate(cfg)
        /\ cur \in DOMAIN cfg.classes
    BY WhileRunning DEF StartupInv, Checked, Admitted, AtClass, Classes
  <2>3. name \in Seq(Character) /\ name # <<>>
    BY <2>2, SpecNamed DEF Spec
  <2>4. want = ScaleSetLabels(cfg.base_labels, name)
    BY <2>2 DEF Spec, ScaleSetSpecs
  <2>5. cfg.base_labels \in Seq(Seq(Character))
    BY <2>2, ConfigurationFields
  <2>6. wrote' = FALSE \/ Reconcile(set, want)
    BY <2>1 DEF Bootstrap
  <2>7. hub[set] = want /\ set \in DOMAIN hub
    OBVIOUS
  <2> HIDE DEF name, set, want
  <2>8. want \in Seq(Seq(Character)) /\ Stored(want) = want
    BY <2>3, <2>4, <2>5, ScaleSetLabelsDistinct, StoredAsSent
  <2>9. ASSUME Reconcile(set, want) PROVE ~wrote'
    <3>1. PICK existing \in Reorderings(want) :
            wrote' = ~LabelNamesMatch(existing, want)
      BY <2>7, <2>8, <2>9 DEF Reconcile
    <3> QED BY <2>8, <3>1, ReorderingMatches
  <2> QED BY <2>6, <2>9
<1> QED BY <1>1, StartupCorrect, PTL DEF StartupSpec, LabelsSettle
============================================================================
