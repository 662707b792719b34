----------------------------- MODULE MCStartup -----------------------------
(* TLC instances of Startup.                                               *)
EXTENDS Startup

Numbers == (0 :> <<"0">>) @@ (1 :> <<"1">>) @@ (2 :> <<"2">>)
             @@ (10 :> <<"1", "0">>)

Class(v, m, d, arch) ==
  [vcpus |-> v, memory_gib |-> m, disk_gib |-> d, arch |-> arch,
   max_runners |-> 1]

\* A host of its own with a token, and a remote daemon with a GitHub App.
OnHost ==
  [config_url |-> "url", mode |-> "pat", pat_file |-> "pat",
   client_id |-> "", private_key_file |-> "", installation_id |-> 0,
   prefix |-> <<"a">>, runner_group |-> "", base_labels |-> <<>>,
   classes |-> <<Class(1, 1, 1, "amd64")>>,
   url |-> "", cert_file |-> "", key_file |-> "", server_cert_file |-> "",
   project |-> "", default_profile |-> "", storage_pool |-> "pool",
   request_timeout |-> 0, use_baked_image |-> FALSE, image_server |-> "",
   image_protocol |-> "", image_alias |-> "", work_folder |-> "",
   registration_timeout |-> 0, max_job_duration |-> 0,
   release_cache_ttl |-> <<>>, max_parallel_mints |-> 0,
   max_parallel_launches |-> 0, instance_type |-> "", privileged |-> FALSE]

Remote ==
  [OnHost EXCEPT
     !.mode = "app", !.client_id = "id", !.private_key_file = "appkey",
     !.installation_id = 1,
     !.url = "https", !.cert_file = "cert", !.key_file = "key",
     !.server_cert_file = "server",
     !.base_labels = <<<<"a">>, <<"b">>>>,
     !.classes = <<Class(1, 1, 1, "amd64"), Class(2, 1, 1, "amd64")>>,
     !.use_baked_image = TRUE, !.instance_type = "container"]

Bases == {OnHost, Remote}

\* Names of 13, 14 and 15 characters: around the limit of the cfg.
PrefixChoices ==
  {<<>>, <<"-">>, <<"a", "-">>, <<"A">>, <<"1">>,
   <<"a", "-", "b">>, <<"a", "-", "-", "b">>, <<"a", "b", "1", "b">>}

ClassLists ==
  {<<>>,
   <<Class(1, 1, 1, "amd64"), Class(1, 1, 1, "arm64")>>,
   <<Class(1, 1, 1, "arm64"), Class(1, 1, 1, "arm64")>>,
   <<Class(1, 2, 1, "amd64"), Class(1, 10, 1, "amd64")>>,
   <<Class(1, 1, 1, "AMD64")>>,
   <<Class(1, 1, 1, "other")>>,
   <<[Class(1, 1, 1, "amd64") EXCEPT !.max_runners = 0]>>}
  \cup {<<[Class(1, 1, 1, "amd64") EXCEPT ![f] = 0]>> :
          f \in {"vcpus", "memory_gib", "disk_gib"}}

LabelLists ==
  {<<<<"a">>, <<"A">>>>, <<<<"b">>, <<"a">>>>, <<<<>>, <<"B">>, <<"b">>>>}

Durations == {-1, 1}

OtherValues ==
  [ config_url |-> {"", "bad", "host"}, mode |-> {"", "pat", "app", "other"},
    pat_file |-> {"", "pat"}, client_id |-> {"", "id"},
    private_key_file |-> {"", "appkey"}, installation_id |-> {0, 1},
    prefix |-> PrefixChoices, runner_group |-> {"", "given"},
    base_labels |-> LabelLists, classes |-> ClassLists,
    url |-> {"", "https"}, cert_file |-> {"", "cert"},
    key_file |-> {"", "key"}, server_cert_file |-> {""},
    project |-> {"given"}, default_profile |-> {"given"},
    storage_pool |-> {""}, request_timeout |-> Durations,
    use_baked_image |-> {TRUE, FALSE}, image_server |-> {"given"},
    image_protocol |-> {"given"}, image_alias |-> {"given"},
    work_folder |-> {"/work", "given"}, registration_timeout |-> Durations,
    max_job_duration |-> Durations,
    release_cache_ttl |-> {<<-1>>, <<0>>}, max_parallel_mints |-> Durations,
    max_parallel_launches |-> Durations,
    instance_type |-> {"vm", "container", "other"},
    privileged |-> {TRUE} ]

Files == {"pat", "appkey", "cert", "key", "server"}
Strings == STRING
HexSuffixes == {<<"a", "1">>, <<"1", "0">>}
============================================================================
