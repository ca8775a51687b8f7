------------------------------ MODULE Settings ------------------------------
(***************************************************************************)
(* config.rs: what the command line, the config file and the environment   *)
(* become before the first frame.  An Option is a sequence of at most one  *)
(* element.  Names are numbers in the order of names; Blank is one that is *)
(* only spaces.  Which error is reported is wording and left out: the      *)
(* program starts or it does not.                                          *)
(*                                                                         *)
(*   a File         [found, valid, config]                                 *)
(*   its config     [numbers, endpoints, no_record, record_path]           *)
(*   a command line [numbers, endpoints, no_record, record, config]        *)
(*   an environment [XDG_CONFIG_HOME, HOME, XDG_DATA_HOME, secrets], the   *)
(*                  files [given, xdg, home] it holds, and whether the     *)
(*                  database can be opened                                 *)
(*   an endpoint    [name, host, scheme, needs, max_running, log_file]     *)
(***************************************************************************)
EXTENDS Integers, Sequences, SequencesExt

Blank == 0
Local == 50   \* "local"

Fields == {"refresh_interval_ms", "history_seconds", "percentile_window_seconds", "retention_days"}

Default ==
  [refresh_interval_ms |-> 1000, history_seconds |-> 300,
   percentile_window_seconds |-> 60, retention_days |-> 30]
Lowest ==
  [refresh_interval_ms |-> 1000, history_seconds |-> 30,
   percentile_window_seconds |-> 5, retention_days |-> 1]
Highest ==
  [refresh_interval_ms |-> 60000, history_seconds |-> 86400,
   percentile_window_seconds |-> 3600, retention_days |-> 3650]

Or(option, alternative) == IF option = <<>> THEN alternative ELSE option
UnwrapOr(option, default) == IF option = <<>> THEN default ELSE option[1]

NoNumbers == [f \in Fields |-> <<>>]
EmptyFile == [numbers |-> NoNumbers, endpoints |-> <<>>, no_record |-> FALSE, record_path |-> <<>>]

(***************************************************************************)
(* Where things are.                                                       *)
(***************************************************************************)

\* An explicit file must be readable; a default one may be missing.
Readable(file) == file.found /\ file.valid

DefaultFile(env) ==
  IF env.XDG_CONFIG_HOME THEN <<env.files.xdg>>
  ELSE IF env.HOME THEN <<env.files.home>>
  ELSE <<>>

ChosenFile(cli, env) ==
  IF cli.config THEN <<env.files.given>>
  ELSE IF DefaultFile(env) # <<>> /\ DefaultFile(env)[1].found THEN DefaultFile(env) ELSE <<>>

default_record_path(env) ==
  IF env.XDG_DATA_HOME THEN <<"xdg">> ELSE IF env.HOME THEN <<"home">> ELSE <<>>

(***************************************************************************)
(* Endpoints.                                                              *)
(***************************************************************************)

derive_name(spec) == spec.host

\* build_endpoint: only http and https, and a name always.
ValidUrl(spec) == spec.scheme \in {"http", "https"}
build_endpoint(spec) ==
  [name |-> IF spec.name \in {<<>>, <<Blank>>} THEN derive_name(spec) ELSE spec.name[1],
   needs |-> spec.needs, max_running |-> spec.max_running, log_file |-> spec.log_file]

\* An argument NAME=URL@CAP has no place for secrets or a log.
parse_endpoint_arg(spec) == [spec EXCEPT !.needs = {}, !.log_file = FALSE]

default_endpoint ==
  [name |-> <<Local>>, host |-> Local, scheme |-> "http", needs |-> {}, max_running |-> <<>>, log_file |-> FALSE]

\* The command line replaces the file's list, never merges with it.
Specs(cli, file) ==
  CASE cli.endpoints # <<>>  -> [i \in DOMAIN cli.endpoints |-> parse_endpoint_arg(cli.endpoints[i])]
    [] cli.endpoints = <<>> /\ file.endpoints # <<>> -> file.endpoints
    [] OTHER -> <<default_endpoint>>

HasDuplicates_Fault(endpoints) ==             \* only neighbours compared
  \E i, j \in DOMAIN endpoints : j = i + 1 /\ endpoints[i].name = endpoints[j].name
HasDuplicates(endpoints) ==
  \E i, j \in DOMAIN endpoints : i # j /\ endpoints[i].name = endpoints[j].name

resolve_auth(endpoint, env) == endpoint.needs \subseteq env.secrets

(***************************************************************************)
(* merge and load.                                                         *)
(***************************************************************************)

Number(cli, file, f) == UnwrapOr(Or(cli.numbers[f], file.numbers[f]), Default[f])

check_range(f, value) == Lowest[f] <= value /\ value <= Highest[f]

\* Most explicit first.  clap refuses --record together with --no-record.
RecordSetting(cli, file, env) ==
  CASE cli.no_record -> "DisabledByUser"
    [] ~cli.no_record /\ cli.record # <<>> -> "Enabled"
    [] ~cli.no_record /\ cli.record = <<>> /\ file.no_record -> "DisabledByUser"
    [] OTHER -> IF Or(file.record_path, default_record_path(env)) # <<>> THEN "Enabled" ELSE "Unavailable"

Parses(cli) == ~(cli.no_record /\ cli.record # <<>>)

\* The configuration, as an Option: the program refuses to start without one.
load(cli, env) ==
  LET chosen == ChosenFile(cli, env)
      file == IF chosen # <<>> /\ Readable(chosen[1]) THEN chosen[1].config ELSE EmptyFile
      specs == Specs(cli, file)
      endpoints == [i \in DOMAIN specs |-> build_endpoint(specs[i])]
  IN  IF /\ Parses(cli)
         /\ \A i \in DOMAIN chosen : Readable(chosen[i])
         /\ \A f \in Fields : check_range(f, Number(cli, file, f))
         /\ \A i \in DOMAIN specs : ValidUrl(specs[i])
         /\ ~HasDuplicates(endpoints)
      THEN <<[endpoints |-> endpoints,
              numbers |-> [f \in Fields |-> Number(cli, file, f)],
              record |-> RecordSetting(cli, file, env)]>>
      ELSE <<>>
=============================================================================
