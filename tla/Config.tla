-------------------------------- MODULE Config --------------------------------
(***************************************************************************)
(* The configuration of the agent.  Every section says twice what a value  *)
(* is when the file does not give it: X is what serde puts for a field     *)
(* that is missing from a section that is there, X_default is what         *)
(* Default::default gives when the section is missing altogether (the same *)
(* where it is derived).  Both use the functions default_..., here one     *)
(* record for each group of them.  Paths are the Unix ones.                *)
(***************************************************************************)
EXTENDS Naturals, Sequences, TLC

None == "none"

default_update ==
  [server_url |-> "https://updates.example.com/sda/latest.json", check_interval |-> 3600, smoke_test_timeout |-> 10]
default_server == [address |-> "localhost", port |-> 1514, protocol |-> "tcp", keepalive_interval |-> 600]
default_limits == [max_cpu_percent |-> 3, max_memory_mb |-> 50, battery_mode |-> "adaptive"]
default_logging == [level |-> "info", format |-> "text"]
default_fim ==
  [scan_interval |-> 43200, debounce_ms |-> 100, max_hashes_per_sec |-> 100, batch_size |-> 50, batch_timeout_ms |-> 200]
default_fim_directories == {"/etc", "/usr/bin", "/usr/sbin", "/boot"}
default_inventory == [interval |-> 3600, collect |-> <<"os", "network", "packages", "hardware">>]
default_sca == [policy_dir |-> "/etc/sn360-desktop-agent/sca", scan_interval |-> 43200]
default_rootcheck ==
  [scan_interval_secs |-> 3600, max_pid |-> 32768,
   baseline_path |-> "/var/lib/sn360-desktop-agent/rootcheck-baseline.json"]
default_ei_intervals == [running_software |-> 60, browser_extensions |-> 3600, sbom |-> 86400]
default_lde ==
  [rule_pull_interval |-> 300, offline_queue_max |-> 10000, yara_scan_rate_limit |-> 1,
   yara_max_file_size_mb |-> 50, bloom_filter_fpr |-> "0.01", behavioral_max_window_sec |-> 300,
   behavioral_max_tracked_entities |-> 5000, offline_drain_interval |-> 30, offline_drain_batch |-> 128,
   rule_bundle_path |-> "/var/lib/sn360-desktop-agent/lde-rules.msgpack",
   offline_queue_path |-> "/var/lib/sn360-desktop-agent/lde-offline-queue.db",
   quarantine_dir |-> "/var/lib/sn360-desktop-agent/quarantine"]
default_ar_actions == <<"block_ip", "kill_process", "disable_account">>

----------------------------------------------------------------------------
TamperConfig ==
  [enabled |-> FALSE, expected_binary_sha256 |-> None, immutable_paths |-> {}, watchdog_interval_secs |-> 0]
SecurityConfig == [run_as_user |-> None, run_as_group |-> None, privilege_helper_path |-> None]

ServerConfig == default_server
ServerConfig_default == default_server

EnhancedProtocolConfig ==
  [tls |-> FALSE, serialization |-> "json", tls_pinned_sha256 |-> None, tls_ca_bundle_path |-> None]
EnhancedProtocolConfig_default ==
  [tls |-> FALSE, serialization |-> "json", tls_pinned_sha256 |-> None, tls_ca_bundle_path |-> None]

EnrollmentConfig ==
  [server |-> None, port |-> 1515, auto_enroll |-> TRUE, key |-> None, agent_name |-> None,
   groups |-> None, keys_file |-> None]
EnrollmentConfig_default ==
  [server |-> None, port |-> 1515, auto_enroll |-> TRUE, key |-> None, agent_name |-> None,
   groups |-> None, keys_file |-> None]

FimConfig == [enabled |-> TRUE, directories |-> default_fim_directories] @@ default_fim
FimConfig_default == [enabled |-> TRUE, directories |-> default_fim_directories] @@ default_fim

LogCollectorConfig == [enabled |-> FALSE, sources |-> {}]

InventoryConfig == [enabled |-> TRUE] @@ default_inventory
InventoryConfig_default == [enabled |-> TRUE] @@ default_inventory

(* Mutation: switched on by a section that does not say so. *)
RootcheckConfig_On ==
  [enabled |-> TRUE, signature_paths |-> {}, binary_paths |-> {}, hidden_process_check |-> TRUE,
   binary_integrity_check |-> TRUE] @@ default_rootcheck

RootcheckConfig ==
  [enabled |-> FALSE, signature_paths |-> {}, binary_paths |-> {}, hidden_process_check |-> TRUE,
   binary_integrity_check |-> TRUE] @@ default_rootcheck
RootcheckConfig_default ==
  [enabled |-> FALSE, signature_paths |-> {}, binary_paths |-> {}, hidden_process_check |-> TRUE,
   binary_integrity_check |-> TRUE] @@ default_rootcheck

LocalDetectionConfig ==
  [enabled |-> FALSE, block_ip |-> FALSE, kill_process |-> FALSE, quarantine |-> FALSE] @@ default_lde
LocalDetectionConfig_default ==
  [enabled |-> FALSE, block_ip |-> FALSE, kill_process |-> FALSE, quarantine |-> FALSE] @@ default_lde

EnhancedInventoryConfig == [enabled |-> FALSE]
RunningSoftwareConfig == [enabled |-> TRUE, interval |-> default_ei_intervals.running_software]
RunningSoftwareConfig_default == [enabled |-> TRUE, interval |-> default_ei_intervals.running_software]
BrowserExtensionsConfig == [enabled |-> TRUE, interval |-> default_ei_intervals.browser_extensions]
BrowserExtensionsConfig_default == [enabled |-> TRUE, interval |-> default_ei_intervals.browser_extensions]
SbomConfig == [enabled |-> TRUE, interval |-> default_ei_intervals.sbom, on_demand |-> TRUE]
SbomConfig_default == [enabled |-> TRUE, interval |-> default_ei_intervals.sbom, on_demand |-> TRUE]

ScaConfig == [enabled |-> TRUE] @@ default_sca
ScaConfig_default == [enabled |-> TRUE] @@ default_sca

UpdateConfig == [enabled |-> FALSE, public_key |-> ""] @@ default_update
UpdateConfig_default == [enabled |-> FALSE, public_key |-> ""] @@ default_update

ActiveResponseConfig == [enabled |-> TRUE, timeout |-> 30, actions |-> default_ar_actions]
ActiveResponseConfig_default == [enabled |-> TRUE, timeout |-> 30, actions |-> default_ar_actions]

ResourceLimits == [idle_detection |-> TRUE] @@ default_limits
ResourceLimits_default == [idle_detection |-> TRUE] @@ default_limits

LoggingConfig == [file |-> None] @@ default_logging
LoggingConfig_default == [file |-> None] @@ default_logging

----------------------------------------------------------------------------
section(fields, default) == [fields |-> fields, default |-> default]

ModulesConfig ==
  [fim |-> section(FimConfig, FimConfig_default),
   logcollector |-> section(LogCollectorConfig, LogCollectorConfig),
   inventory |-> section(InventoryConfig, InventoryConfig_default),
   sca |-> section(ScaConfig, ScaConfig_default),
   active_response |-> section(ActiveResponseConfig, ActiveResponseConfig_default),
   rootcheck |-> section(RootcheckConfig, RootcheckConfig_default),
   local_detection |-> section(LocalDetectionConfig, LocalDetectionConfig_default),
   enhanced_inventory |-> section(EnhancedInventoryConfig, EnhancedInventoryConfig),
   updater |-> section(UpdateConfig, UpdateConfig_default)]

TopConfig ==
  [server |-> section(ServerConfig, ServerConfig_default),
   enhanced |-> section(EnhancedProtocolConfig, EnhancedProtocolConfig_default),
   enrollment |-> section(EnrollmentConfig, EnrollmentConfig_default),
   resource_limits |-> section(ResourceLimits, ResourceLimits_default),
   logging |-> section(LoggingConfig, LoggingConfig_default),
   security |-> section(SecurityConfig, SecurityConfig),
   tamper |-> section(TamperConfig, TamperConfig),
   running_software |-> section(RunningSoftwareConfig, RunningSoftwareConfig_default),
   browser_extensions |-> section(BrowserExtensionsConfig, BrowserExtensionsConfig_default),
   sbom |-> section(SbomConfig, SbomConfig_default)]

(* All sections; the names of the nested ones are unique too. *)
AgentConfig ==
  [s \in DOMAIN TopConfig \cup DOMAIN ModulesConfig |-> IF s \in DOMAIN TopConfig THEN TopConfig[s] ELSE ModulesConfig[s]]

(* file maps the sections it has to the fields they give; a key that is no   *)
(* field of its section is ignored.                                          *)
from_yaml(file) ==
  [s \in DOMAIN AgentConfig |->
     IF s \notin DOMAIN file THEN AgentConfig[s].default
     ELSE [f \in DOMAIN AgentConfig[s].fields |->
             IF f \in DOMAIN file[s] THEN file[s][f] ELSE AgentConfig[s].fields[f]]]

load_default(exists, file) ==
  IF exists THEN from_yaml(file) ELSE [s \in DOMAIN AgentConfig |-> AgentConfig[s].default]
=============================================================================
