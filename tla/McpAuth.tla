------------------------------- MODULE McpAuth --------------------------------
(***************************************************************************)
(* The MCP servers behind Warmplane and what they are logged in to: the    *)
(* configuration the installer writes for them, install/src/               *)
(* warmplane-config.ts, and what the workspace plugin reports of them,     *)
(* workspace/src/interop: warmplane-config.ts, mcp-oauth-helper.ts and     *)
(* mcp0-health.ts.                                                         *)
(*                                                                         *)
(* Times are in Ticks of a second; a URL with a template of the            *)
(* environment stands for Resolved of it.  A field that is not set is "".  *)
(***************************************************************************)
EXTENDS Integers, Sequences, FiniteSets, SequencesExt, FiniteSetsExt, TLC

CONSTANTS Ticks, Templates, Resolved(_)
Never == -1

(* A store of credentials: from keys to [token, expires, url, client].     *)
NoEntry == [token |-> FALSE, expires |-> Never, url |-> "", client |-> FALSE]
Entry(store, key) == IF key \in DOMAIN store THEN store[key] ELSE NoEntry
-----------------------------------------------------------------------------
(* The installer.  A header Authorization is "", "bearer env", "bearer",   *)
(* "basic env", "template" (a variable alone) or "other": only the first   *)
(* three that are set can be moved to the authentication, and a server     *)
(* that can do OAuth has that instead.                                     *)
translateAuthorizationHeader(header) ==
  CASE header = "bearer env" -> [type |-> "bearer", env |-> "TOKEN"]
    [] header = "bearer" -> [type |-> "bearer", env |-> ""]
    [] header = "basic env" -> [type |-> "basic", env |-> "PASSWORD"]
    [] OTHER -> [type |-> "none", env |-> ""]

buildRemoteServer(mcp) ==
  LET translated == translateAuthorizationHeader(mcp.header)
  IN [url |-> mcp.url, env |-> {}, header |-> IF translated.type = "none" THEN mcp.header ELSE "",
      auth |-> IF mcp.oauthCapable THEN [type |-> "oauth", key |-> mcp.id, client |-> mcp.client]
               ELSE translated]
buildLocalServer(mcp) ==
  [url |-> "", env |-> mcp.env, header |-> "", auth |-> [type |-> "none", env |-> ""]]

buildWarmplaneConfig(mcps) ==
  [id \in {mcps[i].id : i \in DOMAIN mcps} |->
     LET mcp == mcps[CHOOSE i \in DOMAIN mcps : mcps[i].id = id /\ \A j \in DOMAIN mcps : mcps[j].id = id => j <= i]
     IN IF mcp.type = "local" THEN buildLocalServer(mcp) ELSE buildRemoteServer(mcp)]

extractRequiredEnvVars(config) ==
  UNION {config[id].env \cup (IF config[id].header = "template" THEN {"HEADER"} ELSE {}) \cup
         (IF config[id].auth.type \in {"bearer", "basic"} THEN {config[id].auth.env} \ {""} ELSE {}) : id \in DOMAIN config}

deriveWarmplaneAuthStatus(entry, url, now) ==
  IF ~entry.token THEN "not_authenticated"
  ELSE IF url # "" /\ entry.url # "" /\ url \notin Templates /\ entry.url # url THEN "not_authenticated"
  ELSE IF entry.expires # Never /\ entry.expires <= now \div Ticks THEN "expired" ELSE "authenticated"

buildWarmplanePointerAuthMetadata(config, store, now) ==
  [id \in {i \in DOMAIN config : config[i].auth.type = "oauth"} |->
     LET auth == config[id].auth
         entry == Entry(store, IF auth.key # "" THEN auth.key ELSE id)
         status == deriveWarmplaneAuthStatus(entry, config[id].url, now)
     IN [authStatus |-> status, hasClientId |-> auth.client \notin {"none", ""} \/ entry.client,
         lastErrorCode |-> CASE status = "expired" -> "auth_expired" [] status = "not_authenticated" -> "auth_missing"
                             [] OTHER -> ""]]
-----------------------------------------------------------------------------
(* The plugin.  The files with the settings are read in order; one that is *)
(* not there or not JSON is left out.  A file is [mcp0, mcp], where mcp0   *)
(* is NoMcp0 or [binary, config] and mcp gives for each server the fields  *)
(* it sets.  The files of Warmplane are functions from paths to            *)
(* [store, servers], and the stores of credentials from paths to stores.   *)
NoMcp0 == [binary |-> "none", config |-> "none"]
parseMcp0FromConfig(file) == IF file.mcp0 = NoMcp0 THEN <<>> ELSE <<file.mcp0>>
Mcp0Entries(files) == FlattenSeq([i \in DOMAIN files |-> parseMcp0FromConfig(files[i])])

NoWarmplane == [path |-> "", store |-> "", servers |-> <<>>]
loadWarmplaneConfig(warmplane, path) ==
  IF path = "" \/ path \notin DOMAIN warmplane THEN NoWarmplane
  ELSE [path |-> path, store |-> warmplane[path].store, servers |-> warmplane[path].servers]
resolveAuthStoreCandidates(config) == IF config.store # "" THEN <<config.store>> ELSE <<"data", "config">>

(* The first candidate that is there, even if it cannot be read.           *)
readAuthStore(stores, candidates) ==
  LET there == SelectSeq(candidates, LAMBDA p : p \in DOMAIN stores)
  IN IF there = <<>> THEN <<>> ELSE stores[there[1]]

mergeMcpConfigs(files) ==
  LET Fold(f, g) == [n \in DOMAIN f \cup DOMAIN g |->
                       (IF n \in DOMAIN g THEN g[n] ELSE <<>>) @@ (IF n \in DOMAIN f THEN f[n] ELSE <<>>)]
  IN FoldLeft(LAMBDA merged, file : Fold(merged, file.mcp), <<>>, files)

Field(config, f) == IF f \in DOMAIN config THEN config[f] ELSE ""
isOAuthCapableConfig(config) ==
  \/ Field(config, "oauth") \in {"true", "object", "client"}
  \/ Field(config, "type") = "local" /\ Field(config, "command") = "mcp-remote"

deriveAuthStatus(entry, url, now) ==
  IF ~entry.token THEN "not_authenticated"
  ELSE IF url # "" /\ entry.url # "" /\ entry.url # url THEN "not_authenticated"
  ELSE IF entry.expires # Never /\ entry.expires * Ticks < now THEN "expired" ELSE "authenticated"

collectDirectServers(merged) ==
  [n \in {m \in DOMAIN merged : isOAuthCapableConfig(merged[m])} |->
     [url |-> Field(merged[n], "url"), managed_by |-> "direct", path |-> "", key |-> n,
      client |-> Field(merged[n], "oauth") = "client"]]
collectWarmplaneServers(config) ==
  [n \in {m \in DOMAIN config.servers : config.servers[m].auth.type = "oauth"} |->
     LET server == config.servers[n]
     IN [url |-> Resolved(server.url), managed_by |-> "warmplane", path |-> config.path,
         key |-> IF server.auth.key # "" THEN server.auth.key ELSE n, client |-> server.auth.client # "none"]]
PointerServers(pointers) ==
  [n \in {m \in DOMAIN pointers : pointers[m].oauth_capable} |->
     [url |-> "", managed_by |-> "direct", path |-> "", key |-> n, client |-> pointers[n].client]]

(* Warmplane is asked before the settings, and both before the pointer.    *)
EffectiveWarmplane(files, warmplane) ==
  LET entries == Mcp0Entries(files)
  IN loadWarmplaneConfig(warmplane, IF entries = <<>> THEN "" ELSE entries[Len(entries)].config)

buildMcpOAuthHelperSnapshot(files, warmplane, pointers, stores, now) ==
  LET config == EffectiveWarmplane(files, warmplane)
      store == readAuthStore(stores, resolveAuthStoreCandidates(config))
      servers == collectWarmplaneServers(config) @@ collectDirectServers(mergeMcpConfigs(files)) @@ PointerServers(pointers)
  IN [n \in DOMAIN servers |->
        [url |-> servers[n].url, managed_by |-> servers[n].managed_by, path |-> servers[n].path,
         has_client_id |-> servers[n].client \/ Entry(store, servers[n].key).client,
         auth_status |-> deriveAuthStatus(Entry(store, servers[n].key), servers[n].url, now)]]

(* The health of each mcp0 that some file names.                           *)
buildRecommendedAction(health) ==
  CASE health.binary = "" -> "command is empty"
    [] health.binary # "" /\ ~health.binary_found -> "install warmplane"
    [] health.binary_found /\ ~health.has_config_arg -> "add a config"
    [] health.binary_found /\ health.has_config_arg /\ ~health.warmplane_config_found -> "config is missing"
    [] OTHER -> IF health.oauth_not_ready # {} THEN "log in" ELSE "validate"

buildMcp0HealthSnapshot(files, warmplane, pointers, stores, binaries, now) ==
  LET oauth == buildMcpOAuthHelperSnapshot(files, warmplane, pointers, stores, now)
      Health(mcp0) ==
        LET config == loadWarmplaneConfig(warmplane, mcp0.config)
            downstream == {n \in DOMAIN oauth : /\ oauth[n].managed_by = "warmplane" /\ config # NoWarmplane
                                                /\ oauth[n].path = config.path}
            health == [binary |-> mcp0.binary, binary_found |-> mcp0.binary \in binaries,
                       has_config_arg |-> mcp0.config # "", warmplane_config_found |-> config # NoWarmplane,
                       oauth_upstreams |-> {n \in DOMAIN config.servers : config.servers[n].auth.type = "oauth"},
                       oauth_not_ready |-> {n \in downstream : oauth[n].auth_status # "authenticated"}]
        IN health @@ [recommended_action |-> buildRecommendedAction(health)]
      entries == Mcp0Entries(files)
      servers == [i \in DOMAIN entries |-> Health(entries[i])]
      Some(P(_)) == \E i \in DOMAIN servers : P(servers[i])
  IN [servers |-> servers,
      issues |-> (IF servers = <<>> THEN {"none found"} ELSE {}) \cup
                 (IF Some(LAMBDA s : ~s.has_config_arg) THEN {"no config"} ELSE {}) \cup
                 (IF Some(LAMBDA s : ~s.binary_found) THEN {"no binary"} ELSE {}) \cup
                 (IF Some(LAMBDA s : s.has_config_arg /\ ~s.warmplane_config_found) THEN {"config missing"} ELSE {}) \cup
                 (IF Some(LAMBDA s : s.oauth_not_ready # {}) THEN {"not logged in"} ELSE {})]
-----------------------------------------------------------------------------
(* The installer and the plugin say the same of an account, except at the  *)
(* very moment it expires and for a URL with a template, which only the    *)
(* plugin resolves before it compares.                                     *)
ReadersAgree(entry, url, now) ==
  LET installed == deriveWarmplaneAuthStatus(entry, url, now)
      reported == deriveAuthStatus(entry, Resolved(url), now)
  IN \/ installed = reported
     \/ <<installed, reported>> = <<"expired", "authenticated">> /\ now = entry.expires * Ticks
     \/ url \in Templates /\ reported = "not_authenticated" /\ entry.token /\ entry.url \notin {"", Resolved(url)}

(* What the user gave to authenticate a server is in the configuration or  *)
(* among the variables that must be set, unless OAuth takes its place.     *)
CredentialsAreKept(mcps) ==
  LET config == buildWarmplaneConfig(mcps)
      Unique(i) == \A j \in DOMAIN mcps : mcps[j].id = mcps[i].id => j = i
  IN \A i \in DOMAIN mcps : Unique(i) =>
       LET server == config[mcps[i].id] IN
       IF mcps[i].type = "local" THEN mcps[i].env \subseteq extractRequiredEnvVars(config)
       ELSE /\ mcps[i].header # "" /\ ~mcps[i].oauthCapable =>
                 (server.header = mcps[i].header) # (server.auth.type \in {"bearer", "basic"})
            /\ mcps[i].header = "bearer env" /\ ~mcps[i].oauthCapable => "TOKEN" \in extractRequiredEnvVars(config)
            /\ mcps[i].header = "template" => "HEADER" \in extractRequiredEnvVars(config)
            /\ mcps[i].oauthCapable => server.auth.type = "oauth" /\ server.auth.key = mcps[i].id

(* Nothing is to be done only if nothing is wrong with the mcp0 that is    *)
(* used, the last of the files.  An earlier one is not asked for its       *)
(* accounts, unless both name the same file.                               *)
HealthIsTrue(files, warmplane, pointers, stores, binaries, now) ==
  LET h == buildMcp0HealthSnapshot(files, warmplane, pointers, stores, binaries, now)
      used == h.servers[Len(h.servers)]
      store == readAuthStore(stores, resolveAuthStoreCandidates(EffectiveWarmplane(files, warmplane)))
      LoggedIn(n) == LET s == EffectiveWarmplane(files, warmplane).servers[n]
                     IN deriveAuthStatus(Entry(store, IF s.auth.key # "" THEN s.auth.key ELSE n), Resolved(s.url), now) = "authenticated"
  IN /\ h.issues = {} =>
          /\ h.servers # <<>>
          /\ \A i \in DOMAIN h.servers : h.servers[i].recommended_action = "validate"
          /\ \A n \in used.oauth_upstreams : LoggedIn(n)
     /\ h.issues # {} => \/ h.servers = <<>>
                         \/ \E i \in DOMAIN h.servers : h.servers[i].recommended_action # "validate"
     /\ h.servers # <<>> => used.oauth_not_ready = {n \in used.oauth_upstreams : ~LoggedIn(n)}
=============================================================================
