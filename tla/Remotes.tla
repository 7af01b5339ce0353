------------------------------ MODULE Remotes ------------------------------
(***************************************************************************)
(* What becomes of a connection of the host: its form is parsed, its       *)
(* endpoint led through the tunnels, what is filled in told to rclone as   *)
(* the options of a section, and its root put into the fs.  A test does    *)
(* the same under a name of its own.  This is one connection: the names of *)
(* others hold a hash of their ids, and the reserved id is refused.  The   *)
(* value of a field is its name.  rclone, the servers and the tunnels of   *)
(* the host are external; RcdGroups has the processes.                     *)
(***************************************************************************)
EXTENDS Naturals, Sequences

CONSTANTS
    Threads,    \* those of the plugin's pool
    Offers,     \* what the host sends of the connection: [forms, calls]
    Worlds,     \* what may be served: [name -> [host -> [port, keys, places, lists, odd]]]
    Providers,  \* rclone's table: [type -> [options, required]]
    MaxTroubles \* bound: calls of rclone and ssh that fail

VARIABLES
    served,     \* of this behaviour: its world, by name
    offered,    \* of this behaviour: its forms, and the bound of calls begun
    sections,   \* of the rcds: [group and name -> section]
    forwards,   \* the ssh forwarders, of the connection and of its tests
    entry,      \* the registry
    calls,      \* what each thread does
    spoiled,    \* history: a connect failed under an entry, or two met
    orphans,    \* history: sections that could not be deleted
    begun, troubles

remoteVars ==
    <<served, offered, sections, forwards, entry, calls, spoiled, orphans, begun, troubles>>

------------------------------------------------------------------------------
(* The protocols, by how their options are put together.                   *)
Vendors == {"oss", "cos", "obs", "qiniu", "r2", "wasabi", "spaces", "scaleway", "idrive", "us3",
            "ecloud", "nos", "bos", "tos", "ks3"}
S3Family == Vendors \cup {"s3"}
Drives == {"gdrive", "onedrive", "dropbox"}
Sftp == {"sftp", "sftp-native"}
Single == {"webdav", "ftp", "smb"} \cup Sftp

(* Of the generic ones those that differ in shape.                         *)
Generic == {"azurefiles", "b2", "crypt", "filen", "memory"}
Protocols ==
    S3Family \cup Drives \cup Single \cup Generic
        \cup {"fs", "gcs", "azblob", "yandex-disk", "seafile", "koofr", "pcloud", "rclone-custom",
              "aliyun-drive"}
Custom(f) == f.protocol \in Generic \cup {"rclone-custom"}

Type(f) ==
    CASE f.protocol = "fs" -> "local"
      [] f.protocol \in S3Family -> "s3"
      [] f.protocol \in Sftp -> "sftp"
      [] f.protocol = "azblob" -> "azureblob"
      [] f.protocol = "gdrive" -> "drive"
      [] f.protocol = "yandex-disk" -> "yandex"
      [] f.protocol = "rclone-custom" -> f.service
      [] OTHER -> f.protocol
BucketRooted(type) == type \in {"s3", "b2", "gcs", "azureblob", "seafile"}

------------------------------------------------------------------------------
(* from_lifecycle_params.  A nested object wins over the flat fields of a  *)
(* proxy or a tunnel, and only a flat proxy may be off.                    *)
NoEndpoint == [scheme |-> "", user |-> "", host |-> "", port |-> 0, path |-> ""]
MaxPort == 65535

Wins(spec) == IF spec.nested # "" THEN spec.nested ELSE spec.flat
ProxyOf(f) == IF f.proxy = [nested |-> "", flat |-> "off"] THEN "" ELSE Wins(f.proxy)
TunnelOf(f) == Wins(f.tunnel)

Parses(f) ==
    /\ f.protocol \in Protocols
    /\ Custom(f) => f.json.ok
    /\ ProxyOf(f) \in {"", "http", "socks5"}
    /\ TunnelOf(f) = "" \/ (TunnelOf(f) = "chain" /\ f.protocol # "fs")

(* The port of the host's tunnel takes the place of the address alone, but *)
(* of all there is without a scheme.                                       *)
Redialed(e) ==
    IF e.scheme = "" THEN [NoEndpoint EXCEPT !.host = "runtime", !.port = 1]
    ELSE [e EXCEPT !.host = "runtime", !.port = 1]

Scheme(f) ==
    CASE f.protocol = "ftp" -> IF "ftp_tls" \in f.fields THEN "ftps" ELSE "ftp"
      [] f.protocol = "webdav" -> IF "webdav_scheme" \in f.fields THEN "http" ELSE "https"
      [] OTHER -> ""
Declared(f) ==
    IF f.endpoint # NoEndpoint THEN f.endpoint
    ELSE IF f.protocol \in Single /\ f.host # ""
         THEN [NoEndpoint EXCEPT !.scheme = Scheme(f), !.host = f.host, !.port = f.port]
         ELSE NoEndpoint
EndpointFor(f) ==
    IF f.layers /\ Declared(f) # NoEndpoint THEN Redialed(Declared(f)) ELSE Declared(f)

------------------------------------------------------------------------------
(* tunnel_target: where a forwarder leads to.  A path is taken for a part  *)
(* of what it follows.                                                     *)
SchemePort == [https |-> 443, http |-> 80, ftp |-> 21, sftp |-> 22, smb |-> 445]
ProtocolPort ==
    [p \in Sftp \cup {"ftp", "smb"} |-> IF p = "ftp" THEN 21 ELSE IF p = "smb" THEN 445 ELSE 22]
HasTarget(f, e) ==
    /\ e.host # ""
    /\ IF e.port # 0 THEN e.path = "" /\ e.port <= MaxPort
       ELSE e.scheme \in DOMAIN SchemePort \/ f.protocol \in DOMAIN ProtocolPort
TargetPort(f, e) ==
    IF e.port # 0 THEN e.port
    ELSE IF e.scheme \in DOMAIN SchemePort THEN SchemePort[e.scheme] ELSE ProtocolPort[f.protocol]
TunnelTarget(f, e) ==
    [host |-> IF e.path = "" THEN e.host ELSE e.host \o "/" \o e.path, port |-> TargetPort(f, e)]

(* rewrite_endpoint: of the endpoint the scheme is left.                   *)
Rewritten(e, key, n) == [NoEndpoint EXCEPT !.scheme = e.scheme, !.host = key, !.port = n]

------------------------------------------------------------------------------
(* What is told to rclone: the options, each with the field it is told, or *)
(* with a value of its own.                                                *)
Filled(f, e) == f.fields \cup (IF e = NoEndpoint THEN {} ELSE {"endpoint"})
Told(f, e, rows) == {row \in rows : row[1] \in Filled(f, e)}
When(condition, value, option) == IF condition THEN {<<value, option>>} ELSE {}
OrElse(f, field, value) == IF field \in f.fields THEN field ELSE value
Names(options) == {told[2] : told \in options}
Says(ok, dials, options) == [ok |-> ok, dials |-> dials, options |-> options]

(* parse_host_endpoint: a path is let go.                                  *)
IsHostPort(e, schemes) == e.host # "" /\ e.scheme \in schemes \cup {""} /\ e.port <= MaxPort
HostPort(e, default) == [e EXCEPT !.path = "", !.port = IF @ = 0 THEN default ELSE @]

NeedsEndpoint == Vendors \ {"oss", "cos", "obs"}
S3Provider(f, e) ==
    IF f.protocol \in Vendors \ {"bos", "tos", "ks3"} THEN f.protocol
    ELSE IF e = NoEndpoint THEN "AWS" ELSE "Other"
S3Rows(f) ==
    IF f.protocol = "cos"
    THEN {<<"secret_id", "access_key_id">>, <<"secret_key", "secret_access_key">>,
          <<"security_token", "session_token">>, <<"endpoint", "endpoint">>}
    ELSE {<<"access_key_id", "access_key_id">>, <<"secret_access_key", "secret_access_key">>,
          <<"endpoint", "endpoint">>}
S3Options(f, e) ==
    Says(f.protocol \in NeedsEndpoint => e # NoEndpoint, e,
         Told(f, e, S3Rows(f)) \cup {<<S3Provider(f, e), "provider">>}
           \cup When(f.protocol = "r2", "auto", "region")
           \cup When(f.protocol = "s3", OrElse(f, "region", "us-east-1"), "region")
           \cup When(f.protocol = "s3", OrElse(f, "enable_virtual_host_style", "true"),
                     "force_path_style"))

GcsOptions(f, e) ==
    Says({"adc", "credential"} \cap f.fields # {}, e,
         Told(f, e, {<<"endpoint", "endpoint">>})
           \cup {IF "adc" \in f.fields THEN <<"adc", "env_auth">>
                 ELSE <<"credential", "service_account_credentials">>})

AzblobOptions(f, e) ==
    Says(TRUE, e, Told(f, e, {<<"account_name", "account">>, <<"account_key", "key">>,
                              <<"endpoint", "endpoint">>}))
WebdavOptions(f, e) ==
    Says(e # NoEndpoint, e,
         Told(f, e, {<<"endpoint", "url">>, <<"username", "user">>, <<"password", "pass">>})
           \cup {<<"other", "vendor">>})

FtpOptions(f, e) ==
    Says(IsHostPort(e, {"ftp", "ftps"}), HostPort(e, 21),
         Told(f, e, {<<"endpoint", "host">>, <<"password", "pass">>})
           \cup {<<OrElse(f, "user", "anonymous"), "user">>}
           \cup When(e.scheme = "ftps", "true", "tls"))

(* The user of the endpoint, or else that of either form.  The text of a   *)
(* key is refused, its path is told.                                       *)
SftpRows ==
    {<<"endpoint", "host">>, <<"password", "pass">>, <<"key", "key_file">>,
     <<"known_hosts_strategy", "known_hosts_file">>}
SftpOptions(f, e) ==
    Says(IsHostPort(e, {"ssh"}) /\ "pem" \notin f.fields, HostPort(e, 22),
         Told(f, e, SftpRows)
           \cup (IF e.user # "" THEN {<<e.user, "user">>}
                 ELSE Told(f, e, {<<OrElse(f, "user", "username"), "user">>})))

SmbOptions(f, e) ==
    Says(IsHostPort(e, {"smb"}), HostPort(e, 445),
         Told(f, e, {<<"endpoint", "host">>, <<"username", "user">>, <<"password", "pass">>,
                     <<"domain", "domain">>}))

Tokens(f) == f.fields \cap {"access_token", "refresh_token"}
TokenOf(f) == Tokens(f) \X {"token"}
OauthOptions(f) ==
    Says(Tokens(f) # {}, NoEndpoint,
         Told(f, NoEndpoint, {<<"client_id", "client_id">>, <<"client_secret", "client_secret">>})
           \cup TokenOf(f))
YandexOptions(f) ==
    Says("access_token" \in f.fields, NoEndpoint, {<<"access_token", "token">>})

PcloudOptions(f, e) ==
    Says(/\ e # NoEndpoint => IsHostPort(e, {"https", "http"})
         /\ Filled(f, e) \cap {"username", "password", "endpoint", "access_token",
                               "refresh_token"} # {},
         IF e = NoEndpoint THEN e
         ELSE [HostPort(e, 443) EXCEPT !.scheme = "https", !.port = 443],
         Told(f, e, {<<"username", "username">>, <<"password", "password">>,
                     <<"endpoint", "hostname">>})
           \cup TokenOf(f))
SeafileOptions(f, e) ==
    Says(e # NoEndpoint, e,
         Told(f, e, {<<"endpoint", "url">>, <<"username", "user">>, <<"password", "pass">>,
                     <<"repo_name", "library">>}))
KoofrOptions(f, e) ==
    Says(TRUE, e, Told(f, e, {<<"endpoint", "endpoint">>, <<"email", "user">>,
                              <<"password", "password">>}))

(* validate_provider_options: no option is unknown and none that is        *)
(* required missing; of some one is enough.                                *)
AnyOf(type) == IF type = "filen" THEN {"password", "api_key"} ELSE {}
Validates(type, names) ==
    type \in DOMAIN Providers =>
        /\ names \subseteq Providers[type].options
        /\ Providers[type].required \ AnyOf(type) \subseteq names
        /\ AnyOf(type) # {} => AnyOf(type) \cap names # {}

(* The fields win over the JSON, and of two for one option the latter.     *)
GenericRows(f) ==
    CASE f.protocol = "azurefiles" ->
             {<<"endpoint", "endpoint">>, <<"share", "share_name">>, <<"secret_access_key", "key">>,
              <<OrElse(f, "access_key_id", "username"), "account">>}
      [] f.protocol = "b2" -> {<<"access_key_id", "account">>, <<"secret_access_key", "key">>}
      [] f.protocol = "crypt" -> {<<"password", "password">>}
      [] f.protocol = "filen" ->
             {<<"username", "email">>, <<"password", "password">>, <<"token", "api_key">>}
      [] f.protocol = "memory" -> {}
Json(names) == {"config"} \X names
GenericOptions(f, e) ==
    LET rows == Told(f, e, GenericRows(f))
        told == rows \cup Json(f.json.options \ Names(rows))
    IN Says(Validates(f.protocol, Names(told)),
            IF "endpoint" \in Names(rows) THEN e ELSE NoEndpoint, told)
CustomOptions(f) ==
    Says(f.service \notin {"", "No Service"} /\ Validates(f.service, f.json.options),
         NoEndpoint, Json(f.json.options))

(* params_for                                                              *)
FamilyOptions(f, e) ==
    CASE f.protocol = "fs" -> Says(TRUE, NoEndpoint, {})
      [] f.protocol \in S3Family -> S3Options(f, e)
      [] f.protocol = "gcs" -> GcsOptions(f, e)
      [] f.protocol = "azblob" -> AzblobOptions(f, e)
      [] f.protocol = "webdav" -> WebdavOptions(f, e)
      [] f.protocol = "ftp" -> FtpOptions(f, e)
      [] f.protocol \in Sftp -> SftpOptions(f, e)
      [] f.protocol = "smb" -> SmbOptions(f, e)
      [] f.protocol \in Drives -> OauthOptions(f)
      [] f.protocol = "yandex-disk" -> YandexOptions(f)
      [] f.protocol = "seafile" -> SeafileOptions(f, e)
      [] f.protocol = "koofr" -> KoofrOptions(f, e)
      [] f.protocol = "pcloud" -> PcloudOptions(f, e)
      [] f.protocol \in Generic -> GenericOptions(f, e)
      [] f.protocol = "rclone-custom" -> CustomOptions(f)
      [] f.protocol = "aliyun-drive" -> Says(FALSE, NoEndpoint, {})
ProxyOption(f) ==
    When(ProxyOf(f) # "" /\ f.protocol \in Sftp \cup {"ftp"}, "proxy",
         IF ProxyOf(f) = "http" THEN "http_proxy" ELSE "socks_proxy")
PasswordKeys == {"pass", "password", "key", "secret_access_key", "session_token",
                 "service_account_credentials"}
Obscures(f, options) == Custom(f) \/ Names(options) \cap PasswordKeys # {}
HasSection(f, e) == FamilyOptions(f, e).ok
SectionOf(f, e) ==
    LET says == FamilyOptions(f, e)
    IN [type |-> Type(f), dials |-> says.dials, options |-> ProxyOption(f) \cup says.options,
        obscure |-> Obscures(f, says.options)]

(* composed_root, binding_for: the bucket is the first part of the path,   *)
(* and a share is glued to the root as that is written.                    *)
BucketField(f) ==
    CASE f.protocol \in S3Family \cup {"gcs"} -> "bucket"
      [] f.protocol = "azblob" -> "container"
      [] OTHER -> "none"
InBucket(f, bucket) ==
    IF bucket \in f.fields THEN [slash |-> TRUE, parts |-> <<bucket>> \o f.root.parts] ELSE f.root
(* Mistake: the bucket is left out of the fs.                              *)
ComposedBare(f) == InBucket(f, "none")
ComposedRoot(f) == InBucket(f, BucketField(f))
BindingRoot(f) ==
    LET root == ComposedRoot(f)
    IN IF f.protocol # "smb" \/ "share" \notin f.fields THEN root
       ELSE [slash |-> TRUE,
             parts |-> IF root.slash \/ root.parts = <<>> THEN <<"share">> \o root.parts
                       ELSE <<"share" \o Head(root.parts)>> \o Tail(root.parts)]

------------------------------------------------------------------------------
(* External: where a section leads, by a forwarder while it has the port,  *)
(* and what is found there.  A bucket is listed by who may list buckets.   *)
DefaultPort(type, scheme) ==
    CASE type = "ftp" -> 21
      [] type = "sftp" -> 22
      [] type = "smb" -> 445
      [] OTHER -> IF scheme = "http" THEN 80 ELSE 443
NoForwarder == [target |-> [host |-> "", port |-> 0], n |-> 0]
Nowhere == [host |-> "", port |-> 0, path |-> ""]
Leads(s) ==
    LET d == s.dials
        at == IF d.host \in DOMAIN forwards THEN forwards[d.host] ELSE NoForwarder
        port == IF d.port = 0 THEN DefaultPort(s.type, d.scheme) ELSE d.port
    IN IF d = NoEndpoint THEN [Nowhere EXCEPT !.host = s.type]
       ELSE IF d.host \notin DOMAIN forwards
       THEN [host |-> d.host, port |-> port, path |-> d.path]
       ELSE IF at # NoForwarder /\ at.n = d.port
       THEN [host |-> at.target.host, port |-> at.target.port, path |-> d.path]
       ELSE Nowhere
Servers == Worlds[served]
Admits(to, told) ==
    /\ to.host \in DOMAIN Servers
    /\ Servers[to.host].port = to.port
    /\ Servers[to.host].keys \subseteq told
FilledFrom(s) == {told[1] : told \in s.options}
Enters(s) == Admits(Leads(s), FilledFrom(s))
Finds(host, root) == root.parts = <<>> \/ root.parts \in Servers[host].places
ListsAt(host, root) == IF root.parts = <<>> THEN Servers[host].lists ELSE Finds(host, root)

------------------------------------------------------------------------------
NoSection == [type |-> "none", dials |-> NoEndpoint, options |-> {}, obscure |-> FALSE]
AnyForm == CHOOSE f \in (CHOOSE o \in Offers : TRUE).forms : TRUE
NoEntry ==
    [group |-> "none", section |-> NoSection, root |-> [slash |-> FALSE, parts |-> <<>>],
     form |-> AnyForm]
NoCall ==
    [at |-> "idle", kind |-> "none", form |-> AnyForm, n |-> 0,
     old |-> "none", section |-> NoSection, verdict |-> FALSE, own |-> TRUE, troubled |-> FALSE,
     lost |-> FALSE]

RemoteInit ==
    /\ served \in DOMAIN Worlds /\ offered \in Offers
    /\ sections = <<>> /\ forwards = [key \in {"live", "test"} |-> NoForwarder]
    /\ entry = NoEntry
    /\ calls = [c \in Threads |-> NoCall]
    /\ spoiled = "no" /\ orphans = {}
    /\ begun = 0 /\ troubles = 0

GroupOf(f) == IF ProxyOf(f) = "" THEN "direct" ELSE ProxyOf(f)
NameOf(call) == <<GroupOf(call.form), IF call.kind = "test" THEN call.n ELSE 0>>
KeyOf(call) == IF call.kind = "test" THEN "test" ELSE "live"
Registered == entry.group # "none"
Busy(c) == calls[c].at \notin {"idle", "answered"}
Registering(c) == Busy(c) /\ calls[c].kind # "test"

At(c, label) == calls[c].at = label
Goes(c, call) == calls' = [calls EXCEPT ![c] = call]
To(c, label) == Goes(c, [calls[c] EXCEPT !.at = label])
Answer(call, ok) == [call EXCEPT !.at = "answered", !.verdict = ok]
Answers(c, ok) == Goes(c, Answer(calls[c], ok))
Troubled(call) == [call EXCEPT !.troubled = TRUE]
Trouble == troubles < MaxTroubles /\ troubles' = troubles + 1
Smooth == UNCHANGED troubles
Meets ==
    spoiled' = IF \E c \in Threads : Registering(c) THEN "met" ELSE spoiled
Spoils(cause) == spoiled' = IF spoiled = "no" /\ Registered THEN cause ELSE spoiled

(* connection/test and connection/connect begin with the form, a           *)
(* disconnect with the registry.  A form that does not parse is refused.   *)
Begins(c) ==
    /\ ~Busy(c) /\ begun < offered.calls
    /\ begun' = begun + 1
    /\ \E f \in offered.forms, kind \in {"test", "connect"} :
          LET call == [NoCall EXCEPT !.kind = kind, !.form = f, !.n = begun + 1]
          IN IF ~Parses(f) THEN Goes(c, Answer(call, FALSE)) /\ UNCHANGED spoiled
             ELSE IF kind = "test" THEN Goes(c, [call EXCEPT !.at = "forward"]) /\ UNCHANGED spoiled
             ELSE /\ Goes(c, [call EXCEPT !.at = "predelete", !.old = entry.group])
                  /\ Meets
    /\ UNCHANGED <<served, offered, sections, forwards, entry, orphans, troubles>>
Disconnects(c) ==
    /\ ~Busy(c) /\ begun < offered.calls
    /\ begun' = begun + 1
    /\ LET call == [NoCall EXCEPT !.kind = "disconnect", !.n = begun + 1]
       IN IF ~Registered THEN Goes(c, Answer(call, TRUE)) /\ UNCHANGED spoiled
          ELSE /\ Goes(c, [call EXCEPT !.at = "delete", !.old = entry.group])
               /\ Meets
    /\ UNCHANGED <<served, offered, sections, forwards, entry, orphans, troubles>>

(* config/delete, of a name that may be absent.                            *)
Without(name) == [k \in DOMAIN sections \ {name} |-> sections[k]]
Deletes(c, name, call) ==
    /\ \/ sections' = Without(name) /\ Goes(c, call) /\ Smooth
       \/ /\ sections' \in {sections, Without(name)}
          /\ Goes(c, Troubled(call)) /\ Trouble
    /\ orphans' = (orphans \ {name}) \cup ({name} \cap DOMAIN sections')
Bypasses(c, label) == To(c, label) /\ Smooth /\ UNCHANGED <<sections, orphans>>

(* The section of a connection that had another proxy is in another rcd.   *)
Predeletes(c) ==
    /\ At(c, "predelete")
    /\ LET old == calls[c].old
       IN IF old \in {"none", GroupOf(calls[c].form)} THEN Bypasses(c, "forward")
          ELSE Deletes(c, <<old, 0>>, [calls[c] EXCEPT !.at = "forward"])
    /\ UNCHANGED <<served, offered, forwards, entry, spoiled, begun>>

(* prepare, and what params_for makes of it once there is a client.        *)
Refuses(c, call) ==
    Goes(c, IF call.kind = "test" THEN Answer(call, FALSE) ELSE [call EXCEPT !.at = "fail"])
Dials(c, e) ==
    LET f == calls[c].form
        section == SectionOf(f, e)
    IN \/ /\ Smooth
          /\ IF ~HasSection(f, e) THEN Refuses(c, calls[c])
             ELSE Goes(c, [calls[c] EXCEPT !.section = section,
                              !.at = IF calls[c].kind = "test" THEN "create" ELSE "clear"])
       \/ Trouble /\ Refuses(c, Troubled(calls[c]))
Forwards(c) ==
    /\ At(c, "forward")
    /\ LET call == calls[c]
           f == call.form
           e == EndpointFor(f)
           key == KeyOf(call)
       IN \/ /\ TunnelOf(f) = "" /\ Dials(c, e)
             /\ UNCHANGED <<forwards, spoiled>>
          \/ /\ TunnelOf(f) # "" /\ ~HasTarget(f, e)
             /\ Answers(c, FALSE) /\ Smooth
             /\ IF call.old \in {"none", GroupOf(f)} THEN UNCHANGED spoiled ELSE Spoils("failed")
             /\ UNCHANGED forwards
          \/ /\ TunnelOf(f) # "" /\ HasTarget(f, e)
             /\ forwards' = [forwards EXCEPT ![key] = [target |-> TunnelTarget(f, e), n |-> call.n]]
             /\ Dials(c, Rewritten(e, key, call.n))
             /\ UNCHANGED spoiled
          \/ /\ TunnelOf(f) # "" /\ HasTarget(f, e)
             /\ forwards' = [forwards EXCEPT ![key] = NoForwarder]
             /\ Goes(c, Troubled(Answer(call, FALSE))) /\ Trouble
             /\ IF key = "live" THEN Spoils("failed") ELSE UNCHANGED spoiled
    /\ UNCHANGED <<served, offered, sections, entry, orphans, begun>>

(* A reconnect drops the section first.                                    *)
Clears(c) ==
    /\ At(c, "clear")
    /\ IF ~Registered THEN Bypasses(c, "create")
       ELSE Deletes(c, NameOf(calls[c]), [calls[c] EXCEPT !.at = "create"])
    /\ UNCHANGED <<served, offered, forwards, entry, spoiled, begun>>

(* config/create may have written what it reports to have failed.          *)
Written(name, section) ==
    [k \in DOMAIN sections \cup {name} |-> IF k = name THEN section ELSE sections[k]]
Creates(c) ==
    /\ At(c, "create")
    /\ LET call == calls[c]
           next == IF call.kind = "test" THEN "look"
                   ELSE IF call.section.type = "ftp" THEN "probe" ELSE "insert"
       IN \/ sections' = Written(NameOf(call), call.section) /\ To(c, next) /\ Smooth
          \/ /\ sections' \in {sections, Written(NameOf(call), call.section)}
             /\ Goes(c, Troubled([call EXCEPT !.at = "sweep"])) /\ Trouble
    /\ UNCHANGED <<served, offered, forwards, entry, spoiled, orphans, begun>>
Sweeps(c) ==
    /\ At(c, "sweep")
    /\ LET call == calls[c]
       IN Deletes(c, NameOf(call),
                  IF call.kind = "test" THEN Answer(call, FALSE) ELSE [call EXCEPT !.at = "fail"])
    /\ UNCHANGED <<served, offered, forwards, entry, spoiled, begun>>

(* A test stats the root that the form names, and lists it where that is a *)
(* list of buckets or the bucket is all there is to name.                  *)
Looks(c) ==
    /\ At(c, "look")
    /\ LET call == calls[c]
           f == call.form
           root == ComposedRoot(f)
           s == IF NameOf(call) \in DOMAIN sections THEN sections[NameOf(call)] ELSE call.section
           checks == f.root.parts # <<>> \/ f.root.slash \/ f.protocol = "fs"
           ok == /\ NameOf(call) \in DOMAIN sections /\ Enters(s)
                 /\ checks => Finds(Leads(s).host, root)
                 /\ ~checks /\ BucketRooted(s.type) => ListsAt(Leads(s).host, root)
           own == TunnelOf(f) = "" \/ (forwards.test # NoForwarder /\ forwards.test.n = call.n)
       IN \/ Goes(c, [call EXCEPT !.verdict = ok, !.own = own, !.at = "clean"]) /\ Smooth
          \/ Goes(c, Troubled([call EXCEPT !.verdict = FALSE, !.at = "clean"])) /\ Trouble
    /\ UNCHANGED <<served, offered, sections, forwards, entry, spoiled, orphans, begun>>
Cleans(c) ==
    /\ At(c, "clean")
    /\ LET call == calls[c]
           name == NameOf(call)
       IN /\ \/ sections' = Without(name) /\ Answers(c, call.verdict) /\ Smooth
             \/ /\ sections' \in {sections, Without(name)}
                /\ Goes(c, Troubled(Answer(call, FALSE))) /\ Trouble
          /\ orphans' = (orphans \ {name}) \cup ({name} \cap DOMAIN sections')
    /\ UNCHANGED <<served, offered, forwards, entry, spoiled, begun>>

(* ftp_mlsd_compat_probe: a server whose listings rclone cannot read is    *)
(* registered again, without the command that it does not know.            *)
Probes(c) ==
    /\ At(c, "probe")
    /\ LET s == calls[c].section
           odd == Enters(s) /\ Servers[Leads(s).host].odd
       IN \/ To(c, IF odd THEN "heal" ELSE "insert") /\ Smooth
          \/ Goes(c, Troubled([calls[c] EXCEPT !.at = "insert"])) /\ Trouble
    /\ UNCHANGED <<served, offered, sections, forwards, entry, spoiled, orphans, begun>>
Heals(c) ==
    /\ At(c, "heal")
    /\ Deletes(c, NameOf(calls[c]), [calls[c] EXCEPT !.at = "recreate"])
    /\ UNCHANGED <<served, offered, forwards, entry, spoiled, begun>>
Recreates(c) ==
    /\ At(c, "recreate")
    /\ LET call == calls[c]
           healed == [call.section EXCEPT !.options = @ \cup {<<"true", "disable_mlsd">>}]
       IN \/ /\ sections' = Written(NameOf(call), healed)
             /\ Goes(c, [call EXCEPT !.section = healed, !.at = "insert"]) /\ Smooth
          \/ /\ sections' \in {sections, Written(NameOf(call), healed)}
             /\ Goes(c, Troubled([call EXCEPT !.lost = TRUE, !.at = "insert"])) /\ Trouble
    /\ UNCHANGED <<served, offered, forwards, entry, spoiled, orphans, begun>>

Inserts(c) ==
    /\ At(c, "insert")
    /\ LET call == calls[c]
       IN /\ entry' = [group |-> GroupOf(call.form), section |-> call.section,
                       root |-> BindingRoot(call.form), form |-> call.form]
          /\ spoiled' = IF spoiled = "met" THEN "met" ELSE IF call.lost THEN "failed" ELSE "no"
          /\ Answers(c, TRUE)
    /\ UNCHANGED <<served, offered, sections, forwards, orphans, begun, troubles>>

(* Both forwarders go, after a failed connect and a disconnect.            *)
Fails(c) ==
    /\ At(c, "fail")
    /\ forwards' = [key \in DOMAIN forwards |-> NoForwarder]
    /\ Spoils("failed")
    /\ Answers(c, FALSE)
    /\ UNCHANGED <<served, offered, sections, entry, orphans, begun, troubles>>

(* disconnect goes on where the binding was, if there still is one.        *)
Drops(c) ==
    /\ At(c, "delete")
    /\ \/ ~Registered /\ Bypasses(c, "release")
       \/ /\ Registered
          /\ Deletes(c, <<calls[c].old, 0>>, [calls[c] EXCEPT !.at = "remove"])
       \/ Goes(c, Troubled(Answer(calls[c], FALSE))) /\ Trouble /\ UNCHANGED <<sections, orphans>>
    /\ UNCHANGED <<served, offered, forwards, entry, spoiled, begun>>
Removes(c) ==
    /\ At(c, "remove")
    /\ entry' = NoEntry
    /\ spoiled' = IF spoiled = "met" THEN "met" ELSE "no"
    /\ To(c, "release")
    /\ UNCHANGED <<served, offered, sections, forwards, orphans, begun, troubles>>
Releases(c) ==
    /\ At(c, "release")
    /\ forwards' = [key \in DOMAIN forwards |-> NoForwarder]
    /\ Answers(c, TRUE)
    /\ UNCHANGED <<served, offered, sections, entry, spoiled, orphans, begun, troubles>>

RemoteNext ==
    \E c \in Threads :
        \/ Begins(c) \/ Disconnects(c) \/ Predeletes(c) \/ Forwards(c) \/ Clears(c)
        \/ Creates(c) \/ Sweeps(c) \/ Looks(c) \/ Cleans(c) \/ Probes(c) \/ Heals(c)
        \/ Recreates(c) \/ Inserts(c) \/ Fails(c) \/ Drops(c) \/ Removes(c) \/ Releases(c)

RemoteSpec == RemoteInit /\ [][RemoteNext]_remoteVars
------------------------------------------------------------------------------
(* Types of what the code keeps.                                           *)
RemoteTypeOK ==
    /\ DOMAIN sections \subseteq {"direct", "http", "socks5"} \X (0..begun)
    /\ orphans \subseteq DOMAIN sections
    /\ DOMAIN forwards = {"live", "test"}
    /\ Registered => entry.form \in offered.forms
    /\ \A c \in Threads :
          /\ calls[c].at # "idle" /\ calls[c].kind # "disconnect" => calls[c].form \in offered.forms
          /\ calls[c].n \in 0..begun
    /\ begun \in 0..offered.calls /\ troubles \in 0..MaxTroubles

------------------------------------------------------------------------------
(* What the panel asks for: src/manifest.json has the fields of each       *)
(* protocol, of two the user chooses a way to sign in.                     *)
Keys == {"access_key_id", "secret_access_key"}
Shown(f) ==
    CASE f.protocol = "s3" ->
             Keys \cup {"bucket", "endpoint", "region", "enable_virtual_host_style"}
      [] f.protocol = "cos" ->
             {"bucket", "endpoint", "secret_id", "secret_key", "security_token"}
      [] f.protocol \in Vendors \ {"cos"} -> Keys \cup {"bucket", "endpoint"}
      [] f.protocol = "gcs" ->
             {"bucket", "endpoint", IF "adc" \in f.fields THEN "adc" ELSE "credential"}
      [] f.protocol = "azblob" -> {"container", "account_name", "account_key", "endpoint"}
      [] f.protocol = "webdav" -> {"username", "password", "endpoint"}
      [] f.protocol = "ftp" -> {"user", "password", "endpoint"}
      [] f.protocol = "sftp" -> {"user", "key", "known_hosts_strategy", "endpoint"}
      [] f.protocol = "sftp-native" ->
             {"user", "password", "key", "known_hosts_strategy", "endpoint"}
      [] f.protocol = "smb" -> {"share", "username", "domain", "password", "endpoint"}
      [] f.protocol \in Drives ->
             {"access_token", "refresh_token", "client_id", "client_secret"}
      [] f.protocol = "yandex-disk" -> {"access_token"}
      [] f.protocol = "koofr" -> {"email", "password", "endpoint"}
      [] f.protocol = "pcloud" -> {"username", "password", "endpoint"}
      [] f.protocol = "seafile" -> {"repo_name", "username", "password", "endpoint"}
      [] f.protocol = "azurefiles" -> Keys \cup {"endpoint", "share", "username"}
      [] f.protocol = "b2" -> Keys
      [] f.protocol = "crypt" -> {"password"}
      [] f.protocol = "filen" -> {"username", "password", "token"}
      [] OTHER -> {}

(* What an option of rclone is about.                                      *)
About(option) ==
    CASE option = "access_key_id" -> {"access_key_id", "secret_id"}
      [] option = "secret_access_key" -> {"secret_access_key", "secret_key"}
      [] option = "session_token" -> {"security_token"}
      [] option \in {"url", "host", "hostname"} -> {"endpoint"}
      [] option = "account" -> {"account_name", "access_key_id", "username"}
      [] option = "key" -> {"account_key", "secret_access_key"}
      [] option = "user" -> {"user", "username", "email"}
      [] option = "email" -> {"username"}
      [] option = "pass" -> {"password"}
      [] option = "key_file" -> {"key"}
      [] option = "known_hosts_file" -> {"known_hosts_strategy"}
      [] option = "token" -> {"access_token", "refresh_token"}
      [] option = "api_key" -> {"token"}
      [] option = "share_name" -> {"share"}
      [] option = "library" -> {"repo_name"}
      [] option = "force_path_style" -> {"enable_virtual_host_style"}
      [] option = "env_auth" -> {"adc"}
      [] option = "service_account_credentials" -> {"credential"}
      [] OTHER -> {option}
InRoot(f) == {BucketField(f)} \cup (IF f.protocol = "smb" THEN {"share"} ELSE {})
Secrets == {"password", "secret_access_key", "secret_key", "account_key", "credential"}

Filling(f) == Shown(f) \cap Filled(f, Declared(f))
Tells(f, s) ==
    /\ \A x \in Filling(f) \ InRoot(f) : \E told \in s.options : told[1] = x /\ x \in About(told[2])
    /\ \A told \in s.options :
          told[1] \in f.fields \cup {"endpoint"} => told[1] \in Filling(f) \cap About(told[2])
    /\ Custom(f) => f.json.options \subseteq Names(s.options)
    /\ FilledFrom(s) \cap Secrets # {} => s.obscure

(* Where the form leads, by the host's tunnel if there is one, and to what.*)
Urls == {"s3", "gcs", "azureblob", "webdav", "seafile", "koofr", "azurefiles"}
Address(f) ==
    LET e == Declared(f)
        port == IF e.port = 0 THEN DefaultPort(Type(f), e.scheme) ELSE e.port
    IN IF "endpoint" \notin Shown(f) \/ e = NoEndpoint THEN [Nowhere EXCEPT !.host = Type(f)]
       ELSE [host |-> IF f.layers THEN "runtime" ELSE e.host, port |-> IF f.layers THEN 1 ELSE port,
             path |-> IF Type(f) \in Urls THEN e.path ELSE ""]
MeantRoot(f) ==
    IF InRoot(f) \cap Filling(f) = {} THEN f.root.parts
    ELSE <<CHOOSE x \in InRoot(f) \cap Filling(f) : TRUE>> \o f.root.parts

(* A form is meant to have what the code drops: of the endpoint what is    *)
(* not its address when it is tunnelled or has no scheme, the scheme, port *)
(* and tunnel of pcloud, one of two users or names of an account, a scheme *)
(* that a URL cannot have, the share that a root is glued to; and what is  *)
(* not shown (sftp, pcloud) is told.                                       *)
Unmeant(f) ==
    LET e == Declared(f)
    IN \/ TunnelOf(f) # "" /\ (e.path # "" \/ e.user # "")
       \/ f.layers /\ e.scheme = "" /\ (e.path # "" \/ e.user # "")
       \/ f.protocol \in Sftp \cup {"pcloud"} /\ ~(f.fields \subseteq Shown(f) \cup {"pem"})
       \/ /\ f.protocol = "pcloud"
          /\ e.port # 0 \/ e.scheme = "http" \/ f.layers \/ TunnelOf(f) # ""
       \/ f.protocol \in Sftp /\ e.user # "" /\ "user" \in f.fields
       \/ Type(f) \in Urls /\ e.scheme \notin {"", "http", "https"}
       \/ f.protocol = "azurefiles" /\ {"username", "access_key_id"} \subseteq f.fields
       \/ f.protocol = "smb" /\ "share" \in f.fields /\ ~f.root.slash /\ f.root.parts # <<>>

(* A connection that is registered has its section, in the group of its    *)
(* proxy.  It leads where its form says, and tells rclone all that was     *)
(* filled in and nothing else.  Unless a reconnect of it failed or two     *)
(* calls for it met.                                                       *)
Quiet == Registered /\ spoiled = "no" /\ \A c \in Threads : ~Registering(c)
RegisteredIsThere ==
    Quiet =>
        LET name == <<entry.group, 0>>
        IN /\ name \in DOMAIN sections /\ sections[name] = entry.section
           /\ entry.group = GroupOf(entry.form)
RegisteredIsMeant ==
    LET f == entry.form
    IN Quiet /\ ~Unmeant(f) =>
          /\ Tells(f, entry.section)
          /\ Leads(entry.section) = Address(f)
          /\ entry.root.parts = MeantRoot(f)

(* A test says that the form leads to a server which takes what was filled *)
(* in and has the root; it does not look into a share.                     *)
Reaches(f) ==
    LET to == Address(f)
    IN /\ Admits(to, Filling(f) \cup {"config"})
       /\ IF MeantRoot(f) # <<>> THEN MeantRoot(f) \in Servers[to.host].places
          ELSE BucketRooted(Type(f)) /\ ~f.root.slash => Servers[to.host].lists
Complete(f) ==
    Parses(f) /\ HasSection(f, EndpointFor(f)) /\ (TunnelOf(f) # "" => HasTarget(f, EndpointFor(f)))
TestsTrue ==
    \A c \in Threads :
        LET call == calls[c]
        IN At(c, "answered") /\ call.kind = "test" /\ ~call.troubled /\ call.own =>
              (~Unmeant(call.form) /\ call.form.protocol # "smb" =>
                  (call.verdict <=> Complete(call.form) /\ Reaches(call.form)))

(* What is left in an rcd is the section of the connection, one that       *)
(* somebody is at, or could not be deleted.                                *)
NothingLeft ==
    \A name \in DOMAIN sections :
        \/ name \in orphans
        \/ name[2] = 0 /\ (spoiled = "met" \/ (Registered /\ name[1] = entry.group))
        \/ \E c \in Threads : Busy(c) /\ (name = NameOf(calls[c]) \/ name = <<calls[c].old, 0>>)

(* A connection is what its form says.                                     *)
RemotesAreMeant == RegisteredIsThere /\ RegisteredIsMeant /\ TestsTrue /\ NothingLeft
=============================================================================
