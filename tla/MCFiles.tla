------------------------------ MODULE MCFiles -------------------------------
(* What is done with the files of a connection, checked side by side: a    *)
(* behaviour is one of a request that changes them, of one that reads      *)
(* them, of archives, of a gzip stream, of a job on directories, or of the *)
(* connection itself, with the others at rest.                             *)
EXTENDS Naturals, FiniteSets, Sequences, TLC

CONSTANTS
    Connections, Bindings, Trees, Spellings, Methods, RequestFaults, Strangers,
    Directories, Bodies, None, Widths, MaxPaged, MaxListed, Budget, MaxPreview, MaxScan,
    Attempts, ReadFaults,
    Sources, Contents, Others, BlockSize, NameField, Window, MaxEntries, MaxBytes, MaxCells,
    Missing, MaxEdits,
    Literals, Distances, MatchLength, MaxCode, Repeat, Chunk, Guard, Wrapped, Foreign,
    MaxRead, MaxBefore,
    Registries, Forests, Forms, Stems, SumTexts, Lookalikes, Unlimited, MaxRebinds,
    Threads, Offers, Worlds, Providers, MaxTroubles

(* Where there is a directory there is no file of its name, and the root   *)
(* is not among them.                                                      *)
ASSUME RequestAssumption ==
    /\ Connections # {} /\ Bindings # {}
    /\ Spellings \subseteq Seq(Seq(STRING))
    /\ \A t \in Trees :
          /\ t = [files |-> t.files, dirs |-> t.dirs]
          /\ <<>> \notin t.files \cup t.dirs /\ t.files \cap t.dirs = {}
    /\ RequestFaults \in Nat /\ Strangers \in Nat

(* A directory is read by entries, a file by bytes, and each by one at     *)
(* least.                                                                  *)
ASSUME ReadAssumption ==
    /\ \A d \in Directories : d \in Seq({d[i] : i \in DOMAIN d})
    /\ \A body \in Bodies \ {None} : body \in Seq({body[i] : i \in DOMAIN body})
    /\ Widths \subseteq Nat
    /\ {MaxListed, MaxPreview, Attempts} \subseteq Nat \ {0}
    /\ ReadFaults \in Nat

VARIABLES
    files,
    binding, tree, remembered, request, asked, requestFaults, strangers,
    items, content, reading, disturbed, readFaults,
    inputs, archive, packer, reader, written, edits, packs, extracts,
    wrapped, blocks, step, final, lengths, scan, taken, symbol, read, out, match,
    registry, objects, began, plan, rebinds,
    served, offered, sections, forwards, entry, calls, spoiled, orphans, begun, troubles

Q == INSTANCE FileRequests
D == INSTANCE FileReads WITH Contents <- Bodies, MaxEntries <- MaxListed
A == INSTANCE Archives WITH tree <- inputs, target <- written
G == INSTANCE Gzip WITH source <- wrapped, at <- step
P == INSTANCE JobPlans
R == INSTANCE Remotes

requests == <<binding, tree, remembered, request, asked, requestFaults, strangers>>
reads == <<items, content, reading, disturbed, readFaults>>
archives == <<inputs, archive, packer, reader, written, edits, packs, extracts>>
streams == <<wrapped, blocks, step, final, lengths, scan, taken, symbol, read, out, match>>
plans == <<registry, objects, began, plan, rebinds>>
remotes == <<served, offered, sections, forwards, entry, calls, spoiled, orphans, begun, troubles>>
filesVars == <<files, requests, reads, archives, streams, plans, remotes>>

(* Who asks, and for what.                                                 *)
EntryKinds ==
    ({"panel"} \X {"dir", "check", "sums", "bisync"}) \cup ({"schedule"} \X {"dir", "bisync"})
        \cup ({"mcp", "task", "copy", "move"} \X {"dir"})
TaskConfig == {"dry_run", "checksum", "transfers", "spare", "afresh", "shallow", "additive"}
PanelFields(kind) ==
    CASE kind = "dir" -> P!Common \cup P!Conditions \cup {"dry_run"}
      [] kind = "check" -> P!CheckFlags
      [] kind = "bisync" -> P!BisyncFlags
      [] kind = "sums" -> {}
FieldsOf(f) ==
    CASE f.entry = "panel" -> PanelFields(f.kind)
      [] f.entry = "schedule" -> P!ScheduleFlags \cup P!BisyncFlags
      [] f.entry = "mcp" -> P!ToolFlags
      [] f.entry = "task" -> TaskConfig
      [] f.entry \in {"copy", "move"} -> {}

(* A form says what it has a field for: only one that takes texts can have *)
(* a blank, a copy and a move mirror nothing, and neither they nor a task  *)
(* have a bound on what goes.                                              *)
IsForm(f) ==
    /\ f = [entry |-> f.entry, kind |-> f.kind, from |-> f.from, source |-> f.source, to |-> f.to,
            target |-> f.target, sync |-> f.sync, flags |-> f.flags, blank |-> f.blank,
            backup |-> f.backup, maxDelete |-> f.maxDelete, sums |-> f.sums, hash |-> f.hash,
            retain |-> f.retain]
    /\ <<f.entry, f.kind>> \in EntryKinds
    /\ f.flags \subseteq FieldsOf(f)
    /\ f.blank \subseteq P!Patterns \cup P!Filters \cup {"suffix"}
    /\ f.blank # {} => f.entry \in {"panel", "schedule"}
    /\ f.entry \in {"copy", "move"} => ~f.sync
    /\ f.maxDelete \in Nat
    /\ f.entry \in {"copy", "move", "task"} => f.maxDelete = Unlimited
    /\ {f.from, f.to} \subseteq Connections
    /\ {f.source, f.target, f.backup} \subseteq Seq(Seq(STRING))

(* No file has the name of one that is kept beside another.  A root has    *)
(* words: that FlattenSeq gives a sequence would need an induction.        *)
IsForest(trees) ==
    /\ DOMAIN trees = Connections
    /\ \A c \in Connections :
          /\ IsFiniteSet(DOMAIN trees[c])
          /\ DOMAIN trees[c] \subseteq Seq(Seq(STRING))
          /\ \A p \in DOMAIN trees[c] :
                p # <<>> /\ P!Last(p) # <<>> => P!Last(P!Last(p)) # "~"
ASSUME PlanAssumption ==
    /\ Forms # {} /\ \A f \in Forms : IsForm(f)
    /\ Registries # {}
    /\ \A r \in Registries : \A c \in Connections :
          r[c].root \in Seq(Seq(STRING)) /\ P!FlattenSeq(r[c].root) \in Seq(STRING)
    /\ Forests # {} /\ \A trees \in Forests : IsForest(trees)
    /\ {Unlimited, MaxRebinds} \subseteq Nat

(* The fixed codes are no longer than a code can be.                       *)
ASSUME UnpackAssumption ==
    /\ {MaxEdits, Literals, Distances, MaxCode, Repeat, MaxRead} \subseteq Nat
    /\ {G!Width(G!Match + 1), G!Width(Distances)} \subseteq 0..MaxCode

(* The fields of a form have names of their own, apart from the values     *)
(* that are told to rclone without one, and so has a user of an endpoint;  *)
(* no host is called as a forwarder is.  What the host sends is counted,   *)
(* and there is a port for each call.                                      *)
OwnValues ==
    R!Vendors \cup {"config", "AWS", "Other", "auto", "us-east-1", "true", "other", "anonymous",
                    "proxy", "endpoint", "none"}
IsConnection(f) ==
    /\ f.fields \cap OwnValues = {}
    /\ f.endpoint.user \notin f.fields \cup R!Secrets \cup {"endpoint"}
    /\ {f.endpoint.host, f.host} \cap {"live", "test"} = {}
    /\ f.endpoint = [scheme |-> f.endpoint.scheme, user |-> f.endpoint.user,
                     host |-> f.endpoint.host, port |-> f.endpoint.port,
                     path |-> f.endpoint.path]
    /\ {f.endpoint.port, f.port} \subseteq Nat
ASSUME RemoteAssumption ==
    /\ \A o \in Offers : o.calls \in 0..R!MaxPort /\ \A f \in o.forms : IsConnection(f)
    /\ MaxTroubles \in Nat

Names(path) == [i \in DOMAIN path |-> <<path[i]>>]

(* A root without a prefix over buckets, and one that is locked, read-only *)
(* or does not let delete.                                                 *)
Bind(root, lock, readOnly, allowDelete, keeps) ==
    [root |-> Names(root), lock |-> lock, readOnly |-> readOnly, allowDelete |-> allowDelete,
     buckets |-> ~keeps, keeps |-> keeps, group |-> "direct"]
MCBindings ==
    {Bind(<<"">>, FALSE, FALSE, TRUE, FALSE), Bind(<<"", "r">>, TRUE, FALSE, FALSE, TRUE),
     Bind(<<"", "r">>, FALSE, TRUE, TRUE, TRUE), Bind(<<"", "r">>, TRUE, FALSE, TRUE, TRUE)}
MCTrees == {[files |-> {Names(<<"a", "b">>)}, dirs |-> {Names(<<"a">>)}]}
MCSpellings ==
    {Names(path) : path \in {<<"", "a", "b">>, <<"a", "..", "a", "b">>, <<"", "r", "a">>,
                             <<"">>, <<"", "c">>, <<"..", "a">>}}

(* Listings with the directory itself in them, unordered, and too long.    *)
Item(path, dir, size, weight) == [path |-> path, dir |-> dir, size |-> size, weight |-> weight]
MCDirectories ==
    {<<>>, <<Item(1, FALSE, 1, 5)>>,
     <<Item(2, TRUE, 9, 1), Item(0, TRUE, 9, 1), Item(1, FALSE, 3, 2)>>,
     <<Item(3, FALSE, 3, 5), Item(1, TRUE, 0, 1), Item(4, TRUE, 0, 1), Item(2, FALSE, 0 - 1, 1)>>,
     [i \in 1..5 |-> Item(i, i = 4, 1, 1)]}
MCBodies == {None} \cup {[i \in 1..n |-> i] : n \in 0..4}

MCSources == <<<<"a">>, <<"b", "c">>>>
MCContents == {<<>>, <<1>>, <<1, 2>>, <<2, 1, 2>>}

(* Archives of other tools: long names, records, directories, comments,    *)
(* and a path that leads out.  They are made where there are no others.    *)
F == INSTANCE Archives WITH Others <- {}, tree <- inputs, target <- written
FileA == F!Member("file", <<"a">>, <<3>>)
FileB == F!Member("file", <<"d", "b">>, <<3, 1, 1>>)
Gnu ==
    [members |-> <<F!Member("dir", <<"d">>, <<>>), FileB, FileA>>,
     cells |-> <<F!TarHead("5", <<"d", "">>, 0)>> \o F!Meta("L", [path |-> <<"d", "b">>])
               \o <<F!TarHead("0", <<"cut">>, 3)>> \o F!Payload(<<3, 1, 1>>)
               \o <<F!TarHead("0", <<".", "a">>, 1)>> \o F!Payload(<<3>>) \o <<F!Cell>>]
Pax ==
    [members |-> <<FileA, FileB>>,
     cells |-> F!Meta("x", [path |-> <<"a">>, size |-> 1])
               \o <<F!TarHead("0", <<"cut">>, 1)>> \o F!Payload(<<3>>)
               \o <<F!TarHead("0", <<"d", "b">>, 3)>> \o F!Payload(<<3, 1, 1>>)]
Slip == [members |-> <<>>, cells |-> <<F!TarHead("0", <<"..", "a">>, 1)>> \o F!Payload(<<3>>)]
Commented ==
    [members |-> <<FileB, FileA>>,
     cells |-> SubSeq(F!ZipFile(<<FileB, FileA>>), 1, 8)
               \o <<[F!Eocd(2, 6) EXCEPT !.name = <<"x">>],
                    [F!Eocd(0, 0) EXCEPT !.name = <<"x">>]>>]
MCOthers == {Gnu, Pax, Slip, Commented}

(* Two connections of one root, and what they may be bound to.             *)
Here == CHOOSE c \in Connections : TRUE
There == CHOOSE c \in Connections \ {Here} : TRUE
Tied(root, readOnly, allowDelete, group) ==
    [root |-> Names(root), lock |-> TRUE, readOnly |-> readOnly, allowDelete |-> allowDelete,
     group |-> group]
Open == Tied(<<"">>, FALSE, TRUE, "direct")
MCRegistries ==
    {Here :> Open @@ There :> d : d \in {Open, Tied(<<"">>, FALSE, FALSE, "direct"),
                                    Tied(<<"", "r">>, TRUE, TRUE, "direct"),
                                    Tied(<<"">>, FALSE, TRUE, "proxy")}}

Tree(paths) == [p \in {Names(q) : q \in DOMAIN paths} |-> paths[[i \in DOMAIN p |-> p[i][1]]]]
MCForests ==
    {Here :> Tree(<<"a", "x">> :> "new" @@ <<"a", "y">> :> "one")
       @@ There :> Tree(<<"b", "x">> :> "old" @@ <<"b", "z">> :> "two"
                          @@ <<"r", "b", "z">> :> "two"),
     Here :> Tree(<<"a", "x">> :> "new")
       @@ There :> Tree(<<"b.md5">> :> "sums" @@ <<"b", "x">> :> "new")}

Ask(from, kind, sync, flags) ==
    [entry |-> from, kind |-> kind, from |-> Here, source |-> Names(<<"a">>), to |-> There,
     target |-> Names(<<"b">>), sync |-> sync, flags |-> flags, blank |-> {}, backup |-> <<>>,
     maxDelete |-> Unlimited, sums |-> <<>>, hash |-> "none", retain |-> FALSE]
SumsAsk(name) == [Ask("panel", "sums", FALSE, {}) EXCEPT !.sums = Names(<<name>>)]
Mirror(flags) == Ask("panel", "dir", TRUE, flags)
TaskAsk(flags) == Ask("task", "dir", TRUE, flags)
MoveAsk == Ask("move", "dir", FALSE, {})
MCForms ==
    {Mirror(flags) : flags \in {{}, {"dry_run"}, {"immutable"}, {"suffix"}}}
    \cup {[Mirror({"include", "max_age"}) EXCEPT !.blank = {"include", "max_age"}],
          [Mirror({}) EXCEPT !.backup = Names(<<"b", "k">>)],
          [Mirror({"exclude"}) EXCEPT !.backup = Names(<<"k">>), !.maxDelete = 0]}
    \cup {TaskAsk(flags) :
              flags \in {{"spare"}, {"additive"}, {"dry_run"}, {"afresh"}, {"shallow"}}}
    \cup {[Ask("schedule", "dir", TRUE, {"update"}) EXCEPT !.backup = Names(<<"k">>),
                                                          !.retain = TRUE],
          Ask("schedule", "bisync", FALSE, {"resync"}),
          Ask("panel", "bisync", FALSE, {"dry_run"}),
          [Ask("mcp", "dir", TRUE, {}) EXCEPT !.maxDelete = 0],
          Ask("copy", "dir", FALSE, {}),
          MoveAsk,
          [MoveAsk EXCEPT !.to = Here, !.target = Names(<<"a", "b">>)],
          Ask("panel", "check", FALSE, {"oneWay"}),
          SumsAsk("b.md5"), SumsAsk("c.md5"), SumsAsk("b.txt")}
MCStems ==
    <<"b.md5">> :> [stem |-> <<"b">>, hash |-> "md5"]
    @@ <<"c.md5">> :> [stem |-> <<"c">>, hash |-> "md5"]
    @@ <<"b.txt">> :> [stem |-> <<"b">>, hash |-> "none"]
MCSumTexts == "sums" :> [hash |-> "md5", lists |-> Tree(<<"x">> :> "new")]
MCLookalikes == {"old", "new"}

MCWrapped == UNION {[1..n -> 0..1] : n \in 1..3}

(* Forms of each family of protocols, hosts for them to lead to, and what  *)
(* rclone has in its table of the generic ones.                            *)
Endpoint(scheme, host, port, path) ==
    [scheme |-> scheme, user |-> "", host |-> host, port |-> port, path |-> path]
NewForm(protocol, filled) ==
    [protocol |-> protocol, service |-> "", fields |-> filled,
     json |-> [ok |-> TRUE, options |-> {}], endpoint |-> Endpoint("", "", 0, ""), host |-> "",
     port |-> 0, layers |-> FALSE, proxy |-> [nested |-> "", flat |-> ""],
     tunnel |-> [nested |-> "", flat |-> ""], root |-> [slash |-> FALSE, parts |-> <<>>]]
To(f, scheme, host, port, path) == [f EXCEPT !.endpoint = Endpoint(scheme, host, port, path)]
Below(f, slash, parts) == [f EXCEPT !.root = [slash |-> slash, parts |-> parts]]
Proxied(f, kind) == [f EXCEPT !.proxy = [nested |-> kind, flat |-> "off"]]
Tunnelled(f) == [f EXCEPT !.tunnel = [nested |-> "", flat |-> "chain"]]
Layered(f) == [f EXCEPT !.layers = TRUE]
WithJson(f, options) == [f EXCEPT !.json.options = options]

AccessKeys == {"access_key_id", "secret_access_key"}
Account == {"username", "password"}
S3Form == To(NewForm("s3", AccessKeys \cup {"bucket", "region"}), "https", "store", 0, "")
R2Form == NewForm("r2", AccessKeys \cup {"bucket"})
DavForm == To(NewForm("webdav", Account), "https", "web", 0, "d")
FtpForm == [NewForm("ftp", {"user", "password", "ftp_tls"}) EXCEPT !.host = "ftp.h"]
SftpForm == To(NewForm("sftp", {"user", "key", "known_hosts_strategy"}), "", "ssh.h", 22, "")
MCSingles ==
    {Below(S3Form, FALSE, <<"r">>), Below(S3Form, TRUE, <<>>), NewForm("s3", AccessKeys),
     To(R2Form, "https", "store", 0, ""), R2Form,
     To(NewForm("cos", {"secret_id", "secret_key", "security_token", "bucket"}), "", "web", 0, ""),
     NewForm("gcs", {"adc", "credential", "bucket"}), NewForm("gcs", {"credential"}),
     Below(NewForm("azblob", {"account_name", "account_key", "container"}), TRUE, <<"r">>),
     [NewForm("webdav", Account \cup {"webdav_scheme"}) EXCEPT !.host = "plain", !.port = 80],
     FtpForm, Proxied(FtpForm, "socks5"), Layered(FtpForm),
     To(NewForm("sftp", {"user", "pem"}), "", "ssh.h", 22, ""),
     [Tunnelled(SftpForm) EXCEPT !.endpoint.user = "bob"],
     Layered(To(NewForm("sftp-native", {"user", "password"}), "", "ssh.h", 0, "")),
     Below(To(NewForm("smb", Account \cup {"share", "domain"}), "smb", "smb.h", 0, ""),
           TRUE, <<"r">>),
     NewForm("gdrive", {"access_token", "refresh_token", "client_id", "client_secret"}),
     NewForm("yandex-disk", {"access_token"}), NewForm("koofr", {"email", "password"}),
     To(NewForm("pcloud", Account), "", "web", 0, ""),
     To(NewForm("seafile", Account \cup {"repo_name"}), "https", "web", 0, ""),
     WithJson(To(NewForm("azurefiles", AccessKeys \cup {"share"}), "https", "store", 0, ""),
              {"account", "sas_url"}),
     WithJson(NewForm("b2", AccessKeys), {"key"}),
     WithJson(NewForm("crypt", {"password"}), {"remote"}),
     NewForm("crypt", {"password"}), NewForm("filen", Account), NewForm("memory", {}),
     [WithJson(NewForm("rclone-custom", {}), {"remote"}) EXCEPT !.service = "crypt"],
     Below(NewForm("fs", {}), TRUE, <<"r">>), NewForm("aliyun-drive", {})}
MCOffers ==
    {[forms |-> {f}, calls |-> 2] : f \in MCSingles}
        \cup {[forms |-> {SftpForm, Tunnelled(SftpForm)}, calls |-> 2],
              [forms |-> {DavForm, Proxied(DavForm, "http")}, calls |-> 2],
              [forms |-> {Proxied(DavForm, "http")}, calls |-> 3]}

Hosts(port, keys, places, lists, odd) ==
    [port |-> port, keys |-> keys, places |-> places, lists |-> lists, odd |-> odd]
World(places, lists, odd) ==
    LET On(port, keys) == Hosts(port, keys, places, lists, odd)
        clouds == {"drive", "yandex", "koofr", "crypt", "memory", "local", "s3", "gcs",
                   "azureblob", "filen"}
    IN "store" :> On(443, {"access_key_id"}) @@ "web" :> On(443, {})
       @@ "plain" :> On(80, {"password"}) @@ "ftp.h" :> On(21, {"password"})
       @@ "ssh.h" :> On(22, {"user"}) @@ "smb.h" :> On(445, {"password"})
       @@ "runtime" :> On(1, {}) @@ "b2" :> On(0, {"secret_access_key"})
       @@ [cloud \in clouds |-> On(0, {})]
MCWorlds ==
    "open" :> World({<<"r">>, <<"bucket">>, <<"bucket", "r">>, <<"container", "r">>}, TRUE, FALSE)
        @@ "odd" :> World({}, FALSE, TRUE)
MCProviders ==
    LET Takes(options, required) == [options |-> options, required |-> required]
    IN "azurefiles" :> Takes({"account", "key", "endpoint", "share_name", "sas_url"}, {})
       @@ "b2" :> Takes({"account", "key"}, {"account", "key"})
       @@ "crypt" :> Takes({"remote", "password"}, {"remote"})
       @@ "filen" :> Takes({"email", "password", "api_key"}, {"email", "password", "api_key"})
       @@ "memory" :> Takes({}, {})

FilesInit ==
    /\ files \in {"none", "requests", "reads", "archives", "streams", "plans", "remotes"}
    /\ Q!RequestInit
    /\ \A c \in Connections \ {Q!Home} :
          binding[c].lock /\ (files # "requests" => binding[c].allowDelete)
    /\ files # "requests" => binding[Q!Home].readOnly
    /\ D!ReadInit /\ (files # "reads" => items = <<>> /\ content = None)
    /\ A!ArchiveInit /\ (files # "archives" => \A s \in DOMAIN inputs : inputs[s] = Missing)
    /\ G!GzipInit /\ (files # "streams" => wrapped = Foreign)
    /\ P!PlanInit
    /\ files # "plans" =>
          /\ registry = CHOOSE r \in Registries : TRUE
          /\ objects = CHOOSE trees \in Forests : TRUE
    /\ R!RemoteInit
    /\ files # "remotes" =>
          /\ served = CHOOSE world \in DOMAIN Worlds : TRUE
          /\ offered = CHOOSE offer \in Offers : TRUE

FilesNext ==
    /\ UNCHANGED files
    /\ \/ files = "requests" /\ Q!RequestNext
          /\ UNCHANGED <<reads, archives, streams, plans, remotes>>
       \/ files = "reads" /\ D!ReadNext
          /\ UNCHANGED <<requests, archives, streams, plans, remotes>>
       \/ files = "archives" /\ A!ArchiveNext
          /\ UNCHANGED <<requests, reads, streams, plans, remotes>>
       \/ files = "streams" /\ G!GzipNext
          /\ UNCHANGED <<requests, reads, archives, plans, remotes>>
       \/ files = "plans" /\ P!PlanNext
          /\ UNCHANGED <<requests, reads, archives, streams, remotes>>
       \/ files = "remotes" /\ R!RemoteNext
          /\ UNCHANGED <<requests, reads, archives, streams, plans>>

FilesTypeOK ==
    /\ files = "requests" => Q!RequestTypeOK
    /\ files = "reads" => D!ReadTypeOK
    /\ files = "archives" => A!ArchiveTypeOK
    /\ files = "streams" => G!GzipTypeOK
    /\ files = "plans" => P!PlanTypeOK
    /\ files = "remotes" => R!RemoteTypeOK

(* Of FileRequests: a request changes only what its binding lets it, below *)
(* the root, tells of it, and leaves no stale listing.                     *)
ChangesAreAllowed == Q!ChangesAreAllowed

(* Of FileReads: pages and windows put together are all of what holds      *)
(* still, in order and each once.                                          *)
WindowsAreWhole == D!WindowsAreWhole

(* Of Archives and Gzip: what is extracted are the files of one archive,   *)
(* and a stream is decoded as RFC 1951 has it.                             *)
UnpacksTrue == A!ExtractsTrue /\ G!DecodesTrue

(* Of JobPlans: a job on directories does what its form says and what the  *)
(* bindings it was started with let it, and nothing else.                  *)
PlansAreKept == P!PlansAreKept

(* Of Remotes: a connection is what its form says, a test of it tells the  *)
(* truth, and no section is left behind.                                   *)
RemotesAreMeant == R!RemotesAreMeant
=============================================================================
