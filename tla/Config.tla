------------------------------- MODULE Config -------------------------------
(***************************************************************************)
(* The node's configuration: the table of options (llarp/config/config.cpp) *)
(* what a definition does with the values it is given (definition.hpp and   *)
(* definition.cpp), the files the values come from and the overrides the    *)
(* RPC server adds to them (ini.cpp, rpc_server.cpp).                       *)
(*                                                                          *)
(* The options do not interact while a file is loaded, so a behaviour       *)
(* follows one of them, any one, and every other keeps its default; a       *)
(* relay's file also names the required [beldexd]:rpc.  A value is an       *)
(* integer at or next to a limit, or one of four texts: two different good  *)
(* ones, one the acceptor refuses, and the empty one.                       *)
(***************************************************************************)
EXTENDS Integers, Sequences, FiniteSets, SequencesExt

CONSTANT
  MaxLines   \* the lines the file gives the option and the overrides asked for, together

VARIABLES
  mode,      \* "relay", "client" or "embedded" (a library without a file)
  opt,       \* the definition of the option that is followed
  ini,       \* belnet.ini: whether it exists, and its values for the option
  conf_d,    \* conf.d/overrides.ini, likewise
  m_Overrides, \* values the running node was asked to override, not saved yet
  saving,    \* the lines the disk thread's Save has written, or Idle or Done
  pc,        \* where the node is
  todo,      \* the sources still to be added: a sequence of bags of values
  parsed,    \* the definition's parsedValues, or an undeclared section's list
  held,      \* what the configuration object holds for the option
  atStart,   \* (history) the values on disk when the node was started
  asked      \* (bound) the number of overrides so far

vars == <<mode, opt, ini, conf_d, m_Overrides, saving, pc, todo, parsed, held, atStart, asked>>

-----------------------------------------------------------------------------
(* Values and options. *)

NotANumber == -1000000
MaxInt == 2147483647
Idle == -1   \* no Save in progress
Done == -2   \* every line written, the overrides not cleared yet

\* What the acceptor of an option does: the values it throws on, those it
\* returns from without storing anything, whether a repeated value throws.
Accept(refused, skipped) == [refused |-> refused, skipped |-> skipped, unique |-> FALSE]
Unique(refused, skipped) == [refused |-> refused, skipped |-> skipped, unique |-> TRUE]
Assign == Accept({}, {})
Valid == Accept({"bad", ""}, {})
ValidOrSkip == Accept({"bad"}, {""})
Texts == {"good", "other", "bad", ""}
Around(lo, hi) == {lo - 1, lo, hi, NotANumber} \cup (IF hi < MaxInt THEN {hi + 1} ELSE {})
Within(lo, hi) == Accept(Around(lo, hi) \ (lo .. hi), {})

O(section, name, type, flags, default, accept, values) ==
  [section |-> section, name |-> name, type |-> type, flags |-> flags,
   default |-> default, accept |-> accept, values |-> values]

Text(section, name, flags, default, accept) == O(section, name, "string", flags, default, accept, Texts)
File(section, name, flags, default, accept) == O(section, name, "path", flags, default, accept, Texts)
Bool(section, name, flags, default) ==
  O(section, name, "bool", flags, default, Assign, {"on", "off", "bad", ""})
Number(section, name, flags, default, lo, hi) ==
  O(section, name, "int", flags, default, Within(lo, hi), Around(lo, hi))
Old(section, name) == Text(section, name, {"deprecated"}, <<>>, Assign)
\* Values that no definition takes, handed to the section's own handler.
Other(section, name, accept, values) == O(section, name, "undeclared", {"multi"}, <<>>, accept, values)
Unknown(section, name) == O(section, name, "unknown", {}, <<>>, Assign, Texts)

RouterLimits(relay) ==
  LET least == IF relay THEN 6 ELSE 4
      most == IF relay THEN 60 ELSE 6
  IN << Number("router", "job-queue-size", {"hidden"}, <<8192>>, 1024, MaxInt),
        Text("router", "netid", {}, <<"good">>, Accept({"bad"}, {})),
        Number("router", "min-connections", {}, <<least>>, least, MaxInt),
        Number("router", "max-connections", {}, <<most>>, most, MaxInt),
        Text("router", "nickname", {"hidden"}, <<>>, Assign),
        File("router", "data-dir", {}, <<"good">>, Valid),
        Text("router", "public-ip", {"relay"}, <<>>, ValidOrSkip),
        Text("router", "public-address", {"hidden"}, <<>>, Accept(Texts, {})) >>

RouterFiles ==
  << Number("router", "public-port", {"relay"}, <<1090>>, 1, 65535),
     Number("router", "worker-threads", {}, <<0>>, 0, MaxInt),
     Bool("router", "block-bogons", {"hidden"}, <<"on">>),
     Text("router", "contact-file", {"relay"}, <<"good">>, Assign),
     Text("router", "encryption-privkey", {"relay"}, <<"good">>, Assign),
     Text("router", "ident-privkey", {"relay"}, <<"good">>, Assign),
     Text("router", "transport-privkey", {"relay"}, <<"good">>, Assign),
     Old("router", "max-routers"), Old("router", "min-routers"),
     Old("router", "threads"), Old("router", "net-threads"), Unknown("router", "else") >>

NetworkAuth ==
  << Text("network", "type", {"hidden"}, <<"good">>, Assign),
     Bool("network", "save-profiles", {"hidden"}, <<"on">>),
     Bool("network", "profiling", {"hidden"}, <<"on">>),
     Old("network", "profiles"),
     Text("network", "strict-connect", {"client", "multi"}, <<>>, Unique({"bad", ""}, {})),
     Text("network", "keyfile", {"client"}, <<>>, Assign),
     Text("network", "auth", {"client"}, <<>>, ValidOrSkip),
     Text("network", "auth-lmq", {"client"}, <<>>, Assign),
     Text("network", "auth-lmq-method", {"client"}, <<"good">>, Accept({}, {""})),
     Text("network", "auth-whitelist", {"client", "multi"}, <<>>, Valid),
     File("network", "auth-file", {"client", "multi"}, <<>>, Valid),
     Text("network", "auth-file-type", {"client"}, <<>>, Valid),
     Text("network", "auth-static", {"client", "multi"}, <<>>, Assign) >>

NetworkPaths ==
  << Bool("network", "reachable", {"client"}, <<"on">>),
     Number("network", "hops", {}, <<4>>, 1, 8),
     Number("network", "paths", {"client"}, <<6>>, 3, 8),
     Bool("network", "exit", {"client"}, <<"off">>),
     Text("network", "owned-range", {"multi"}, <<>>, Valid),
     Text("network", "traffic-whitelist", {"multi"}, <<>>, Valid) >>

NetworkExits ==
  << Text("network", "exit-node", {"client", "multi"}, <<>>, ValidOrSkip),
     Text("network", "exit-auth", {"client", "multi"}, <<>>, ValidOrSkip),
     Bool("network", "auto-routing", {"client"}, <<"on">>),
     Bool("network", "blackhole-routes", {"client"}, <<"on">>),
     Text("network", "ifname", {}, <<>>, Assign),
     Text("network", "ifaddr", {}, <<>>, Valid) >>

NetworkAddresses ==
  << Text("network", "ip6-range", {"client"}, <<"good">>, Accept({"bad"}, {})),
     Text("network", "mapaddr", {"client", "multi"}, <<>>, Unique({"bad"}, {""})),
     Text("network", "blacklist-mnode", {"client", "multi"}, <<>>, Unique({"bad", ""}, {})),
     Text("network", "srv", {"client", "multi"}, <<>>, Valid),
     Number("network", "path-alignment-timeout", {"client"}, <<>>, 1, MaxInt),
     File("network", "persist-addrmap-file", {"client"}, <<"good">>, Accept({""}, {})),
     Old("network", "enabled") >>

\* The default of upstream is put in the list itself and the first value
\* clears it, which is what an accepted default of a list comes to.
DnsOptions ==
  << Text("dns", "upstream", {"multi"}, <<"good">>, ValidOrSkip),
     Bool("dns", "l3-intercept", {}, <<"off">>),
     Text("dns", "query-bind", {"hidden"}, <<>>, Accept({"bad"}, {})),
     Text("dns", "bind", {"multi"}, <<"good", "other">>, Accept({"bad"}, {})),
     File("dns", "add-hosts", {"client"}, <<>>, ValidOrSkip),
     Bool("dns", "no-resolvconf", {"client", "unused"}, <<>>),
     Other("dns", "else", Assign, Texts) >>

LinkBinds ==
  << Text("bind", "public-ip", {"relay"}, <<>>, Accept({"bad"}, {})),
     O("bind", "public-port", "uint16", {"relay"}, <<>>, Assign, {0, 65535, 65536, NotANumber}),
     Text("bind", "inbound", {"relay", "multi"}, <<>>, Accept({"bad"}, {})),
     Text("bind", "outbound", {"multi"}, <<>>, Accept({"bad"}, {})) >>

LinkInterfaces ==
  LET ports == {0, 1, 65534, 65535, NotANumber}
  IN << Other("bind", "*", Accept({65535, NotANumber}, {}), ports),
        Other("bind", "interface", Accept({0, 65535, NotANumber}, {}), ports) >>

ConnectOptions == << Other("connect", "else", Valid, Texts) >>

ApiOptions(relay) ==
  << Bool("api", "enabled", {}, <<IF relay THEN "off" ELSE "on">>),
     Text("api", "bind", {"emptyIsDefault"}, <<"good">>, Assign),
     Old("api", "authkey") >>

BeldexdOptions ==
  << Bool("beldexd", "enabled", {"relay"}, <<"on">>),
     Text("beldexd", "jsonrpc", {"relay"}, <<>>, Accept(Texts \ {""}, {""})),
     Text("beldexd", "rpc", {"relay", "required"}, <<>>, Valid),
     Old("beldexd", "username"), Old("beldexd", "password"), Old("beldexd", "master-node-seed") >>

BootstrapOptions ==
  << Bool("bootstrap", "seed-node", {}, <<"off">>),
     Text("bootstrap", "add-node", {"multi"}, <<>>, Valid) >>

LoggingOptions(relay) ==
  << Text("logging", "type", {}, <<"good">>, Valid),
     Text("logging", "level", {}, <<IF relay THEN "other" ELSE "good">>, Valid),
     Text("logging", "file", {}, <<"">>, Assign) >>

PeerSelectionOptions ==
  << O("paths", "unique-range-size", "int", {"client"}, <<32>>,
       Accept({3, 33, -1, NotANumber}, {}), {-1, 0, 3, 4, 32, 33, NotANumber}) >>

addBackwardsCompatibleConfigOptions ==
  << Old("system", "user"), Old("system", "group"), Old("system", "pidfile"),
     Old("netdb", "dir"), Old("metrics", "json-metrics-path"), Unknown("else", "any") >>

initializeConfig(relay) ==
  addBackwardsCompatibleConfigOptions \o RouterLimits(relay) \o RouterFiles \o NetworkAuth
    \o NetworkPaths \o NetworkExits \o NetworkAddresses \o PeerSelectionOptions
    \o ConnectOptions \o DnsOptions \o LinkBinds \o LinkInterfaces \o ApiOptions(relay)
    \o BeldexdOptions \o BootstrapOptions \o LoggingOptions(relay)

-----------------------------------------------------------------------------
(* What a definition does with its values. *)

Relay == mode = "relay"
Multi(o) == "multi" \in o.flags

\* ConfigDefinition::defineOption: a deprecated option, or one of the other
\* kind of node, is replaced by one that takes anything and ignores it.
defineOption(o, relay) ==
  IF "deprecated" \in o.flags \/ (IF relay THEN "client" ELSE "relay") \in o.flags
  THEN [o EXCEPT !.type = "string", !.flags = {"multi", "unused"}, !.default = <<>>, !.accept = Assign]
  ELSE o

\* OptionDefinition::fromString.
fromString(o, v) ==
  CASE o.type = "int"    -> v # NotANumber
    [] o.type = "uint16" -> v \in 0 .. 65535
    [] o.type = "bool"   -> v \in {"on", "off"}
    [] o.type = "path"   -> v # ""
    [] OTHER             -> TRUE

\* Mutant: a value given twice is not refused.
ParseTwice(o, before, v) == fromString(o, v)

\* OptionDefinition::parseValue: whether the value is taken.
parseValue(o, before, v) == (Multi(o) \/ before = <<>>) /\ fromString(o, v)

\* One call of an acceptor (or of the handler of undeclared values).
Acceptor(o, members, v) ==
  IF ~ members.ok \/ v \in o.accept.refused \/ (o.accept.unique /\ v \in members.held)
  THEN [ok |-> FALSE, held |-> members.held]
  ELSE IF "unused" \in o.flags \/ v \in o.accept.skipped THEN members
  ELSE LET stored == IF "emptyIsDefault" \in o.flags /\ v = "" THEN Head(o.default) ELSE v
       IN [ok |-> TRUE, held |-> IF Multi(o) THEN members.held \cup {stored} ELSE {stored}]

\* Mutant: the defaults are accepted before the values.
DefaultsToo(o, values) == o.default \o values

\* OptionDefinition::getValue and the choice between values and defaults.
ToAccept(o, values) ==
  IF values # <<>> THEN IF Multi(o) THEN values ELSE <<Head(values)>>
  ELSE IF Multi(o) \/ o.default = <<>> THEN o.default
  ELSE <<Head(o.default)>>

\* OptionDefinition::tryAccept.
tryAccept(o, values) ==
  FoldLeft(LAMBDA m, v : Acceptor(o, m, v), [ok |-> TRUE, held |-> {}], ToAccept(o, values))

\* ConfigDefinition::process: the required values are there and every
\* acceptor, in the order of the definitions, takes its values.
process(o, values) ==
  /\ "required" \in o.flags => values # <<>>
  /\ o.type # "undeclared" => tryAccept(o, values).ok
  /\ LET options == initializeConfig(Relay)
     IN \A i \in DOMAIN options :
          LET d == defineOption(options[i], Relay)
          IN d.type \notin {"undeclared", "unknown"} /\ "required" \notin d.flags
               => tryAccept(d, <<>>).ok

\* Config::EmbeddedConfig sets these once its empty file is loaded.
EmbeddedConfig(o, members) ==
  CASE mode # "embedded"                                     -> members
    [] <<o.section, o.name>> = <<"logging", "level">>        -> {"off"}
    [] <<o.section, o.name>> = <<"api", "enabled">>          -> {"off"}
    [] <<o.section, o.name>> = <<"network", "type">>         -> {"null"}
    [] <<o.section, o.name>> = <<"network", "save-profiles">> -> {"off"}
    [] <<o.section, o.name>> = <<"bootstrap", "add-node">>   -> {}
    [] OTHER                                                 -> members

-----------------------------------------------------------------------------
(* The files and the node. *)

Missing == [exists |-> FALSE, values |-> <<>>, broken |-> FALSE]
Written(values) == [exists |-> TRUE, values |-> values, broken |-> FALSE]

\* ConfigParser::Parse: comments and blank lines are skipped, and one line that
\* is neither a section nor a key and its value refuses the file.
Parse(f) == ~ f.broken

\* ConfigDefinition::generateINIConfig: the values a generated file gives the
\* option.  Every other line of it is a comment.
generateINIConfig(o) ==
  IF "required" \in o.flags /\ "hidden" \notin o.flags THEN o.default ELSE <<>>

\* generateBaseClientConfig and generateBaseRouterConfig: only comments differ.
generateBaseConfig == Written(generateINIConfig(opt))

Init ==
  /\ mode \in {"relay", "client", "embedded"}
  /\ LET options == initializeConfig(Relay)
     IN \E i \in DOMAIN options : opt = defineOption(options[i], Relay)
  /\ ini = Missing /\ conf_d = Missing
  /\ m_Overrides = <<>> /\ saving = Idle /\ asked = 0
  /\ pc = "stopped" /\ todo = <<>> /\ parsed = <<>> /\ held = {} /\ atStart = <<>>

files == <<mode, opt, ini, conf_d>>
loading == <<todo, parsed, held, atStart>>

\* ensureConfig: a missing file is generated, and an operator may ask for an
\* existing one to be overwritten.
ensureConfig ==
  /\ pc = "stopped" /\ mode # "embedded"
  /\ ini' = generateBaseConfig
  /\ UNCHANGED <<mode, opt, conf_d, m_Overrides, saving, pc, loading, asked>>

\* The operator adds a line for the option, or a malformed one.
Edit(v) ==
  /\ pc = "stopped" /\ ini.exists /\ Len(ini.values) + asked < MaxLines
  /\ ini' \in {Written(Append(ini.values, v)), [ini EXCEPT !.broken = TRUE]}
  /\ UNCHANGED <<mode, opt, conf_d, m_Overrides, saving, pc, loading, asked>>

\* Config::Load and the start of LoadConfigData: a file that cannot be read is
\* refused, the parser (and any overrides in it) is cleared.
Load ==
  /\ pc = "stopped" /\ (ini.exists \/ mode = "embedded")
  /\ m_Overrides' = <<>> /\ parsed' = <<>> /\ held' = {}
  /\ atStart' = ini.values \o conf_d.values
  /\ todo' = <<ini.values, conf_d.values>>
  /\ pc' = IF Parse(ini) THEN "adding" ELSE "refused"
  /\ UNCHANGED <<files, saving, asked>>

\* ConfigDefinition::addConfigValue, for any of the values left of the first
\* source: the parser keeps them in an unordered multimap.
addConfigValue ==
  /\ pc = "adding" /\ todo # <<>>
  /\ \E i \in DOMAIN Head(todo) :
       LET v == Head(todo)[i]
           handled == Acceptor(opt, [ok |-> TRUE, held |-> held], v)
           taken == CASE opt.type = "unknown"    -> FALSE
                      [] opt.type = "undeclared" -> handled.ok
                      [] OTHER                   -> parseValue(opt, parsed, v)
       IN /\ pc' = IF taken THEN "adding" ELSE "refused"
          /\ parsed' = IF taken THEN Append(parsed, v) ELSE parsed
          /\ held' = IF opt.type = "undeclared" THEN handled.held ELSE held
          /\ todo' = [todo EXCEPT ![1] = RemoveAt(@, i)]
  /\ UNCHANGED <<files, m_Overrides, saving, atStart, asked>>

\* Config::LoadOverrides follows the file's own values.  A Save that was cut
\* short before its first value left the file empty, which LoadFile refuses, or
\* with no more than the line of a section, which it takes.
LoadOverrides ==
  /\ pc = "adding" /\ todo # <<>> /\ Head(todo) = <<>>
  /\ todo' = Tail(todo)
  /\ \/ pc' = pc
     \/ Len(todo) = 2 /\ conf_d.exists /\ conf_d.values = <<>> /\ pc' = "refused"
  /\ UNCHANGED <<files, m_Overrides, saving, parsed, held, atStart, asked>>

\* The end of LoadConfigData: the node runs with what was accepted.
Process ==
  /\ pc = "adding" /\ todo = <<>>
  /\ IF process(opt, parsed)
     THEN /\ pc' = "running"
          /\ held' = EmbeddedConfig(opt, IF opt.type = "undeclared" THEN held
                                         ELSE tryAccept(opt, parsed).held)
     ELSE pc' = "refused" /\ UNCHANGED held
  /\ UNCHANGED <<files, m_Overrides, saving, todo, parsed, atStart, asked>>

\* The RPC command "config" with an override.
Override(v) ==
  /\ pc = "running" /\ mode # "embedded" /\ Len(ini.values) + asked < MaxLines
  /\ asked' = asked + 1
  /\ m_Overrides' = Append(m_Overrides, v)
  /\ UNCHANGED <<files, saving, pc, loading>>

\* ... and with "reload": ConfigParser::Save on the disk thread opens (and
\* truncates) the file, writes and flushes it line by line, then clears the
\* overrides, those that were added after the last line included.  (Nothing
\* guards the map against the RPC thread; the interleavings are modelled,
\* a torn map is not.)
SaveOpen ==
  /\ pc = "running" /\ saving = Idle /\ m_Overrides # <<>>
  /\ conf_d' = Written(<<>>) /\ saving' = 0
  /\ UNCHANGED <<mode, opt, ini, m_Overrides, pc, loading, asked>>

SaveLine ==
  /\ saving \in 0 .. Len(m_Overrides) - 1
  /\ conf_d' = Written(Append(conf_d.values, m_Overrides[saving + 1]))
  /\ saving' = saving + 1
  /\ UNCHANGED <<mode, opt, ini, m_Overrides, pc, loading, asked>>

SaveWritten ==
  /\ saving = Len(m_Overrides)
  /\ saving' = Done
  /\ UNCHANGED <<files, m_Overrides, pc, loading, asked>>

SaveClear ==
  /\ saving = Done
  /\ m_Overrides' = <<>> /\ saving' = Idle
  /\ UNCHANGED <<files, pc, loading, asked>>

\* The process ends: stopped, killed, or refused by its configuration.
Exit ==
  /\ pc # "stopped"
  /\ pc' = "stopped"
  /\ m_Overrides' = <<>> /\ saving' = Idle
  /\ todo' = <<>> /\ parsed' = <<>> /\ held' = {} /\ atStart' = <<>>
  /\ UNCHANGED <<files, asked>>

Next ==
  \/ ensureConfig \/ (\E v \in opt.values : Edit(v) \/ Override(v))
  \/ Load \/ addConfigValue \/ LoadOverrides \/ Process
  \/ SaveOpen \/ SaveLine \/ SaveWritten \/ SaveClear \/ Exit

Spec == Init /\ [][Next]_vars

-----------------------------------------------------------------------------
(* What an operator may rely on, said of the values alone. *)

Good(o, values) ==
  /\ o.type # "unknown" \/ values = <<>>
  /\ \A i \in DOMAIN values : fromString(o, values[i]) /\ values[i] \notin o.accept.refused
  /\ Multi(o) \/ Len(values) <= 1
  /\ o.accept.unique =>
       \A i, j \in DOMAIN values : values[i] = values[j] => i = j \/ values[i] \in o.accept.skipped
  /\ "required" \in o.flags => values # <<>>

Meant(o, values) ==
  IF "unused" \in o.flags THEN {}
  ELSE LET set == {values[i] : i \in DOMAIN values}
       IN IF values = <<>> THEN {o.default[i] : i \in DOMAIN o.default}
          ELSE IF "emptyIsDefault" \in o.flags /\ set = {""} THEN {Head(o.default)}
          ELSE set \ o.accept.skipped

\* A node that runs holds, for every option, exactly the values its file and
\* the saved overrides gave it when it was started, or else the default, and
\* every one of them within the option's limits; it is refused only when one
\* of those values is bad, given twice, or missing though required, when a line
\* is malformed, or when a Save was interrupted before its first line, so a generated client
\* configuration always starts (Config::LoadConfigData,
\* ConfigDefinition::process).
ConfigAsGiven ==
  /\ pc = "running" => Good(opt, atStart) /\ held = EmbeddedConfig(opt, Meant(opt, atStart))
  /\ pc = "refused" => ~ Good(opt, atStart) \/ ini.broken \/ (conf_d.exists /\ conf_d.values = <<>>)
=============================================================================
