----------------------------- MODULE Configuration -----------------------------
(***************************************************************************)
(* The settings of a channel: ares_init_options takes each from the first  *)
(* of four sources that has it.                                            *)
(*                                                                         *)
(* A channel is a record of settings, Unset where nothing is known.  What  *)
(* the sources hold: options, what the caller asks for, by name; in the    *)
(* environment, LOCALDOMAIN and RES_OPTIONS; a resolv_conf and the other   *)
(* files that say where hosts are looked up, each with its lines if it can *)
(* be read; and the domain of the host's own name.  A line, or a word of   *)
(* options, has a key and a value.  The memory never runs out.             *)
(***************************************************************************)
EXTENDS Integers, Sequences

CONSTANTS
  Unset,
  IPv4          \* the servers with an IPv4 address

IsIPv4(server) == server \in IPv4

Setting == {"flags", "timeout", "tries", "ndots", "rotate", "udp_port", "tcp_port",
            "servers", "domains", "sortlist", "lookups"}

Blank == [f \in Setting |-> Unset]

Given(channel, f) == channel[f] # Unset

(* Mutant: a setting is replaced whoever gave it.                          *)
SetAgain(channel, f, value) == [channel EXCEPT ![f] = value]

Set(channel, f, value) == IF Given(channel, f) THEN channel ELSE [channel EXCEPT ![f] = value]

(* Only words that begin as they should count, and the first two of them.  *)
LookupsOf(words, dns, file) ==
  LET Known(word) == word \in {dns, file}
      known == SelectSeq(words, Known)
  IN [i \in 1 .. (IF Len(known) > 2 THEN 2 ELSE Len(known)) |-> IF known[i] = dns THEN "b" ELSE "f"]

(* What a sequence has at these places.                                    *)
Picked(seq, places) ==
  LET picked[k \in 0 .. Len(seq)] ==
        IF k = 0 THEN <<>> ELSE IF k \in places THEN Append(picked[k - 1], seq[k]) ELSE picked[k - 1]
  IN picked[Len(seq)]

(* Entries that are no addresses are passed over.                          *)
Readable(entries) == Picked(entries, {i \in DOMAIN entries : entries[i] # "garbled"})
-----------------------------------------------------------------------------
(* init_by_options.  An empty sort list is as good as none.                *)
InitByOptions(channel, options) ==
  [f \in Setting |->
     IF f \in DOMAIN options /\ ~Given(channel, f) /\ ~(f = "sortlist" /\ options[f] = <<>>)
     THEN options[f] ELSE channel[f]]

(* set_options, and the settings its words are for.                        *)
SettingOf(word) ==
  CASE word = "retrans" -> "timeout"
    [] word = "retry" -> "tries"
    [] OTHER -> word

SetOption(channel, word) ==
  IF word.key \in {"ndots", "retrans", "retry", "rotate"}
  THEN Set(channel, SettingOf(word.key), word.value) ELSE channel

SetOptions(channel, words) ==
  LET after[k \in 0 .. Len(words)] ==
        IF k = 0 THEN channel ELSE SetOption(after[k - 1], words[k])
  IN after[Len(words)]

(* set_search replaces the domains, whoever gave them.                     *)
SetSearch(channel, domains) == [channel EXCEPT !.domains = domains]

InitByEnvironment(channel, env) ==
  LET c == IF env.LOCALDOMAIN # Unset /\ ~Given(channel, "domains")
           THEN SetSearch(channel, env.LOCALDOMAIN) ELSE channel
  IN IF env.RES_OPTIONS # Unset THEN SetOptions(c, env.RES_OPTIONS) ELSE c
-----------------------------------------------------------------------------
(* try_config: the value of a line is for this option.  A line of which a  *)
(* comment leaves nothing, or no value, is none.                           *)
Sets(line, option) == line.key = option

(* A line of resolv.conf.  Name servers and sort list entries are put by,  *)
(* and belong to the channel when the whole file has been read.            *)
ConfLine(r, line) ==
  LET c == r.channel IN
  CASE Sets(line, "domain") -> [r EXCEPT !.channel = SetSearch(c, <<Head(line.value)>>)]
    [] Sets(line, "search") -> [r EXCEPT !.channel = SetSearch(c, line.value)]
    [] Sets(line, "lookup") ->
         [r EXCEPT !.channel = Set(c, "lookups", LookupsOf(line.value, "bind", "file"))]
    [] Sets(line, "nameserver") /\ ~Given(c, "servers") ->
         [r EXCEPT !.servers = @ \o Readable(line.value)]
    [] Sets(line, "sortlist") /\ ~Given(c, "sortlist") ->
         [r EXCEPT !.sortlist = @ \o Readable(line.value)]
    [] Sets(line, "options") -> [r EXCEPT !.channel = SetOptions(c, line.value)]
    [] OTHER -> r

ReadConf(channel, lines) ==
  LET start == [channel |-> channel, servers |-> <<>>, sortlist |-> <<>>, status |-> "EOF"]
      after[k \in 0 .. Len(lines)] ==
        IF k = 0 THEN start ELSE ConfLine(after[k - 1], lines[k])
  IN after[Len(lines)]

(* One of the files read after resolv.conf if it did not say where to look *)
(* hosts up; a missing file has no lines.                                  *)
LookupFile(r, file, key, dns, files) ==
  LET Put(channel, line) ==
        IF Sets(line, key) THEN Set(channel, "lookups", LookupsOf(line.value, dns, files)) ELSE channel
      after[k \in 0 .. Len(file.lines)] ==
        IF k = 0 THEN r.channel ELSE Put(after[k - 1], file.lines[k])
  IN IF r.status # "EOF" \/ Given(r.channel, "lookups") THEN r
     ELSE IF file.state = "unreadable" THEN [r EXCEPT !.status = "EFILE"]
     ELSE [r EXCEPT !.channel = after[Len(file.lines)]]

(* ARES_CONFIG_CHECK.                                                      *)
Complete(channel) ==
  \A f \in {"lookups", "sortlist", "servers", "domains", "ndots", "timeout", "tries"} :
    Given(channel, f)

InitByResolvConf(channel, files) ==
  LET conf == IF files.resolv_conf.state = "unreadable"
              THEN [ReadConf(channel, <<>>) EXCEPT !.status = "EFILE"]
              ELSE ReadConf(channel, files.resolv_conf.lines)
      nsswitch == LookupFile(conf, files.nsswitch, "hosts:", "dns", "files")
      host == LookupFile(nsswitch, files.host_conf, "order", "bind", "hosts")
      svc == LookupFile(host, files.svc_conf, "hosts=", "bind", "local")
      Filled(c, f, value) == IF value = <<>> THEN c ELSE [c EXCEPT ![f] = value]
  IN IF Complete(channel) THEN channel
     ELSE IF svc.status # "EOF" THEN svc.channel
     ELSE Filled(Filled(svc.channel, "servers", svc.servers), "sortlist", svc.sortlist)
-----------------------------------------------------------------------------
Default(f, hostdomain) ==
  CASE f = "flags" -> "none"
    [] f = "rotate" -> 0
    [] f = "timeout" -> 5000
    [] f = "tries" -> 4
    [] f = "ndots" -> 1
    [] f \in {"udp_port", "tcp_port"} -> 53
    [] f = "servers" -> <<"127.0.0.1">>
    [] f = "domains" -> IF hostdomain = Unset THEN <<>> ELSE <<hostdomain>>
    [] f = "sortlist" -> <<>>
    [] f = "lookups" -> <<"f", "b">>

InitByDefaults(channel, hostdomain) ==
  [f \in Setting |-> IF Given(channel, f) THEN channel[f] ELSE Default(f, hostdomain)]

FirstOf(seq) == IF seq = <<>> THEN <<>> ELSE <<Head(seq)>>

(* For the flag PRIMARY the first server is enough.                        *)
TrimServers(channel) ==
  IF channel.flags = "PRIMARY" THEN [channel EXCEPT !.servers = FirstOf(@)] ELSE channel

(* ares_init_options: the sources from the highest precedence to the       *)
(* lowest; whatever fails, the defaults fill in what is missing.           *)
InitOptions(s) ==
  LET asked == InitByOptions(Blank, s.options)
      env == InitByEnvironment(asked, s.env)
      conf == InitByResolvConf(env, s.files)
  IN TrimServers(InitByDefaults(conf, s.hostdomain))

(* What init_channel of src/lookup.c asks for.                             *)
ChannelOptions == [timeout |-> 3000, tries |-> 2]

(* ares_save_options: all that can be asked for, the rotation if it was,   *)
(* and of the servers those with an IPv4 address.                          *)
Saved(channel, options) ==
  [f \in Setting \ (IF "rotate" \in DOMAIN options THEN {} ELSE {"rotate"}) |->
     IF f = "servers"
     THEN Picked(channel.servers, {i \in DOMAIN channel.servers : IsIPv4(channel.servers[i])})
     ELSE channel[f]]

(* ares_set_servers, of any addresses.                                     *)
SetServers(channel, servers) == [channel EXCEPT !.servers = servers]

(* Mutant: servers that are no options are not copied.                     *)
DupOfOptions(channel, s) == InitOptions([s EXCEPT !.options = Saved(channel, s.options)])

(* ares_dup: a channel made of the options of another, in the surroundings *)
(* of now.  If some servers are no options, all are copied afterwards.     *)
Dup(channel, s) ==
  LET made == InitOptions([s EXCEPT !.options = Saved(channel, s.options)])
  IN IF \E i \in DOMAIN channel.servers : ~IsIPv4(channel.servers[i])
     THEN SetServers(made, channel.servers) ELSE made
-----------------------------------------------------------------------------
(* What each source says of a setting, if it is the only one; Unset if it  *)
(* says nothing.  Of several things the first that says something.         *)
FirstKnown(values) ==
  LET known == {i \in DOMAIN values : values[i] # Unset}
  IN IF known = {} THEN Unset ELSE values[CHOOSE i \in known : \A j \in known : i <= j]

InOptions(s, f) ==
  IF f \in DOMAIN s.options /\ ~(f = "sortlist" /\ s.options[f] = <<>>) THEN s.options[f] ELSE Unset

WordFor == [ndots |-> "ndots", timeout |-> "retrans", tries |-> "retry", rotate |-> "rotate"]

InWords(words, f) ==
  FirstKnown([k \in DOMAIN words |->
                IF f \in DOMAIN WordFor /\ words[k].key = WordFor[f] THEN words[k].value ELSE Unset])

InEnvironment(s, f) ==
  IF f = "domains" THEN s.env.LOCALDOMAIN
  ELSE IF s.env.RES_OPTIONS = Unset THEN Unset ELSE InWords(s.env.RES_OPTIONS, f)

InOrders(lines, key, dns, file) ==
  FirstKnown([k \in DOMAIN lines |->
                IF lines[k].key = key THEN LookupsOf(lines[k].value, dns, file) ELSE Unset])

InOptionLines(lines, f) ==
  FirstKnown([k \in DOMAIN lines |->
                IF lines[k].key = "options" THEN InWords(lines[k].value, f) ELSE Unset])

(* The entries of all lines with a key count, if there are any.            *)
AllEntries(lines, key) ==
  LET after[k \in 0 .. Len(lines)] ==
        IF k = 0 THEN <<>>
        ELSE after[k - 1] \o (IF lines[k].key = key THEN Readable(lines[k].value) ELSE <<>>)
  IN IF after[Len(lines)] = <<>> THEN Unset ELSE after[Len(lines)]

(* The last line that names domains counts.                                *)
NamesOf(line) == IF line.key = "domain" THEN <<Head(line.value)>> ELSE line.value

InNames(lines) ==
  LET naming == {k \in DOMAIN lines : lines[k].key \in {"domain", "search"}}
  IN IF naming = {} THEN Unset ELSE NamesOf(lines[CHOOSE k \in naming : \A j \in naming : j <= k])

InFiles(files, f) ==
  LET conf == files.resolv_conf.lines IN
  CASE f = "domains" -> InNames(conf)
    [] f = "servers" -> AllEntries(conf, "nameserver")
    [] f = "sortlist" -> AllEntries(conf, "sortlist")
    [] f = "lookups" -> FirstKnown(<<InOrders(conf, "lookup", "bind", "file"),
                                     InOrders(files.nsswitch.lines, "hosts:", "dns", "files"),
                                     InOrders(files.host_conf.lines, "order", "bind", "hosts"),
                                     InOrders(files.svc_conf.lines, "hosts=", "bind", "local")>>)
    [] OTHER -> InOptionLines(conf, f)

(* The files are of use if one of these is missing without them.           *)
NeedsFiles(s) ==
  \E f \in {"lookups", "sortlist", "servers", "domains", "ndots", "timeout", "tries"} :
    InOptions(s, f) = Unset /\ InEnvironment(s, f) = Unset

AskedDomains(s) ==
  IF InOptions(s, "domains") # Unset THEN InOptions(s, "domains") ELSE InEnvironment(s, "domains")

FilesAreRead(s) == \A file \in DOMAIN s.files : s.files[file].state = "read"

(* A setting has the first of the values that its sources give it, in the  *)
(* order of precedence that a comment in ares_init_options names.  A file  *)
(* that cannot be read says nothing, and one of the files for the lookups  *)
(* may take the servers, the sort list and the lookups of the others with  *)
(* it.  Nothing is claimed of domains that the caller or the environment   *)
(* asks for if resolv.conf has some too: KeepsDomains does not hold.       *)
TakesFirst(s) ==
  LET channel == InitOptions(s)
      Filed(f) ==
        IF NeedsFiles(s) /\ s.files.resolv_conf.state = "read" THEN InFiles(s.files, f) ELSE Unset
      Wanted(f, filed) ==
        FirstKnown(<<InOptions(s, f), InEnvironment(s, f), filed, Default(f, s.hostdomain)>>)
      Taken(f, filed) ==
        channel[f] = IF f = "servers" /\ channel.flags = "PRIMARY" THEN FirstOf(Wanted(f, filed))
                     ELSE Wanted(f, filed)
  IN \A f \in Setting :
       \/ Taken(f, Filed(f))
       \/ f \in {"servers", "sortlist", "lookups"} /\ ~FilesAreRead(s) /\ Taken(f, Unset)
       \/ f = "domains" /\ Filed(f) # Unset /\ AskedDomains(s) # Unset

(* Domains that the caller asks for, or else the environment, are used.    *)
KeepsDomains(s) == AskedDomains(s) # Unset => InitOptions(s).domains = AskedDomains(s)

(* A duplicate made in the same surroundings has the same settings, but    *)
(* for rotation.  It takes an empty sort list for none, and may find one   *)
(* where a file that could not be read had taken it from the channel.      *)
IsKept(s) ==
  LET channel == InitOptions(s)
      dup == Dup(channel, s)
  IN \A f \in Setting \ {"rotate"} :
       dup[f] = channel[f] \/ (f = "sortlist" /\ ~FilesAreRead(s))
=============================================================================
