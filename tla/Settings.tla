------------------------------- MODULE Settings -------------------------------
(***************************************************************************)
(* The surroundings in which a channel is made or duplicated: what the     *)
(* caller asks for, the environment, the files and the host's domain, as   *)
(* Configuration has them.  They are arranged, and resolv.conf gets one    *)
(* line after another.                                                     *)
(***************************************************************************)
EXTENDS Configuration

CONSTANTS
  Server,         \* name servers
  Pattern,        \* what a sort list has entries of
  Line,           \* the lines of resolv.conf
  Surroundings,   \* how the rest may be arranged
  MaxLines        \* bound: the lines of resolv.conf

IsSequence(x) == x \in Seq({x[i] : i \in DOMAIN x})

(* Nothing is known but what every channel of src/lookup.c asks for.       *)
Bare ==
  [options |-> ChannelOptions, env |-> [LOCALDOMAIN |-> Unset, RES_OPTIONS |-> Unset],
   hostdomain |-> Unset,
   files |-> [f \in {"resolv_conf", "nsswitch", "host_conf", "svc_conf"} |->
                [state |-> "read", lines |-> <<>>]]]

(* Servers and words are sequences, and what can be known is not Unset.    *)
AreSurroundings(s) ==
  /\ DOMAIN s = DOMAIN Bare /\ DOMAIN s.files = DOMAIN Bare.files
  /\ \A f \in DOMAIN s.files :
       DOMAIN s.files[f] = {"state", "lines"} /\ s.files[f].state \in {"read", "unreadable"}
  /\ "servers" \in DOMAIN s.options => s.options.servers \in Seq(Server)
  /\ s.env.RES_OPTIONS # Unset => IsSequence(s.env.RES_OPTIONS)
  /\ \A f \in DOMAIN s.files : IsSequence(s.files[f].lines)
  /\ \A f \in Setting : Default(f, s.hostdomain) # Unset
  /\ s.files.resolv_conf.lines \in Seq(Line)

ASSUME ServerAssumption == "127.0.0.1" \in Server /\ Unset \notin Seq(Server \cup Pattern)

ASSUME LineAssumption ==
  \A line \in Line :
    /\ line.key = "nameserver" => line.value \in Seq(Server \cup {"garbled"})
    /\ line.key = "sortlist" => line.value \in Seq(Pattern \cup {"garbled"})
    /\ line.key = "options" => IsSequence(line.value)
    /\ line.key \in {"domain", "search"} => NamesOf(line) # Unset

ASSUME SurroundingsAssumption == \A s \in Surroundings \cup {Bare} : AreSurroundings(s)

VARIABLE surroundings
-----------------------------------------------------------------------------
InitSurroundings == surroundings = Bare

Arrange == surroundings = Bare /\ surroundings' \in Surroundings

AddLine ==
  /\ surroundings.files.resolv_conf.state = "read"
  /\ Len(surroundings.files.resolv_conf.lines) < MaxLines
  /\ \E line \in Line :
       surroundings' = [surroundings EXCEPT !.files.resolv_conf.lines = Append(@, line)]

Clear == surroundings # Bare /\ surroundings' = Bare

SurroundingsStep == Arrange \/ AddLine \/ Clear

SurroundingsSpec == InitSurroundings /\ [][SurroundingsStep]_surroundings

(* ares_init_options: a setting is taken from the first source that has it, *)
(* of the four and then of the lines, and from the defaults if none has,   *)
(* also if some of the files cannot be read.                               *)
Precedence == TakesFirst(surroundings)

(* ares_init_options: the domains of the first source are used, whatever   *)
(* the lines of resolv.conf say, as the comment on the four sources has it. *)
DomainsAreKept == KeepsDomains(surroundings)

(* ares_dup: a channel duplicated where nothing has changed is the same,   *)
(* but for its rotation, and for its sort list if a file cannot be read.   *)
DupKeeps == IsKept(surroundings)
=============================================================================
