------------------------------- MODULE Resolver -------------------------------
(***************************************************************************)
(* Name lookups: the greenlets that wait in src/lookup.c, and the channel  *)
(* of c-ares that sends their queries to the name servers, again and       *)
(* elsewhere when no answer comes.                                         *)
(*                                                                         *)
(* A callback of c-ares switches to the greenlet whose lookup is over, so  *)
(* that the greenlet goes on, and begins its next lookup, in the middle of *)
(* ares_process_fd, before the query that is over has left the channel.    *)
(*                                                                         *)
(* Time is counted in seconds from the current one, and passes while the   *)
(* loop polls.  A server may answer what it was asked over the present     *)
(* socket at any time, more than once, in any order or never.  state_cb of *)
(* lookup.c asks picoev for a socket's first events only: nothing is ever  *)
(* written to a connection, and no server answers there.  The memory never *)
(* runs out.                                                               *)
(***************************************************************************)
EXTENDS Integers, Sequences, FiniteSets

CONSTANTS
  Greenlet,     \* the greenlets that look names up
  Main,         \* the one of them that is the loop's parent
  Loop,         \* the loop's own
  NServers,     \* channel->nservers
  NDomains,     \* channel->ndomains
  Tries,        \* channel->tries
  Delay(_),     \* the seconds a server is given in a round
  Wanted(_, _), \* bound: what a greenlet's nth lookup may be, if it has one
  Id,           \* bound: the query ids
  Key,          \* bound: what tells the live queries apart, numbers: enough for one
                \* of each greenlet and the one that is over
  Answer,       \* bound: the answers servers give
  Fragile,      \* bound: the servers that may be out of reach
  Lag           \* bound: the seconds that are remembered

ASSUME ResolverAssumption ==
  /\ Main \in Greenlet /\ Loop \notin Greenlet
  /\ {NServers, Tries} \subseteq Nat \ {0} /\ NDomains \in Nat
  /\ Key \subseteq Nat \ {0} /\ Lag \in Nat \ {0}
  /\ IsFiniteSet(Key) /\ IsFiniteSet(Greenlet) /\ Cardinality(Key) > Cardinality(Greenlet)

VARIABLES
  channel,      \* the struct ares_channeldata, see Fresh
  last_timeout_processed,  \* a second, counted from the current one
  pc,           \* where processfds is
  at,           \* the server it is at
  due,          \* the queries process_timeouts still has to move on
  ending,       \* the query whose callback is being called, 0 for none
  active,       \* the greenlet that runs
  place,        \* where each of the others is
  lookup,       \* the lookup a greenlet is waiting for, or waited for last
  lookups,      \* how many it has begun
  result,       \* what its last lookup came to
  abandoned     \* history: whose query was destroyed

processVars == <<pc, at, due>>
greenletVars == <<active, place, lookup, lookups, result, abandoned>>
vars == <<channel, last_timeout_processed, processVars, ending, greenletVars>>

Server == 1 .. NServers
Socket == {"udp", "tcp"} \X Server
NoQuery == [live |-> FALSE]
Over(name) == [kind |-> "none", name |-> name]
NoResult == [status |-> "none"]

(* A channel that init_channel has made.  The lists are of keys; stolen is *)
(* the one handle_error takes from a server.  qhead: the servers a query   *)
(* is queued at for TCP.  asked: what a server was asked over its present  *)
(* UDP socket.  age: the seconds begun since picoev was told of a socket.  *)
Fresh ==
  [query |-> [k \in Key |-> NoQuery],
   all_queries |-> <<>>, queries_by_timeout |-> <<>>, stolen |-> <<>>,
   queries_to_server |-> [s \in Server |-> <<>>],
   open |-> {}, is_broken |-> {}, qhead |-> {},
   asked |-> [s \in Server |-> {}], age |-> [f \in Socket |-> 0]]

Init ==
  /\ channel = Fresh
  /\ last_timeout_processed = 0
  /\ pc = "poll" /\ at = 1 /\ due = <<>> /\ ending = 0
  /\ active = Loop
  /\ place = [g \in Greenlet |-> IF g = Main THEN "inrun" ELSE "ready"]
  /\ lookup = [g \in Greenlet |-> Over("none")]
  /\ lookups = [g \in Greenlet |-> 0]
  /\ result = [g \in Greenlet |-> NoResult]
  /\ abandoned = {}
-----------------------------------------------------------------------------
(* A lookup is a sequence of questions, one at a time.  Its name is one of *)
(* those that are searched as they are, first or last, in the domains.     *)

(* single_domain: a trailing dot, or no domain to search in.  A name that  *)
(* the file of HOSTALIASES replaces is searched as if it had the dot.      *)
Single(l) == l.dots = "trailing" \/ NDomains = 0

(* ares_search: the only question, or the first of several.                *)
Search(l, type) ==
  LET single == Single(l)
      as_is == single \/ l.dots = "inner"
  IN [l EXCEPT !.type = type, !.single = single, !.trying_as_is = as_is,
               !.next_domain = IF as_is THEN 0 ELSE 1,
               !.status_as_is = "none", !.ever_got_nodata = FALSE]

(* ares_gethostbyname for a family, or ares_gethostbyaddr.                 *)
NewLookup(kind, name, dots) ==
  LET l == [kind |-> kind, name |-> name, dots |-> dots, type |-> "PTR",
            single |-> TRUE, trying_as_is |-> TRUE, next_domain |-> 0,
            status_as_is |-> "none", ever_got_nodata |-> FALSE]
  IN CASE kind = "addr"  -> l
       [] kind = "inet"  -> Search(l, "A")
       [] OTHER          -> Search(l, "AAAA")

Question(l) ==
  [name |-> l.name, type |-> l.type, domain |-> IF l.trying_as_is THEN 0 ELSE l.next_domain]

(* What an answer is to qcallback, which looks at its response code and    *)
(* its count, and to the parser of its records.                            *)
StatusOf(answer) ==
  CASE answer = "nodata" -> "ENODATA"
    [] answer = "nxdomain" -> "ENOTFOUND"
    [] answer = "formerr" -> "EFORMERR"
    [] OTHER -> "SUCCESS"

Parsed(type, answer) ==
  CASE answer = "cname" /\ type # "A" -> "ENODATA"
    [] answer = "garbled" -> "EBADRESP"
    [] OTHER -> "SUCCESS"

Ask(l) == [status |-> "ASK", lookup |-> l]

Done(l, status) == [status |-> status, lookup |-> l]

(* search_callback: the next question, or the status of the search.        *)
SearchCallback(l, status) ==
  LET as_is == IF l.trying_as_is THEN status ELSE l.status_as_is
      nodata == l.ever_got_nodata \/ status = "ENODATA"
      m == [l EXCEPT !.status_as_is = as_is, !.ever_got_nodata = nodata]
  IN IF l.single \/ status \notin {"ENODATA", "ENOTFOUND"} THEN Done(l, status)
     ELSE IF l.next_domain < NDomains
       THEN Ask([m EXCEPT !.trying_as_is = FALSE, !.next_domain = @ + 1])
     ELSE IF as_is = "none" THEN Ask([m EXCEPT !.trying_as_is = TRUE])
     ELSE Done(m, IF as_is = "ENOTFOUND" /\ nodata THEN "ENODATA" ELSE as_is)

(* host_callback and addr_callback: A after AAAA, or the end of the lookup *)
(* (the hosts file has been looked at before).                             *)
HostCallback(l, status, answer) ==
  LET parsed == IF status = "SUCCESS" THEN Parsed(l.type, answer) ELSE status
  IN IF l.kind = "unspec" /\ l.type = "AAAA" /\ parsed \in {"ENODATA", "EBADRESP", "ETIMEOUT"}
       THEN Ask(Search(l, "A"))
     ELSE IF l.kind = "addr" /\ status # "SUCCESS" THEN Done(l, "ENOTFOUND")
     ELSE Done(l, parsed)

Callback(l, status, answer) ==
  LET found == IF l.kind = "addr" THEN Done(l, status) ELSE SearchCallback(l, status)
  IN IF found.status = "ASK" THEN found
     ELSE HostCallback(found.lookup, found.status, answer)
-----------------------------------------------------------------------------
(* Operators on a channel.                                                 *)
Live == {k \in Key : channel.query[k].live}

Occurs(list, k) == \E i \in DOMAIN list : list[i] = k

(* ares__remove_from_list: a query is in a list once, if at all.           *)
Without(list, k) ==
  IF Occurs(list, k)
    THEN LET i == CHOOSE i \in DOMAIN list : list[i] = k
         IN [j \in 1 .. (Len(list) - 1) |-> list[IF j < i THEN j ELSE j + 1]]
    ELSE list

Unlisted(c, k) ==
  [c EXCEPT !.queries_by_timeout = Without(@, k), !.stolen = Without(@, k),
            !.queries_to_server = [s \in Server |-> Without(@[s], k)]]

(* skip_server, which has an effect only if there are others.              *)
Skipping(q, servers) == IF NServers > 1 THEN q.skip \cup servers ELSE q.skip

(* The server of a try: they are taken in turn.                            *)
ServerOfTry(q, try) == ((q.server - 1 + try - q.try_count) % NServers) + 1

(* The tries at which next_server, or ares__send_query at first, sends it. *)
Candidates(c, q, first) ==
  {try \in q.try_count .. (NServers * Tries - 1) :
     LET s == ServerOfTry(q, try)
     IN IF try = q.try_count THEN first
        ELSE s \notin c.is_broken \cup q.skip /\ ~(q.using_tcp /\ s \in q.tcp_sent)}

Working(c, q, first, failing) ==
  {try \in Candidates(c, q, first) : ServerOfTry(q, try) \notin failing}

(* state_cb for a socket that is opened: picoev is told, the first time;   *)
(* and for sockets that are closed.                                        *)
Watched(c, f) == IF f \in c.open THEN c ELSE [c EXCEPT !.open = @ \cup {f}, !.age[f] = 0]

Unwatched(c, fs) ==
  [c EXCEPT !.open = @ \ fs, !.age = [f \in Socket |-> IF f \in fs THEN 0 ELSE @[f]]]

(* Mutant: the query stays in the list of the server it was sent to last.  *)
SentTwice(c, k, q, try, tried, delay) ==
  LET s == ServerOfTry(q, try)
      f == <<IF q.using_tcp THEN "tcp" ELSE "udp", s>>
  IN [c EXCEPT
        !.query[k] = [q EXCEPT !.server = s, !.try_count = try, !.timeout = delay,
                               !.skip = Skipping(q, tried),
                               !.tcp_sent = IF q.using_tcp THEN @ \cup {s} ELSE @],
        !.queries_by_timeout = Append(Without(@, k), k),
        !.stolen = Without(@, k),
        !.queries_to_server[s] = Append(@, k),
        !.open = @ \cup {f},
        !.qhead = IF q.using_tcp THEN @ \cup {<<s, k>>} ELSE @,
        !.asked[s] = IF q.using_tcp THEN @ ELSE @ \cup {[id |-> q.id, question |-> q.question]}]

(* The channel after q was sent as query k at a try.                       *)
Sent(c, k, q, try, tried, delay) ==
  LET s == ServerOfTry(q, try)
      u == Watched(Unlisted(c, k), <<IF q.using_tcp THEN "tcp" ELSE "udp", s>>)
  IN [u EXCEPT
        !.query[k] = [q EXCEPT !.server = s, !.try_count = try, !.timeout = delay,
                               !.skip = Skipping(q, tried),
                               !.tcp_sent = IF q.using_tcp THEN @ \cup {s} ELSE @],
        !.queries_by_timeout = Append(@, k),
        !.queries_to_server[s] = Append(@, k),
        !.qhead = IF q.using_tcp THEN @ \cup {<<s, k>>} ELSE @,
        !.asked[s] = IF q.using_tcp THEN @ ELSE @ \cup {[id |-> q.id, question |-> q.question]}]

(* ares__close_sockets: with its connection go the requests queued for it. *)
Closed(c, s) ==
  [Unwatched(c, {<<"udp", s>>, <<"tcp", s>>}) EXCEPT
            !.is_broken = @ \ {s}, !.qhead = {r \in @ : r[1] # s}, !.asked[s] = {},
            !.query = [k \in Key |-> IF c.query[k].live
                                       THEN [c.query[k] EXCEPT !.tcp_sent = @ \ {s}] ELSE NoQuery]]

(* handle_error up to its loop.                                            *)
Stolen(c, s) ==
  LET d == Closed(c, s)
  IN [d EXCEPT !.stolen = d.queries_to_server[s], !.queries_to_server[s] = <<>>]

(* ares__free_query, and the cleanup of end_query.                         *)
Freed(c, k) ==
  LET u == [Unlisted(c, k) EXCEPT !.query[k] = NoQuery, !.all_queries = Without(@, k)]
  IN IF u.all_queries = <<>>
       THEN [Unwatched(u, Socket) EXCEPT !.is_broken = {}, !.qhead = {}, !.asked = Fresh.asked]
       ELSE u

(* ares_send: the new query of a greenlet's lookup.                        *)
NewQuery(g, l, id) ==
  [live |-> TRUE, who |-> g, id |-> id, question |-> Question(l), server |-> 1,
   try_count |-> 0, skip |-> {}, using_tcp |-> FALSE, tcp_sent |-> {},
   timeout |-> 0, error_status |-> "ECONNREFUSED"]

(* What sending may come to: the first try that works, with any of the     *)
(* fragile servers failing, or none that does.                             *)
Tried(c, q, first, try) ==
  {ServerOfTry(q, t) : t \in {u \in Candidates(c, q, first) : u < try}}

Firsts(c, q, first) ==
  UNION {{try \in Working(c, q, first, failing) :
            \A t \in Working(c, q, first, failing) : try <= t} : failing \in SUBSET Fragile}

Sendings(c, k, q, first) ==
  UNION {{Sent(c, k, q, try, Tried(c, q, first, try), d) : d \in Delay(try \div NServers)}
         : try \in Firsts(c, q, first)}

CannotSend(c, q, first) == \E failing \in SUBSET Fragile : Working(c, q, first, failing) = {}

FreeKey(c) == CHOOSE k \in Key : ~c.query[k].live

(* ares_query: the id is taken to be new, and find_query_by_id, which      *)
(* compares it with its bytes swapped, does not see that it may not be.    *)
Queried(c, g, l) ==
  LET k == FreeKey(c)
      d == [c EXCEPT !.all_queries = Append(@, k)]
  IN UNION {Sendings(d, k, NewQuery(g, l, id), TRUE) : id \in Id}

CannotQuery(c, g, l) == CannotSend(c, NewQuery(g, l, CHOOSE id \in Id : TRUE), TRUE)
-----------------------------------------------------------------------------
(* The greenlets.                                                          *)
InCode(g) == active = g /\ place[g] = "run"

Ended(status, about) == [status |-> status, about |-> about]

(* A lookup: found in the hosts file or an address itself, asked for, or   *)
(* over at once when no server can be reached.                             *)
Lookup(g) ==
  /\ InCode(g)
  /\ lookups' = [lookups EXCEPT ![g] = @ + 1]
  /\ \E l \in Wanted(g, lookups[g] + 1) :
       /\ \/ /\ result' = [result EXCEPT ![g] = Ended("SUCCESS", l.name)]
             /\ lookup' = [lookup EXCEPT ![g] = Over(l.name)]
             /\ UNCHANGED <<channel, active, place>>
          \/ /\ channel' \in Queried(channel, g, l)
             /\ lookup' = [lookup EXCEPT ![g] = l]
             /\ active' = Loop
             /\ place' = [place EXCEPT ![g] = "wait"]
             /\ result' = [result EXCEPT ![g] = NoResult]
          \/ /\ CannotQuery(channel, g, l)
             /\ lookup' = [lookup EXCEPT ![g] = Over(l.name)]
             /\ result' = [result EXCEPT ![g] = Ended(Callback(l, "ECONNREFUSED", "none").status, l.name)]
             /\ UNCHANGED <<channel, active, place>>
  /\ UNCHANGED <<last_timeout_processed, processVars, ending, abandoned>>

(* A greenlet has nothing more to look up; the main one runs the loop.     *)
End(g) ==
  /\ InCode(g)
  /\ active' = Loop
  /\ place' = [place EXCEPT ![g] = IF g = Main THEN "inrun" ELSE "done"]
  /\ UNCHANGED <<channel, last_timeout_processed, processVars, ending, lookup, lookups,
                 result, abandoned>>

(* The *_cb of lookup.c: the greenlet goes on, inside the callback.        *)
Resume(g, status, about) ==
  /\ active' = g
  /\ place' = [place EXCEPT ![g] = "run"]
  /\ lookup' = [lookup EXCEPT ![g] = Over(@.name)]
  /\ result' = [result EXCEPT ![g] = Ended(status, about)]

Start(g) ==
  /\ active = Loop /\ ending = 0 /\ channel.stolen = <<>> /\ pc = "poll" /\ place[g] = "ready"
  /\ active' = g
  /\ place' = [place EXCEPT ![g] = "run"]
  /\ UNCHANGED <<channel, last_timeout_processed, processVars, ending, lookup, lookups,
                 result, abandoned>>
-----------------------------------------------------------------------------
(* The end of a query.                                                     *)

(* end_query: a connection it is queued for is broken if it failed, and    *)
(* left alone if it was answered.  Its callback asks the next question of  *)
(* the lookup, or ends it.                                                 *)
EndQuery(c, k, status, answer, about) ==
  LET g == c.query[k].who
      queued == {s \in Server : <<s, k>> \in c.qhead}
      d == [c EXCEPT !.qhead = {r \in @ : r[2] # k},
                     !.is_broken = IF status = "SUCCESS" THEN @ ELSE @ \cup queued]
      next == Callback(lookup[g], status, answer)
  IN IF next.status = "ASK"
       THEN /\ \/ /\ \E e \in Queried(d, g, next.lookup) : channel' = Freed(e, k)
                  /\ lookup' = [lookup EXCEPT ![g] = next.lookup]
                  /\ UNCHANGED <<ending, active, place, result>>
               \/ /\ CannotQuery(d, g, next.lookup)
                  /\ channel' = d
                  /\ ending' = k
                  /\ Resume(g, Callback(next.lookup, "ECONNREFUSED", "none").status, about)
       ELSE /\ channel' = d
            /\ ending' = k
            /\ Resume(g, next.status, about)

(* next_server for a query, which may be the end of it.                    *)
NextServer(c, k, q) ==
  \/ /\ channel' \in Sendings(c, k, q, FALSE)
     /\ UNCHANGED <<ending, active, place, lookup, result>>
  \/ /\ CannotSend(c, q, FALSE)
     /\ EndQuery(c, k, q.error_status, "none", q.question.name)

(* Back from the greenlet, the query leaves the channel.                   *)
FreeQuery ==
  /\ active = Loop /\ ending # 0
  /\ channel' = Freed(channel, ending)
  /\ ending' = 0
  /\ UNCHANGED <<last_timeout_processed, processVars, greenletVars>>
-----------------------------------------------------------------------------
(* processfds.                                                             *)
Turn(where) == active = Loop /\ ending = 0 /\ channel.stolen = <<>> /\ pc = where

Quiet == Turn("poll") /\ \A g \in Greenlet : place[g] # "ready"

Idle == Quiet /\ \A f \in Socket : channel.age[f] < 2

(* Mutant: a socket is watched for one event.                              *)
TimedOnce(c, f) == [c EXCEPT !.age[f] = 0, !.open = @ \ {f}]

(* update_event_timeout.                                                   *)
Timed(c, f) == [c EXCEPT !.age[f] = 0]

(* process_callback for a UDP socket that is ready ...                     *)
Readable(s) ==
  /\ Idle /\ <<"udp", s>> \in channel.open
  /\ pc' = "read" /\ at' = s
  /\ channel' = Timed(channel, <<"udp", s>>)
  /\ UNCHANGED <<last_timeout_processed, due, ending, greenletVars>>

(* ... for a connection the server closes (read_tcp_data) ...              *)
Hangup(s) ==
  /\ Idle /\ <<"tcp", s>> \in channel.open
  /\ pc' = "expire"
  /\ channel' = Stolen(Timed(channel, <<"tcp", s>>), s)
  /\ UNCHANGED <<last_timeout_processed, at, due, ending, greenletVars>>

(* ... when CHECK_INTERVAL is over ...                                     *)
Interval(f) ==
  /\ Quiet /\ channel.age[f] = 2
  /\ pc' = "expire"
  /\ channel' = Timed(channel, f)
  /\ UNCHANGED <<last_timeout_processed, at, due, ending, greenletVars>>

(* ares_destroy: the callback of every query is called, and wakes nobody.  *)
Destroyed(c) == {c.query[k].who : k \in {j \in Key : c.query[j].live}}

(* ... and for an error: the channel is destroyed with all its queries,    *)
(* whose greenlets are not told, and an exception ends run() or whatever   *)
(* the main greenlet waits for.                                            *)
Unreachable(s) ==
  /\ Idle
  /\ s \in Fragile /\ \E f \in channel.open : f[2] = s
  /\ channel' = Fresh
  /\ last_timeout_processed' = 0
  /\ abandoned' = abandoned \cup (Destroyed(channel) \ {Main})
  /\ active' = Main
  /\ place' = [place EXCEPT ![Main] = "run"]
  /\ IF place[Main] = "wait"
       THEN /\ result' = [result EXCEPT ![Main] = Ended("gaierror", lookup[Main].name)]
            /\ lookup' = [lookup EXCEPT ![Main] = Over(@.name)]
       ELSE UNCHANGED <<result, lookup>>
  /\ UNCHANGED <<processVars, ending, lookups>>

(* Mutant: the id alone.                                                   *)
MatchingById(answer) == {k \in Live : channel.query[k].id = answer.id}

(* process_answer: the first query with its id and its question.           *)
Matching(answer) ==
  {k \in Live : channel.query[k].id = answer.id /\ channel.query[k].question = answer.question}

IsFirst(list, k, keys) == \E i \in DOMAIN list :
  list[i] = k /\ \A j \in 1 .. (i - 1) : list[j] \notin keys

ProcessAnswer(s) ==
  /\ Turn("read") /\ at = s
  /\ \E answer \in channel.asked[s], kind \in Answer, k \in Live :
       LET q == channel.query[k]
       IN /\ k \in Matching(answer) /\ IsFirst(channel.all_queries, k, Matching(answer))
          /\ CASE kind = "truncated" ->
                    /\ ~q.using_tcp
                    /\ LET r == [q EXCEPT !.using_tcp = TRUE]
                       IN \/ /\ channel' \in Sendings(channel, k, r, TRUE)
                             /\ UNCHANGED <<ending, active, place, lookup, result>>
                          \/ /\ CannotSend(channel, r, TRUE)
                             /\ EndQuery(channel, k, q.error_status, "none", answer.question.name)
               [] kind = "servfail" ->
                    LET r == [q EXCEPT !.skip = Skipping(q, {s})]
                    IN IF q.server = s THEN NextServer(channel, k, r)
                       ELSE /\ channel' = [channel EXCEPT !.query[k] = r]
                            /\ UNCHANGED <<ending, active, place, lookup, result>>
               [] OTHER -> EndQuery(channel, k, StatusOf(kind), kind, answer.question.name)
  /\ UNCHANGED <<last_timeout_processed, processVars, lookups, abandoned>>

(* No more packets, or an error of the socket (handle_error).              *)
ReadDone ==
  /\ Turn("read")
  /\ pc' = "expire"
  /\ \/ UNCHANGED channel
     \/ at \in Fragile /\ channel' = Stolen(channel, at)
  /\ UNCHANGED <<last_timeout_processed, at, due, ending, greenletVars>>

(* handle_error's loop: each query of the list moves on.                   *)
MoveOn ==
  /\ active = Loop /\ ending = 0 /\ channel.stolen # <<>>
  /\ LET k == Head(channel.stolen)
         q == channel.query[k]
     IN NextServer(channel, k, [q EXCEPT !.skip = Skipping(q, {q.server})])
  /\ UNCHANGED <<last_timeout_processed, processVars, lookups, abandoned>>

(* process_timeouts: the buckets of the seconds since the last time, the   *)
(* current one's as far as it has passed, each from its first query on.    *)
Expired(list) ==
  {k \in Live : Occurs(list, k)
                /\ channel.query[k].timeout \in last_timeout_processed .. 0}

Precedes(list, j, k) ==
  LET s == channel.query[j].timeout
      t == channel.query[k].timeout
  IN \/ s < t
     \/ s = t /\ \E m \in DOMAIN list, n \in DOMAIN list : m < n /\ list[m] = j /\ list[n] = k

ProcessTimeouts ==
  /\ Turn("expire")
  /\ LET list == channel.queries_by_timeout
     IN \E early \in SUBSET {k \in Expired(list) : channel.query[k].timeout = 0} :
          LET over == Expired(list) \ early
          IN /\ due' \in [1 .. Cardinality(over) -> over]
             /\ \A k \in over : Occurs(due', k)
             /\ \A m, n \in DOMAIN due' : m < n => Precedes(list, due'[m], due'[n])
  /\ last_timeout_processed' = 0
  /\ pc' = "timeouts"
  /\ UNCHANGED <<channel, at, ending, greenletVars>>

TimedOut ==
  /\ Turn("timeouts") /\ due # <<>>
  /\ due' = Tail(due)
  /\ LET k == Head(due)
     IN NextServer(channel, k, [channel.query[k] EXCEPT !.error_status = "ETIMEOUT"])
  /\ UNCHANGED <<last_timeout_processed, pc, at, lookups, abandoned>>

TimeoutsDone ==
  /\ Turn("timeouts") /\ due = <<>>
  /\ pc' = "broken" /\ at' = 1
  /\ UNCHANGED <<channel, last_timeout_processed, due, ending, greenletVars>>

(* process_broken_connections, server by server.                           *)
BrokenConnection ==
  /\ Turn("broken")
  /\ channel' = IF at \in channel.is_broken THEN Stolen(channel, at) ELSE channel
  /\ IF at < NServers THEN at' = at + 1 /\ UNCHANGED pc ELSE pc' = "poll" /\ at' = 1
  /\ UNCHANGED <<last_timeout_processed, due, ending, greenletVars>>
-----------------------------------------------------------------------------
Earlier(second) == IF second > 0 - Lag THEN second - 1 ELSE 0 - Lag

(* The next second: the loop has done all there was to do.                 *)
Tick ==
  /\ Idle
  /\ last_timeout_processed' = Earlier(last_timeout_processed)
  /\ channel' = [channel EXCEPT
       !.query = [k \in Key |-> IF k \in Live THEN [channel.query[k] EXCEPT !.timeout = Earlier(@)]
                              ELSE NoQuery],
       !.age = [f \in Socket |-> IF f \in channel.open THEN @[f] + 1 ELSE 0]]
  /\ UNCHANGED <<processVars, ending, greenletVars>>

Process ==
  \/ FreeQuery \/ ReadDone \/ MoveOn \/ ProcessTimeouts \/ TimedOut
  \/ TimeoutsDone \/ BrokenConnection
  \/ \E s \in Server : ProcessAnswer(s)

Events == \E s \in Server : Readable(s) \/ Hangup(s) \/ Unreachable(s)

Intervals == \E f \in Socket : Interval(f)

Code == \E g \in Greenlet : Lookup(g) \/ End(g) \/ Start(g)

Next == Process \/ Events \/ Intervals \/ Code \/ Tick

Spec == Init /\ [][Next]_vars

(* The one thread goes on when it does not poll (what WF_vars(Next) says,  *)
(* in a form that is cheaper to evaluate), and time passes.                *)
FairSpec == Spec /\ ([]<>Idle \/ []<><<TRUE>>_vars) /\ SF_vars(Tick)
-----------------------------------------------------------------------------
(* A query in flight can be found by whatever may end it: it is in its     *)
(* server's list and no other (or in the one that handle_error goes        *)
(* through), there is a socket to that server that picoev watches, and it  *)
(* is in a bucket of a second process_timeouts has yet to come to.         *)
QueriesHeld ==
  \A k \in Live \ {ending} :
    LET q == channel.query[k]
    IN /\ \A s \in Server : Occurs(channel.queries_to_server[s], k) <=> s = q.server /\ ~Occurs(channel.stolen, k)
       /\ Occurs(channel.stolen, k) \/ <<IF q.using_tcp THEN "tcp" ELSE "udp", q.server>> \in channel.open
       /\ Occurs(channel.queries_by_timeout, k)
       /\ q.timeout >= last_timeout_processed \/ Occurs(due, k)

(* What a lookup is given is about the name it is for, however late the    *)
(* answers to earlier ones are, and whatever ids the queries have.         *)
ResultIsAnswer ==
  \A g \in Greenlet : result[g].status = "SUCCESS" => result[g].about = lookup[g].name

(* Every lookup ends, unless its query is destroyed: however many servers  *)
(* fail, keep silent or answer nonsense.                                   *)
LookupsEnd ==
  \A g \in Greenlet : place[g] = "wait" ~> place[g] # "wait" \/ g \in abandoned
=============================================================================
