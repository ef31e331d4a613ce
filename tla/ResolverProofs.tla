--------------------------- MODULE ResolverProofs ---------------------------
(***************************************************************************)
(* Name lookups, for any number of greenlets, servers and tries: a query   *)
(* in flight can be found by whatever may end it, and what a lookup is     *)
(* given is about the name it is for.                                      *)
(***************************************************************************)
EXTENDS Resolver, FiniteSetTheorems, SequenceTheorems, TLAPS

(* What is looked up is an address or a name, in a way of searching it.    *)
IsLookup(l) ==
  DOMAIN l = {"kind", "name", "dots", "type", "single", "trying_as_is", "next_domain",
              "status_as_is", "ever_got_nodata"}

(* The greenlets look up what lookup.c asks c-ares for, and a server has   *)
(* some seconds to answer in.                                              *)
Sensible ==
  /\ \A g \in Greenlet, n \in Nat : \A l \in Wanted(g, n) : IsLookup(l)
  /\ \A try \in 0 .. (NServers * Tries - 1) : Delay(try \div NServers) \subseteq Nat

(* A list is of queries, and each is in it once.                           *)
Distinct(list) == \A i, j \in DOMAIN list : list[i] = list[j] => i = j

IsList(list) == list \in Seq(Key) /\ Distinct(list)

LiveIn(c) == {k \in Key : c.query[k].live}

IsQuery(q) ==
  /\ DOMAIN q = {"live", "who", "id", "question", "server", "try_count", "skip", "using_tcp",
                 "tcp_sent", "timeout", "error_status"}
  /\ q.live = TRUE /\ q.who \in Greenlet /\ q.server \in Server
  /\ q.try_count \in Nat /\ q.timeout \in Int

(* The lists of a channel are of its live queries; all_queries is of all.  *)
Listed(c) ==
  /\ DOMAIN c = {"query", "all_queries", "queries_by_timeout", "stolen", "queries_to_server",
                 "open", "is_broken", "qhead", "asked", "age"}
  /\ DOMAIN c.query = Key /\ \A k \in LiveIn(c) : IsQuery(c.query[k])
  /\ IsList(c.all_queries) /\ IsList(c.queries_by_timeout) /\ IsList(c.stolen)
  /\ DOMAIN c.queries_to_server = Server /\ \A s \in Server : IsList(c.queries_to_server[s])
  /\ \A k : Occurs(c.queries_by_timeout, k) \/ Occurs(c.stolen, k) => k \in LiveIn(c)
  /\ \A s \in Server, k \in Key : Occurs(c.queries_to_server[s], k) => k \in LiveIn(c)

AllListed(c) == \A k : Occurs(c.all_queries, k) <=> k \in LiveIn(c)

(* A query is where QueriesHeld says, but for its time.                    *)
Home(q) == <<IF q.using_tcp THEN "tcp" ELSE "udp", q.server>>

HeldIn(c, k) ==
  /\ \A s \in Server :
       Occurs(c.queries_to_server[s], k) <=> s = c.query[k].server /\ ~Occurs(c.stolen, k)
  /\ Occurs(c.stolen, k) \/ Home(c.query[k]) \in c.open
  /\ Occurs(c.queries_by_timeout, k)
-----------------------------------------------------------------------------
LEMMA EmptyList ==
  /\ IsList(<<>>)
  /\ \A k : ~Occurs(<<>>, k) /\ Without(<<>>, k) = <<>>
<1>1. <<>> \in Seq(Key) /\ DOMAIN <<>> = {}
  OBVIOUS
<1> QED
  BY <1>1 DEF IsList, Distinct, Occurs, Without

LEMMA AppendList ==
  ASSUME NEW s, IsList(s), NEW k \in Key, ~Occurs(s, k)
  PROVE  /\ IsList(Append(s, k))
         /\ \A j : Occurs(Append(s, k), j) <=> Occurs(s, j) \/ j = k
<1>1. /\ s \in Seq(Key) /\ Len(s) \in Nat /\ DOMAIN s = 1 .. Len(s)
      /\ Append(s, k) \in Seq(Key) /\ DOMAIN Append(s, k) = 1 .. Len(s) + 1
      /\ \A i \in 1 .. Len(s) : Append(s, k)[i] = s[i]
      /\ Append(s, k)[Len(s) + 1] = k
  BY DEF IsList
<1>2. 1 .. Len(s) + 1 = (1 .. Len(s)) \cup {Len(s) + 1} /\ Len(s) + 1 \notin 1 .. Len(s)
  BY <1>1
<1> DEFINE t == Append(s, k)
<1> HIDE DEF t
<1>3. Distinct(t)
  <2> SUFFICES ASSUME NEW i \in DOMAIN t, NEW j \in DOMAIN t, t[i] = t[j] PROVE i = j
    BY DEF Distinct
  <2>1. \A n \in 1 .. Len(s) : s[n] # k
    BY <1>1, Zenon DEF Occurs
  <2>2. /\ (i \in 1 .. Len(s) /\ t[i] = s[i]) \/ (i = Len(s) + 1 /\ t[i] = k)
        /\ (j \in 1 .. Len(s) /\ t[j] = s[j]) \/ (j = Len(s) + 1 /\ t[j] = k)
    BY <1>1, <1>2, Zenon DEF t
  <2> QED
    BY <1>1, <2>1, <2>2, Zenon DEF IsList, Distinct
<1>4. \A j : Occurs(t, j) <=> Occurs(s, j) \/ j = k
  BY <1>1, <1>2, Zenon DEF Occurs, t
<1> QED
  BY <1>1, <1>3, <1>4 DEF IsList, t

LEMMA WithoutList ==
  ASSUME NEW s, IsList(s), NEW k
  PROVE  /\ IsList(Without(s, k))
         /\ \A j : Occurs(Without(s, k), j) <=> Occurs(s, j) /\ j # k
         /\ ~Occurs(s, k) => Without(s, k) = s
<1>1. CASE ~Occurs(s, k)
  BY <1>1 DEF Without, Occurs
<1>2. CASE Occurs(s, k)
  <2> DEFINE i == CHOOSE n \in DOMAIN s : s[n] = k
             t == [j \in 1 .. (Len(s) - 1) |-> s[IF j < i THEN j ELSE j + 1]]
  <2>1. i \in DOMAIN s /\ s[i] = k
    BY <1>2 DEF Occurs
  <2>2. Without(s, k) = t
    BY <1>2 DEF Without
  <2>3. s \in Seq(Key) /\ Len(s) \in Nat /\ DOMAIN s = 1 .. Len(s) /\ \A j \in 1 .. Len(s) : s[j] \in Key
    BY DEF IsList
  <2> HIDE DEF i
  <2>4. Len(s) - 1 \in Nat /\ i \in 1 .. Len(s)
    BY <2>1, <2>3
  <2>5. \A j \in 1 .. (Len(s) - 1) :
          /\ (IF j < i THEN j ELSE j + 1) \in (1 .. Len(s)) \ {i}
          /\ t[j] = s[IF j < i THEN j ELSE j + 1]
    BY <2>4
  <2>6. t \in Seq(Key) /\ DOMAIN t = 1 .. (Len(s) - 1)
    <3>1. t \in [1 .. (Len(s) - 1) -> Key]
      BY <2>3, <2>5
    <3> HIDE DEF t
    <3>2. t \in Seq(Key)
      BY <2>4, <3>1, SeqDef
    <3> QED
      BY <3>1, <3>2
  <2>7. Distinct(t)
    <3> SUFFICES ASSUME NEW m \in 1 .. (Len(s) - 1), NEW n \in 1 .. (Len(s) - 1), t[m] = t[n]
                 PROVE  m = n
      BY <2>6 DEF Distinct
    <3>1. (IF m < i THEN m ELSE m + 1) = (IF n < i THEN n ELSE n + 1)
      BY <2>3, <2>5 DEF IsList, Distinct
    <3> QED
      BY <2>4, <3>1
  <2>8. ASSUME NEW j, Occurs(t, j) PROVE Occurs(s, j) /\ j # k
    <3>1. PICK m \in 1 .. (Len(s) - 1) : t[m] = j
      BY <2>6, <2>8 DEF Occurs
    <3>2. PICK n \in (1 .. Len(s)) \ {i} : s[n] = j
      BY <2>5, <3>1
    <3> QED
      BY <2>1, <2>3, <3>2 DEF Occurs, IsList, Distinct
  <2>9. ASSUME NEW j, Occurs(s, j), j # k PROVE Occurs(t, j)
    <3>1. PICK n \in 1 .. Len(s) : s[n] = j /\ n # i
      BY <2>1, <2>3, <2>9 DEF Occurs
    <3> DEFINE m == IF n < i THEN n ELSE n - 1
    <3>2. m \in 1 .. (Len(s) - 1) /\ (IF m < i THEN m ELSE m + 1) = n
      BY <2>4, <3>1
    <3>3. t[m] = j
      BY <2>5, <3>1, <3>2
    <3> QED
      BY <2>6, <3>2, <3>3 DEF Occurs
  <2> QED
    BY <1>2, <2>2, <2>6, <2>7, <2>8, <2>9 DEF IsList
<1> QED
  BY <1>1, <1>2

LEMMA Removed ==
  ASSUME NEW s, IsList(s), NEW k, NEW t, t = Without(s, k)
  PROVE  /\ IsList(t)
         /\ \A j : Occurs(t, j) <=> Occurs(s, j) /\ j # k
         /\ s = <<>> => t = <<>>
<1>1. /\ IsList(Without(s, k))
      /\ \A j : Occurs(Without(s, k), j) <=> Occurs(s, j) /\ j # k
  BY WithoutList
<1>2. s = <<>> => t = <<>>
  BY EmptyList
<1> HIDE DEF Without
<1> QED
  BY <1>1, <1>2, SMT

LEMMA TailList ==
  ASSUME NEW s, IsList(s), s # <<>>
  PROVE  /\ Head(s) \in Key /\ Occurs(s, Head(s)) /\ IsList(Tail(s))
         /\ \A j : Occurs(Tail(s), j) <=> Occurs(s, j) /\ j # Head(s)
<1>1. /\ s \in Seq(Key) /\ Len(s) \in Nat \ {0} /\ DOMAIN s = 1 .. Len(s) /\ Head(s) = s[1]
      /\ Tail(s) \in Seq(Key) /\ DOMAIN Tail(s) = 1 .. Len(s) - 1
      /\ \A i \in 1 .. Len(s) - 1 : Tail(s)[i] = s[i + 1]
      /\ Head(s) \in Key
  BY DEF IsList
<1>2. Occurs(s, Head(s))
  BY <1>1 DEF Occurs
<1>3. Distinct(Tail(s))
  BY <1>1 DEF Distinct, IsList
<1>4. ASSUME NEW j, Occurs(Tail(s), j) PROVE Occurs(s, j) /\ j # Head(s)
  <2>1. PICK i \in 1 .. Len(s) - 1 : s[i + 1] = j
    BY <1>1, <1>4 DEF Occurs
  <2>2. i + 1 \in 1 .. Len(s) /\ 1 \in 1 .. Len(s) /\ i + 1 # 1
    BY <1>1
  <2> QED
    BY <1>1, <2>1, <2>2 DEF Occurs, IsList, Distinct
<1>5. ASSUME NEW j, Occurs(s, j), j # Head(s) PROVE Occurs(Tail(s), j)
  <2>1. PICK i \in 1 .. Len(s) : s[i] = j /\ i # 1
    BY <1>1, <1>5 DEF Occurs
  <2>2. i - 1 \in 1 .. Len(s) - 1 /\ Tail(s)[i - 1] = j
    BY <1>1, <2>1
  <2> QED
    BY <1>1, <2>2 DEF Occurs
<1> QED
  BY <1>1, <1>2, <1>3, <1>4, <1>5 DEF IsList
-----------------------------------------------------------------------------
LEMMA UnlistedFields ==
  ASSUME NEW c, Listed(c), NEW k, NEW u, u = Unlisted(c, k)
  PROVE  /\ DOMAIN u = DOMAIN c /\ u.query = c.query /\ u.all_queries = c.all_queries
         /\ u.open = c.open
         /\ u.queries_by_timeout = Without(c.queries_by_timeout, k)
         /\ u.stolen = Without(c.stolen, k)
         /\ DOMAIN u.queries_to_server = Server
         /\ \A s \in Server : u.queries_to_server[s] = Without(c.queries_to_server[s], k)
  BY DEF Unlisted, Listed

LEMMA WatchedFields ==
  ASSUME NEW c, "open" \in DOMAIN c, "age" \in DOMAIN c, NEW f, NEW w, w = Watched(c, f)
  PROVE  /\ DOMAIN w = DOMAIN c /\ w.open = c.open \cup {f}
         /\ \A x \in DOMAIN c \ {"open", "age"} : w[x] = c[x]
  BY DEF Watched

LEMMA SentFields ==
  ASSUME NEW c, Listed(c), NEW k \in Key, NEW q, IsQuery(q), NEW try \in Int, NEW tried, NEW d,
         NEW e, e = Sent(c, k, q, try, tried, d), NEW s, s = ServerOfTry(q, try)
  PROVE  /\ s \in Server /\ DOMAIN e = DOMAIN c /\ e.all_queries = c.all_queries
         /\ DOMAIN e.query = Key /\ \A j \in Key : j # k => e.query[j] = c.query[j]
         /\ DOMAIN e.query[k] = DOMAIN q /\ e.query[k].server = s
         /\ e.query[k].try_count = try /\ e.query[k].timeout = d
         /\ \A x \in {"live", "who", "question", "using_tcp"} : e.query[k][x] = q[x]
         /\ e.stolen = Without(c.stolen, k)
         /\ e.queries_by_timeout = Append(Without(c.queries_by_timeout, k), k)
         /\ DOMAIN e.queries_to_server = Server
         /\ e.queries_to_server[s] = Append(Without(c.queries_to_server[s], k), k)
         /\ \A r \in Server : r # s => e.queries_to_server[r] = Without(c.queries_to_server[r], k)
         /\ e.open = c.open \cup {<<IF q.using_tcp THEN "tcp" ELSE "udp", s>>}
<1>1. s \in Server
  <2>1. (q.server - 1 + try - q.try_count) \in Int /\ NServers \in Nat \ {0}
    BY ResolverAssumption DEF IsQuery, Server
  <2> QED
    BY <2>1 DEF ServerOfTry, Server
<1> DEFINE f == <<IF q.using_tcp THEN "tcp" ELSE "udp", s>>
           v == Unlisted(c, k)
           u == Watched(v, f)
           r == [q EXCEPT !.server = s, !.try_count = try, !.timeout = d,
                               !.skip = Skipping(q, tried),
                               !.tcp_sent = IF q.using_tcp THEN @ \cup {s} ELSE @]
           qhead == IF q.using_tcp THEN u.qhead \cup {<<s, k>>} ELSE u.qhead
           asked == IF q.using_tcp THEN u.asked[s]
                    ELSE u.asked[s] \cup {[id |-> q.id, question |-> q.question]}
<1>2. e = [u EXCEPT !.query[k] = r,
        !.queries_by_timeout = Append(@, k),
        !.queries_to_server[s] = Append(@, k),
        !.qhead = qhead,
        !.asked[s] = asked]
  BY DEF Sent
<1>3. /\ DOMAIN r = DOMAIN q /\ r.server = s /\ r.try_count = try /\ r.timeout = d
      /\ \A x \in {"live", "who", "question", "using_tcp"} : r[x] = q[x]
  BY DEF IsQuery
<1> HIDE DEF r, qhead, asked, u, v
<1>4. /\ DOMAIN v = DOMAIN c /\ v.query = c.query /\ v.all_queries = c.all_queries
      /\ v.open = c.open
      /\ v.queries_by_timeout = Without(c.queries_by_timeout, k)
      /\ v.stolen = Without(c.stolen, k)
      /\ DOMAIN v.queries_to_server = Server
      /\ \A t \in Server : v.queries_to_server[t] = Without(c.queries_to_server[t], k)
  BY UnlistedFields DEF v
<1>5. /\ DOMAIN u = DOMAIN v /\ u.open = v.open \cup {f}
      /\ \A x \in DOMAIN v \ {"open", "age"} : u[x] = v[x]
  BY <1>4, WatchedFields DEF Listed, u
<1>6. DOMAIN c = {"query", "all_queries", "queries_by_timeout", "stolen", "queries_to_server",
                 "open", "is_broken", "qhead", "asked", "age"} /\ DOMAIN c.query = Key
  BY DEF Listed
<1>7. /\ DOMAIN u = DOMAIN c /\ u.query = c.query /\ u.all_queries = c.all_queries
      /\ u.open = c.open \cup {f}
      /\ u.queries_by_timeout = Without(c.queries_by_timeout, k)
      /\ u.stolen = Without(c.stolen, k) /\ u.queries_to_server = v.queries_to_server
  BY <1>4, <1>5, <1>6
<1>8. /\ DOMAIN e = DOMAIN c /\ e.query = [c.query EXCEPT ![k] = r]
      /\ e.all_queries = c.all_queries /\ e.stolen = u.stolen /\ e.open = u.open
      /\ e.queries_by_timeout = Append(u.queries_by_timeout, k)
      /\ e.queries_to_server = [v.queries_to_server EXCEPT ![s] = Append(@, k)]
  <2>1. DOMAIN e = DOMAIN u /\ e.all_queries = u.all_queries /\ e.stolen = u.stolen /\ e.open = u.open
    BY <1>2
  <2>2. e.query = [u.query EXCEPT ![k] = r]
    BY <1>2, <1>6, <1>7
  <2>3. e.queries_by_timeout = Append(u.queries_by_timeout, k)
    BY <1>2, <1>6, <1>7
  <2>4. e.queries_to_server = [u.queries_to_server EXCEPT ![s] = Append(@, k)]
    BY <1>2, <1>6, <1>7
  <2> QED
    BY <1>7, <2>1, <2>2, <2>3, <2>4
<1>9. /\ DOMAIN e.query = Key /\ e.query[k] = r /\ \A j \in Key : j # k => e.query[j] = c.query[j]
  BY <1>6, <1>8
<1>10. /\ DOMAIN e.queries_to_server = Server
       /\ e.queries_to_server[s] = Append(Without(c.queries_to_server[s], k), k)
       /\ \A t \in Server : t # s => e.queries_to_server[t] = Without(c.queries_to_server[t], k)
  BY <1>1, <1>4, <1>8
<1> QED
  BY <1>1, <1>3, <1>7, <1>8, <1>9, <1>10

(* A query that is sent is where QueriesHeld says, and the others stay.    *)
LEMMA SentHeld ==
  ASSUME NEW c, Listed(c), NEW k \in Key, NEW q, IsQuery(q), NEW try \in Nat, NEW tried,
         NEW d \in Nat, NEW e, e = Sent(c, k, q, try, tried, d)
  PROVE  /\ Listed(e) /\ LiveIn(e) = LiveIn(c) \cup {k} /\ e.all_queries = c.all_queries
         /\ \A j \in Key : j # k => e.query[j] = c.query[j]
         /\ e.query[k].who = q.who /\ e.query[k].question = q.question /\ e.query[k].timeout = d
         /\ \A j : Occurs(e.stolen, j) <=> Occurs(c.stolen, j) /\ j # k
         /\ c.stolen = <<>> => e.stolen = <<>>
         /\ \A j \in Key : j # k /\ HeldIn(c, j) => HeldIn(e, j)
         /\ HeldIn(e, k)
<1> DEFINE s == ServerOfTry(q, try)
<1> HIDE DEF s
<1>1. /\ s \in Server /\ DOMAIN e = DOMAIN c /\ e.all_queries = c.all_queries
      /\ DOMAIN e.query = Key /\ \A j \in Key : j # k => e.query[j] = c.query[j]
      /\ DOMAIN e.query[k] = DOMAIN q /\ e.query[k].server = s
      /\ e.query[k].try_count = try /\ e.query[k].timeout = d
      /\ \A x \in {"live", "who", "question", "using_tcp"} : e.query[k][x] = q[x]
      /\ e.stolen = Without(c.stolen, k)
      /\ e.queries_by_timeout = Append(Without(c.queries_by_timeout, k), k)
      /\ DOMAIN e.queries_to_server = Server
      /\ e.queries_to_server[s] = Append(Without(c.queries_to_server[s], k), k)
      /\ \A r \in Server : r # s => e.queries_to_server[r] = Without(c.queries_to_server[r], k)
      /\ e.open = c.open \cup {<<IF q.using_tcp THEN "tcp" ELSE "udp", s>>}
  BY SentFields DEF s
<1>2. /\ e.query[k].live = TRUE /\ e.query[k].who = q.who /\ e.query[k].question = q.question
      /\ e.query[k].using_tcp = q.using_tcp
  BY <1>1 DEF IsQuery
<1>3. LiveIn(e) = LiveIn(c) \cup {k}
  <2>1. \A j \in Key : e.query[j].live <=> j = k \/ c.query[j].live
    BY <1>1, <1>2
  <2> QED
    BY <2>1 DEF LiveIn
<1>4. IsQuery(e.query[k])
  BY <1>1, <1>2, SMT DEF IsQuery
<1>5. IsList(c.stolen) /\ IsList(c.queries_by_timeout) /\ \A r \in Server : IsList(c.queries_to_server[r])
  BY DEF Listed
<1>6. /\ IsList(e.stolen) /\ \A j : Occurs(e.stolen, j) <=> Occurs(c.stolen, j) /\ j # k
      /\ c.stolen = <<>> => e.stolen = <<>>
  <2>1. e.stolen = Without(c.stolen, k) /\ IsList(c.stolen)
    BY <1>1, <1>5
  <2> QED
    BY <2>1, Removed, Zenon
<1>7. /\ IsList(e.queries_by_timeout)
      /\ \A j : Occurs(e.queries_by_timeout, j) <=> Occurs(c.queries_by_timeout, j) \/ j = k
  <2>1. /\ IsList(Without(c.queries_by_timeout, k))
        /\ \A j : Occurs(Without(c.queries_by_timeout, k), j) <=> Occurs(c.queries_by_timeout, j) /\ j # k
    BY <1>5, WithoutList, Zenon
  <2> DEFINE w == Without(c.queries_by_timeout, k)
  <2>2. e.queries_by_timeout = Append(w, k)
    BY <1>1, Zenon
  <2>3. IsList(w) /\ \A j : Occurs(w, j) <=> Occurs(c.queries_by_timeout, j) /\ j # k
    BY <2>1, Zenon
  <2> HIDE DEF w
  <2>4. IsList(Append(w, k)) /\ \A j : Occurs(Append(w, k), j) <=> Occurs(w, j) \/ j = k
    BY <2>3, AppendList, Zenon
  <2> QED
    BY <2>2, <2>3, <2>4, Zenon
<1>8. ASSUME NEW r \in Server
      PROVE  /\ IsList(e.queries_to_server[r])
             /\ \A j : Occurs(e.queries_to_server[r], j) <=>
                       (Occurs(c.queries_to_server[r], j) /\ j # k) \/ (r = s /\ j = k)
  <2>1. /\ IsList(Without(c.queries_to_server[r], k))
        /\ \A j : Occurs(Without(c.queries_to_server[r], k), j) <=> Occurs(c.queries_to_server[r], j) /\ j # k
    BY <1>5, WithoutList, Zenon
  <2>2. CASE r # s
    BY <1>1, <2>1, <2>2, Zenon
  <2>3. CASE r = s
    <3>1. /\ IsList(Append(Without(c.queries_to_server[r], k), k))
          /\ \A j : Occurs(Append(Without(c.queries_to_server[r], k), k), j)
                    <=> Occurs(Without(c.queries_to_server[r], k), j) \/ j = k
      BY <2>1, AppendList, Zenon
    <3> QED
      BY <1>1, <2>1, <2>3, <3>1, Zenon
  <2> QED
    BY <2>2, <2>3
<1>9. Listed(e)
  <2>1. \A j \in LiveIn(e) : IsQuery(e.query[j])
    BY <1>1, <1>3, <1>4 DEF Listed, LiveIn
  <2>2. \A j : Occurs(e.queries_by_timeout, j) \/ Occurs(e.stolen, j) => j \in LiveIn(e)
    BY <1>3, <1>6, <1>7, Zenon DEF Listed
  <2>3. \A r \in Server, j \in Key : Occurs(e.queries_to_server[r], j) => j \in LiveIn(e)
    BY <1>3, <1>8, Zenon DEF Listed
  <2> QED
    BY <1>1, <1>6, <1>7, <1>8, <2>1, <2>2, <2>3, Zenon DEF Listed
<1>10. ASSUME NEW j \in Key, j # k, HeldIn(c, j) PROVE HeldIn(e, j)
  <2>1. e.query[j] = c.query[j] /\ c.open \subseteq e.open
    BY <1>1, <1>10
  <2> QED
    BY <1>6, <1>7, <1>8, <1>10, <2>1, Zenon DEF HeldIn
<1>11. HeldIn(e, k)
  <2>1. Home(e.query[k]) \in e.open
    BY <1>1, <1>2 DEF Home
  <2>2. ~Occurs(e.stolen, k) /\ \A r \in Server : Occurs(e.queries_to_server[r], k) <=> r = s
    BY <1>6, <1>8, Zenon
  <2> QED
    BY <1>1, <1>7, <2>1, <2>2, Zenon DEF HeldIn
<1> QED
  BY <1>1, <1>2, <1>3, <1>6, <1>9, <1>10, <1>11, Zenon

(* What concerns neither the queries nor their lists nor the sockets.      *)
LEMMA SameLists ==
  ASSUME NEW c, Listed(c), NEW d, DOMAIN d = DOMAIN c,
         d.query = c.query, d.all_queries = c.all_queries, d.stolen = c.stolen, d.open = c.open,
         d.queries_by_timeout = c.queries_by_timeout, d.queries_to_server = c.queries_to_server
  PROVE  /\ Listed(d) /\ LiveIn(d) = LiveIn(c)
         /\ AllListed(d) <=> AllListed(c)
         /\ \A k \in Key : HeldIn(d, k) <=> HeldIn(c, k)
<1>1. LiveIn(d) = LiveIn(c)
  BY DEF LiveIn
<1>2. Listed(d)
  BY <1>1 DEF Listed
<1>3. AllListed(d) <=> AllListed(c)
  BY <1>1 DEF AllListed
<1>4. ASSUME NEW k \in Key PROVE HeldIn(d, k) <=> HeldIn(c, k)
  BY DEF HeldIn
<1> QED
  BY <1>1, <1>2, <1>3, <1>4

(* A query's new skip_server and the like.                                 *)
SameIn(c, d) ==
  /\ DOMAIN d = DOMAIN c /\ DOMAIN d.query = Key
  /\ \A k \in Key : d.query[k].live <=> c.query[k].live
  /\ \A k \in LiveIn(c) :
       /\ DOMAIN d.query[k] = DOMAIN c.query[k] /\ d.query[k].live = TRUE
       /\ \A x \in {"who", "server", "try_count", "timeout", "using_tcp"} :
            d.query[k][x] = c.query[k][x]
  /\ d.all_queries = c.all_queries /\ d.stolen = c.stolen /\ d.open = c.open
  /\ d.queries_by_timeout = c.queries_by_timeout /\ d.queries_to_server = c.queries_to_server

LEMMA SameQueries ==
  ASSUME NEW c, Listed(c), NEW d, SameIn(c, d)
  PROVE  /\ Listed(d) /\ LiveIn(d) = LiveIn(c)
         /\ AllListed(d) <=> AllListed(c)
         /\ \A k \in LiveIn(c) : HeldIn(d, k) <=> HeldIn(c, k)
<1>1. LiveIn(d) = LiveIn(c)
  BY DEF LiveIn, SameIn
<1>2. ASSUME NEW k \in LiveIn(c) PROVE IsQuery(d.query[k]) /\ Home(d.query[k]) = Home(c.query[k])
  BY DEF Listed, IsQuery, Home, SameIn
<1>3. Listed(d)
  BY <1>1, <1>2 DEF Listed, SameIn
<1>4. AllListed(d) <=> AllListed(c)
  BY <1>1 DEF AllListed, SameIn
<1>5. ASSUME NEW k \in LiveIn(c) PROVE HeldIn(d, k) <=> HeldIn(c, k)
  <2>1. Home(d.query[k]) = Home(c.query[k]) /\ d.query[k].server = c.query[k].server
    BY <1>2 DEF SameIn
  <2> QED
    BY <2>1, Zenon DEF HeldIn, SameIn
<1> QED
  BY <1>1, <1>3, <1>4, <1>5

(* A query that is freed is gone, and the others stay.                     *)
LEMMA FreedHeld ==
  ASSUME NEW c, Listed(c), AllListed(c), NEW k \in Key, NEW e, e = Freed(c, k)
  PROVE  /\ Listed(e) /\ AllListed(e) /\ LiveIn(e) = LiveIn(c) \ {k}
         /\ \A j \in Key : j # k => e.query[j] = c.query[j]
         /\ \A j : Occurs(e.stolen, j) <=> Occurs(c.stolen, j) /\ j # k
         /\ c.stolen = <<>> => e.stolen = <<>>
         /\ \A j \in LiveIn(e) : HeldIn(c, j) => HeldIn(e, j)
<1> DEFINE v == Unlisted(c, k)
           u == [v EXCEPT !.query[k] = NoQuery, !.all_queries = Without(@, k)]
<1>1. /\ DOMAIN v = DOMAIN c /\ v.query = c.query /\ v.all_queries = c.all_queries
      /\ v.open = c.open
      /\ v.queries_by_timeout = Without(c.queries_by_timeout, k)
      /\ v.stolen = Without(c.stolen, k)
      /\ DOMAIN v.queries_to_server = Server
      /\ \A s \in Server : v.queries_to_server[s] = Without(c.queries_to_server[s], k)
  BY UnlistedFields
<1> HIDE DEF v
<1>2. /\ DOMAIN u = DOMAIN c /\ u.query = [c.query EXCEPT ![k] = NoQuery]
      /\ u.all_queries = Without(c.all_queries, k) /\ u.open = c.open
      /\ u.queries_by_timeout = v.queries_by_timeout /\ u.stolen = v.stolen
      /\ u.queries_to_server = v.queries_to_server
  BY <1>1 DEF Listed
<1>3. e = IF u.all_queries = <<>>
            THEN [Unwatched(u, Socket) EXCEPT !.is_broken = {}, !.qhead = {}, !.asked = Fresh.asked]
            ELSE u
  BY DEF Freed, v
<1> HIDE DEF u
<1>4. /\ DOMAIN e = DOMAIN c /\ e.query = u.query /\ e.all_queries = u.all_queries
      /\ e.queries_by_timeout = u.queries_by_timeout /\ e.stolen = u.stolen
      /\ e.queries_to_server = u.queries_to_server
      /\ u.all_queries = <<>> \/ e.open = u.open
  <2>1. DOMAIN u = {"query", "all_queries", "queries_by_timeout", "stolen", "queries_to_server",
                 "open", "is_broken", "qhead", "asked", "age"}
    BY <1>2 DEF Listed
  <2>2. CASE u.all_queries = <<>>
    BY <1>2, <1>3, <2>1, <2>2 DEF Unwatched
  <2>3. CASE u.all_queries # <<>>
    BY <1>2, <1>3, <2>3
  <2> QED
    BY <2>2, <2>3
<1>5. /\ DOMAIN e.query = Key /\ e.query[k] = NoQuery
      /\ \A j \in Key : j # k => e.query[j] = c.query[j]
  BY <1>2, <1>4 DEF Listed
<1>6. LiveIn(e) = LiveIn(c) \ {k}
  BY <1>5 DEF LiveIn, NoQuery
<1>7. /\ IsList(c.stolen) /\ IsList(c.queries_by_timeout) /\ IsList(c.all_queries)
      /\ \A s \in Server : IsList(c.queries_to_server[s])
  BY DEF Listed
<1>8. /\ IsList(e.stolen) /\ \A j : Occurs(e.stolen, j) <=> Occurs(c.stolen, j) /\ j # k
      /\ c.stolen = <<>> => e.stolen = <<>>
  <2>1. e.stolen = Without(c.stolen, k)
    BY <1>1, <1>2, <1>4
  <2> QED
    BY <1>7, <2>1, Removed, Zenon
<1>9. /\ IsList(e.queries_by_timeout)
      /\ \A j : Occurs(e.queries_by_timeout, j) <=> Occurs(c.queries_by_timeout, j) /\ j # k
  <2>1. e.queries_by_timeout = Without(c.queries_by_timeout, k)
    BY <1>1, <1>2, <1>4
  <2> QED
    BY <1>7, <2>1, Removed, Zenon
<1>10. /\ IsList(e.all_queries)
       /\ \A j : Occurs(e.all_queries, j) <=> Occurs(c.all_queries, j) /\ j # k
  <2>1. e.all_queries = Without(c.all_queries, k)
    BY <1>2, <1>4
  <2> QED
    BY <1>7, <2>1, Removed, Zenon
<1>11. ASSUME NEW s \in Server
       PROVE  /\ IsList(e.queries_to_server[s])
              /\ \A j : Occurs(e.queries_to_server[s], j) <=> Occurs(c.queries_to_server[s], j) /\ j # k
  <2>1. e.queries_to_server[s] = Without(c.queries_to_server[s], k)
    BY <1>1, <1>2, <1>4
  <2> DEFINE old == c.queries_to_server[s]
             new == e.queries_to_server[s]
  <2>2. new = Without(old, k) /\ IsList(old)
    BY <1>7, <2>1
  <2> HIDE DEF old, new
  <2>3. IsList(new) /\ \A j : Occurs(new, j) <=> Occurs(old, j) /\ j # k
    BY <2>2, Removed, Zenon
  <2> QED
    BY <2>3 DEF old, new
<1>12. Listed(e)
  <2>1. \A j \in LiveIn(e) : IsQuery(e.query[j])
    BY <1>5, <1>6 DEF Listed, LiveIn
  <2>2. \A j : Occurs(e.queries_by_timeout, j) \/ Occurs(e.stolen, j) => j \in LiveIn(e)
    BY <1>6, <1>8, <1>9 DEF Listed
  <2>3. \A s \in Server, j \in Key : Occurs(e.queries_to_server[s], j) => j \in LiveIn(e)
    BY <1>6, <1>11 DEF Listed
  <2>4. DOMAIN e.queries_to_server = Server /\ DOMAIN e = DOMAIN c
    BY <1>1, <1>2, <1>4
  <2> QED
    BY <1>5, <1>8, <1>9, <1>10, <1>11, <2>1, <2>2, <2>3, <2>4, Zenon DEF Listed
<1>13. AllListed(e)
  BY <1>6, <1>10 DEF AllListed
<1>14. ASSUME NEW j \in LiveIn(e), HeldIn(c, j) PROVE HeldIn(e, j)
  <2>1. j \in Key /\ j # k /\ e.query[j] = c.query[j]
    BY <1>5, <1>6 DEF LiveIn
  <2>2. u.all_queries # <<>>
    <3>1. Occurs(u.all_queries, j)
      BY <1>4, <1>13, Zenon DEF AllListed
    <3> QED
      BY <3>1, EmptyList, Zenon
  <2>3. e.open = c.open
    BY <1>2, <1>4, <2>2
  <2> QED
    BY <1>8, <1>9, <1>11, <1>14, <2>1, <2>3, Zenon DEF HeldIn
<1> QED
  BY <1>5, <1>6, <1>8, <1>12, <1>13, <1>14, Zenon

(* The queries that handle_error takes from a server are in its list.      *)
LEMMA StolenHeld ==
  ASSUME NEW c, Listed(c), AllListed(c), c.stolen = <<>>, NEW s \in Server, NEW e, e = Stolen(c, s)
  PROVE  /\ Listed(e) /\ AllListed(e) /\ LiveIn(e) = LiveIn(c)
         /\ \A k \in LiveIn(c), x \in {"who", "question", "timeout"} : e.query[k][x] = c.query[k][x]
         /\ \A k \in LiveIn(c) : HeldIn(c, k) => HeldIn(e, k)
<1> DEFINE fs == {<<"udp", s>>, <<"tcp", s>>}
           u == Unwatched(c, fs)
           query == [k \in Key |-> IF c.query[k].live
                                     THEN [c.query[k] EXCEPT !.tcp_sent = @ \ {s}] ELSE NoQuery]
           d == Closed(c, s)
<1>1. DOMAIN c = {"query", "all_queries", "queries_by_timeout", "stolen", "queries_to_server",
                  "open", "is_broken", "qhead", "asked", "age"}
  BY DEF Listed
<1>2. /\ DOMAIN u = DOMAIN c /\ u.open = c.open \ fs
      /\ \A x \in DOMAIN c \ {"open", "age"} : u[x] = c[x]
  BY <1>1 DEF Unwatched
<1> HIDE DEF u
<1>3. d = [u EXCEPT !.is_broken = @ \ {s}, !.qhead = {r \in @ : r[1] # s}, !.asked[s] = {},
            !.query = query]
  BY DEF Closed, u
<1> HIDE DEF query, d
<1>4. /\ DOMAIN d = DOMAIN c /\ d.query = query /\ d.open = c.open \ fs
      /\ d.all_queries = c.all_queries /\ d.queries_by_timeout = c.queries_by_timeout
      /\ d.stolen = c.stolen /\ d.queries_to_server = c.queries_to_server
  BY <1>1, <1>2, <1>3
<1>5. e = [d EXCEPT !.stolen = d.queries_to_server[s], !.queries_to_server[s] = <<>>]
  BY DEF Stolen, d
<1>6. /\ DOMAIN e = DOMAIN c /\ e.query = query /\ e.open = c.open \ fs
      /\ e.all_queries = c.all_queries /\ e.queries_by_timeout = c.queries_by_timeout
      /\ e.stolen = c.queries_to_server[s]
      /\ e.queries_to_server = [c.queries_to_server EXCEPT ![s] = <<>>]
  BY <1>1, <1>4, <1>5
<1>7. /\ DOMAIN query = Key /\ \A k \in Key \ LiveIn(c) : query[k] = NoQuery
      /\ \A k \in LiveIn(c) : query[k] = [c.query[k] EXCEPT !.tcp_sent = @ \ {s}]
  BY DEF query, LiveIn
<1>8. ASSUME NEW k \in LiveIn(c)
      PROVE  /\ DOMAIN query[k] = DOMAIN c.query[k]
             /\ \A x \in {"live", "who", "question", "server", "try_count", "timeout", "using_tcp"} :
                  query[k][x] = c.query[k][x]
  <2> DEFINE q == c.query[k]
             r == query[k]
  <2>1. IsQuery(q) /\ r = [q EXCEPT !.tcp_sent = @ \ {s}]
    BY <1>7 DEF Listed
  <2> HIDE DEF q, r
  <2>2. DOMAIN r = DOMAIN q /\ \A x \in DOMAIN q \ {"tcp_sent"} : r[x] = q[x]
    BY <2>1
  <2>3. {"live", "who", "question", "server", "try_count", "timeout", "using_tcp"}
        \subseteq DOMAIN q \ {"tcp_sent"}
    BY <2>1 DEF IsQuery
  <2> QED
    BY <2>2, <2>3 DEF q, r
<1>9. LiveIn(e) = LiveIn(c)
  BY <1>6, <1>7, <1>8 DEF LiveIn, NoQuery
<1>10. ASSUME NEW k \in LiveIn(c) PROVE IsQuery(e.query[k]) /\ Home(e.query[k]) = Home(c.query[k])
  BY <1>6, <1>8 DEF Listed, IsQuery, Home
<1>11. /\ DOMAIN e.queries_to_server = Server
       /\ e.queries_to_server[s] = <<>>
       /\ \A r \in Server : r # s => e.queries_to_server[r] = c.queries_to_server[r]
  BY <1>6 DEF Listed
<1>12. Listed(e)
  <2>1. \A r \in Server : IsList(e.queries_to_server[r])
    BY <1>11, EmptyList DEF Listed
  <2>2. \A k : Occurs(e.queries_by_timeout, k) \/ Occurs(e.stolen, k) => k \in LiveIn(e)
    <3> SUFFICES ASSUME NEW k, Occurs(e.stolen, k) PROVE k \in LiveIn(e)
      BY <1>6, <1>9 DEF Listed
    <3>1. k \in Key
      BY <1>6 DEF Occurs, Listed, IsList
    <3> QED
      BY <1>6, <1>9, <3>1 DEF Listed
  <2>3. \A r \in Server, k \in Key : Occurs(e.queries_to_server[r], k) => k \in LiveIn(e)
    BY <1>9, <1>11, EmptyList DEF Listed
  <2> QED
    BY <1>6, <1>7, <1>9, <1>10, <1>11, <2>1, <2>2, <2>3 DEF Listed
<1>13. AllListed(e)
  BY <1>6, <1>9 DEF AllListed
<1>14. ASSUME NEW k \in LiveIn(c), HeldIn(c, k) PROVE HeldIn(e, k)
  <2>1. e.query[k].server = c.query[k].server /\ Home(e.query[k]) = Home(c.query[k])
    BY <1>6, <1>8, <1>10
  <2>2. ~Occurs(c.stolen, k)
    BY EmptyList
  <2>3. Occurs(e.stolen, k) <=> s = c.query[k].server
    BY <1>6, <1>14, <2>2, Zenon DEF HeldIn
  <2>4. \A r \in Server : Occurs(e.queries_to_server[r], k) <=> r = c.query[k].server /\ r # s
    BY <1>11, <1>14, <2>2, EmptyList, Zenon DEF HeldIn
  <2>5. Occurs(e.stolen, k) \/ Home(e.query[k]) \in e.open
    <3>1. CASE s # c.query[k].server
      <4>1. Home(c.query[k]) \in c.open
        BY <1>14, <2>2 DEF HeldIn
      <4>2. Home(c.query[k]) \notin fs
        BY <3>1 DEF Home
      <4> QED
        BY <1>6, <2>1, <4>1, <4>2
    <3> QED
      BY <2>3, <3>1
  <2>6. Occurs(e.queries_by_timeout, k)
    BY <1>6, <1>14 DEF HeldIn
  <2> QED
    BY <2>1, <2>3, <2>4, <2>5, <2>6, Zenon DEF HeldIn
<1> QED
  BY <1>6, <1>8, <1>9, <1>12, <1>13, <1>14
-----------------------------------------------------------------------------
(* The questions of a lookup are about its name.                           *)
LEMMA SearchName ==
  ASSUME NEW l, IsLookup(l), NEW type, NEW m, m = Search(l, type)
  PROVE  IsLookup(m) /\ m.name = l.name
  BY DEF Search, Single, IsLookup

LEMMA SearchCallbackName ==
  ASSUME NEW l, IsLookup(l), NEW status, NEW found, found = SearchCallback(l, status)
  PROVE  IsLookup(found.lookup) /\ found.lookup.name = l.name
<1> DEFINE as_is == IF l.trying_as_is THEN status ELSE l.status_as_is
           nodata == l.ever_got_nodata \/ status = "ENODATA"
           m == [l EXCEPT !.status_as_is = as_is, !.ever_got_nodata = nodata]
<1>1. found \in {Done(l, status), Ask([m EXCEPT !.trying_as_is = FALSE, !.next_domain = @ + 1]),
                 Ask([m EXCEPT !.trying_as_is = TRUE]),
                 Done(m, IF as_is = "ENOTFOUND" /\ nodata THEN "ENODATA" ELSE as_is)}
  BY DEF SearchCallback
<1>2. \A s : Done(l, s).lookup = l /\ Done(m, s).lookup = m
  BY DEF Done
<1>3. \A n : Ask(n).lookup = n
  BY DEF Ask
<1> HIDE DEF as_is, nodata
<1> DEFINE n1 == [m EXCEPT !.trying_as_is = FALSE, !.next_domain = @ + 1]
           n2 == [m EXCEPT !.trying_as_is = TRUE]
<1>4. found.lookup \in {l, m, n1, n2}
  BY <1>1, <1>2, <1>3
<1>5. IsLookup(m) /\ m.name = l.name
  BY DEF IsLookup
<1> HIDE DEF m
<1>6. IsLookup(n1) /\ n1.name = l.name /\ IsLookup(n2) /\ n2.name = l.name
  BY <1>5 DEF IsLookup
<1> HIDE DEF n1, n2
<1> QED
  BY <1>4, <1>5, <1>6

LEMMA CallbackName ==
  ASSUME NEW l, IsLookup(l), NEW status, NEW answer, NEW next, next = Callback(l, status, answer),
         next.status = "ASK"
  PROVE  IsLookup(next.lookup) /\ next.lookup.name = l.name
<1> DEFINE found == IF l.kind = "addr" THEN Done(l, status) ELSE SearchCallback(l, status)
<1>1. IsLookup(found.lookup) /\ found.lookup.name = l.name
  BY SearchCallbackName DEF Done
<1>2. next = IF found.status = "ASK" THEN found
             ELSE HostCallback(found.lookup, found.status, answer)
  BY DEF Callback
<1> HIDE DEF found
<1>3. CASE next = found
  BY <1>1, <1>3
<1>4. CASE next = HostCallback(found.lookup, found.status, answer)
  <2> DEFINE m == found.lookup
  <2>1. \/ next = Ask(Search(m, "A"))
        \/ next = Done(m, "ENOTFOUND")
        \/ next = Done(m, IF found.status = "SUCCESS" THEN Parsed(m.type, answer) ELSE found.status)
    BY <1>4 DEF HostCallback
  <2>2. CASE next = Ask(Search(m, "A"))
    <3>1. next.lookup = Search(m, "A")
      BY <2>2 DEF Ask
    <3> QED
      BY <1>1, <3>1, SearchName
  <2>3. CASE \E s : next = Done(m, s)
    BY <1>1, <2>3 DEF Done
  <2> QED
    BY <2>1, <2>2, <2>3
<1> QED
  BY <1>2, <1>3, <1>4
-----------------------------------------------------------------------------
(* Whoever waits for a query waits for the lookup that it is of, and for   *)
(* no other query; the one that is over is not waited for.                 *)
Asks(c, over, lookups_of, places) ==
  /\ \A k \in LiveIn(c) \ {over} :
       LET g == c.query[k].who
       IN /\ places[g] = "wait" /\ IsLookup(lookups_of[g])
          /\ c.query[k].question.name = lookups_of[g].name
  /\ \A j, k \in LiveIn(c) \ {over} : c.query[j].who = c.query[k].who => j = k

(* There is always a key for one query more.                               *)
LEMMA FreeKeyFree ==
  ASSUME NEW c, Listed(c), NEW over, NEW g \in Greenlet,
         \A k \in LiveIn(c) \ {over} : c.query[k].who # g,
         \A j, k \in LiveIn(c) \ {over} : c.query[j].who = c.query[k].who => j = k
  PROVE  FreeKey(c) \in Key \ LiveIn(c)
<1> SUFFICES ASSUME LiveIn(c) = Key PROVE FALSE
  BY DEF FreeKey, LiveIn
<1> DEFINE S == Key \ {over}
           T == Greenlet \ {g}
           f == [k \in S |-> c.query[k].who]
<1>1. IsFiniteSet(Key) /\ IsFiniteSet(Greenlet) /\ Cardinality(Key) > Cardinality(Greenlet)
  BY ResolverAssumption
<1>2. f \in [S -> T]
  BY DEF Listed, IsQuery
<1>3. IsFiniteSet(S) /\ Cardinality(S) \in Nat /\ Cardinality(S) >= Cardinality(Key) - 1
  <2> HIDE DEF f
  <2>1. Cardinality(Key) \in Nat
    BY <1>1, FS_CardinalityType
  <2>2. /\ IsFiniteSet(S)
        /\ Cardinality(S) = IF over \in Key THEN Cardinality(Key) - 1 ELSE Cardinality(Key)
    BY <1>1, FS_RemoveElement
  <2>3. Cardinality(S) \in Nat
    BY <2>2, FS_CardinalityType
  <2> QED
    BY <2>1, <2>2, <2>3
<1>4. IsFiniteSet(T) /\ Cardinality(T) \in Nat /\ Cardinality(T) = Cardinality(Greenlet) - 1
  BY <1>1, FS_RemoveElement, FS_CardinalityType
<1>5. Cardinality(T) < Cardinality(S)
  BY <1>1, <1>3, <1>4, FS_CardinalityType
<1>6. \E x, y \in S : x # y /\ f[x] = f[y]
  <2> HIDE DEF S, T, f
  <2> QED
    BY <1>2, <1>3, <1>4, <1>5, FS_PigeonHole
<1> QED
  BY <1>6

(* Whatever sending comes to, the query is held.                           *)
LEMMA SendingHeld ==
  ASSUME Sensible, NEW c, Listed(c), NEW k \in Key, NEW q, IsQuery(q), NEW first,
         NEW e \in Sendings(c, k, q, first)
  PROVE  /\ Listed(e) /\ LiveIn(e) = LiveIn(c) \cup {k} /\ e.all_queries = c.all_queries
         /\ \A j \in Key : j # k => e.query[j] = c.query[j]
         /\ e.query[k].who = q.who /\ e.query[k].question = q.question
         /\ e.query[k].timeout \in Nat
         /\ \A j : Occurs(e.stolen, j) <=> Occurs(c.stolen, j) /\ j # k
         /\ c.stolen = <<>> => e.stolen = <<>>
         /\ \A j \in Key : j # k /\ HeldIn(c, j) => HeldIn(e, j)
         /\ HeldIn(e, k)
<1>1. PICK try \in Firsts(c, q, first) :
        \E d \in Delay(try \div NServers) : e = Sent(c, k, q, try, Tried(c, q, first, try), d)
  BY DEF Sendings
<1>2. PICK d \in Delay(try \div NServers) : e = Sent(c, k, q, try, Tried(c, q, first, try), d)
  BY <1>1
<1>3. try \in Candidates(c, q, first)
  BY DEF Firsts, Working
<1>4. try \in q.try_count .. (NServers * Tries - 1) /\ q.try_count \in Nat
  BY <1>3 DEF Candidates, IsQuery
<1>5. NServers * Tries - 1 \in Int
  BY ResolverAssumption
<1>6. try \in 0 .. (NServers * Tries - 1) /\ try \in Nat
  BY <1>4, <1>5
<1>7. d \in Nat
  BY <1>6, Zenon DEF Sensible
<1> QED
  BY <1>2, <1>6, <1>7, SentHeld

(* A lookup's question is a query of its own, and the others stay.         *)
LEMMA QueriedHeld ==
  ASSUME Sensible, NEW c, Listed(c), AllListed(c), FreeKey(c) \in Key \ LiveIn(c),
         NEW g \in Greenlet, NEW l, NEW e \in Queried(c, g, l)
  PROVE  \E k \in Key \ LiveIn(c) :
           /\ Listed(e) /\ AllListed(e) /\ LiveIn(e) = LiveIn(c) \cup {k}
           /\ \A j \in Key : j # k => e.query[j] = c.query[j]
           /\ e.query[k].who = g /\ e.query[k].question.name = l.name /\ e.query[k].timeout \in Nat
           /\ \A j : Occurs(e.stolen, j) <=> Occurs(c.stolen, j)
           /\ c.stolen = <<>> => e.stolen = <<>>
           /\ \A j \in LiveIn(c) : HeldIn(c, j) => HeldIn(e, j)
           /\ HeldIn(e, k)
<1> DEFINE k == FreeKey(c)
           d == [c EXCEPT !.all_queries = Append(@, k)]
<1>0. PICK id \in Id : e \in Sendings(d, k, NewQuery(g, l, id), TRUE)
  BY DEF Queried
<1> DEFINE q == NewQuery(g, l, id)
           first == TRUE
<1>1. e \in Sendings(d, k, q, first)
  BY <1>0
<1>2. IsQuery(q) /\ q.who = g /\ q.question.name = l.name
  BY ResolverAssumption DEF NewQuery, IsQuery, Server, Question
<1>4. k \in Key /\ k \notin LiveIn(c)
  OBVIOUS
<1> HIDE DEF q, k, first
<1>5. /\ DOMAIN d = DOMAIN c /\ d.all_queries = Append(c.all_queries, k)
      /\ d.query = c.query /\ d.stolen = c.stolen /\ d.open = c.open
      /\ d.queries_by_timeout = c.queries_by_timeout /\ d.queries_to_server = c.queries_to_server
  BY DEF Listed
<1> HIDE DEF d
<1>6. ~Occurs(c.all_queries, k) /\ ~Occurs(c.stolen, k)
  BY <1>4 DEF AllListed, Listed
<1>7. /\ IsList(d.all_queries)
      /\ \A j : Occurs(d.all_queries, j) <=> Occurs(c.all_queries, j) \/ j = k
  BY <1>4, <1>5, <1>6, AppendList DEF Listed
<1>8. LiveIn(d) = LiveIn(c)
  BY <1>5 DEF LiveIn
<1>9. Listed(d) /\ \A j \in Key : HeldIn(d, j) <=> HeldIn(c, j)
  BY <1>5, <1>7, <1>8 DEF Listed, HeldIn
<1>10. /\ Listed(e) /\ LiveIn(e) = LiveIn(d) \cup {k} /\ e.all_queries = d.all_queries
       /\ \A j \in Key : j # k => e.query[j] = d.query[j]
       /\ e.query[k].who = q.who /\ e.query[k].question = q.question
       /\ e.query[k].timeout \in Nat
       /\ \A j : Occurs(e.stolen, j) <=> Occurs(d.stolen, j) /\ j # k
       /\ d.stolen = <<>> => e.stolen = <<>>
       /\ \A j \in Key : j # k /\ HeldIn(d, j) => HeldIn(e, j)
       /\ HeldIn(e, k)
  BY <1>1, <1>2, <1>4, <1>9, SendingHeld, Zenon
<1>11. AllListed(e)
  BY <1>7, <1>8, <1>10, Zenon DEF AllListed
<1>12. \A j \in LiveIn(c) : j \in Key /\ j # k
  BY <1>4 DEF LiveIn
<1>13. \A j : Occurs(e.stolen, j) <=> Occurs(c.stolen, j)
  BY <1>5, <1>6, <1>10
<1>14. \A j \in LiveIn(c) : HeldIn(c, j) => HeldIn(e, j)
  BY <1>9, <1>10, <1>12
<1> QED
  BY <1>2, <1>4, <1>5, <1>8, <1>10, <1>11, <1>13, <1>14
-----------------------------------------------------------------------------
(* Everything a query is in is told of it: the lists, a watched socket, a  *)
(* second process_timeouts has yet to come to; and what waits for it.      *)
Typed ==
  /\ at \in Server /\ last_timeout_processed \in Int /\ last_timeout_processed <= 0
  /\ ending \in Live \cup {0}
  /\ lookups \in [Greenlet -> Nat]
  /\ DOMAIN place = Greenlet /\ DOMAIN lookup = Greenlet /\ DOMAIN result = Greenlet

Kept == Listed(channel) /\ AllListed(channel) /\ \A k \in Live \ {ending} : HeldIn(channel, k)

OnTime ==
  \A k \in Live \ {ending} : channel.query[k].timeout >= last_timeout_processed \/ Occurs(due, k)

Dues ==
  /\ IsList(due) /\ \A k : Occurs(due, k) => k \in Live \ {ending}
  /\ due # <<>> => pc = "timeouts" /\ channel.stolen = <<>>

IInv == Typed /\ Kept /\ OnTime /\ Dues /\ Asks(channel, ending, lookup, place) /\ ResultIsAnswer
-----------------------------------------------------------------------------
LEMMA LiveIsLiveIn == Live = LiveIn(channel) /\ Live' = LiveIn(channel')
  BY DEF Live, LiveIn

(* A query that has an answer, or none to wait for, is over, or makes way  *)
(* for the next of its lookup.                                             *)
LEMMA EndQueryStep ==
  ASSUME Sensible, IInv, ending = 0, NEW k \in Live, NEW status, NEW answer,
         EndQuery(channel, k, status, answer, channel.query[k].question.name),
         UNCHANGED <<last_timeout_processed, pc, at, lookups>>,
         IsList(due'), \A j : Occurs(due', j) <=> Occurs(due, j) /\ j # k,
         due' # <<>> => due # <<>>
  PROVE  IInv'
<1> DEFINE g == channel.query[k].who
           name == channel.query[k].question.name
           queued == {s \in Server : <<s, k>> \in channel.qhead}
           qhead == {r \in channel.qhead : r[2] # k}
           broken == IF status = "SUCCESS" THEN channel.is_broken ELSE channel.is_broken \cup queued
           d == [channel EXCEPT !.qhead = qhead, !.is_broken = broken]
           next == Callback(lookup[g], status, answer)
<1>1. /\ k \in LiveIn(channel) /\ k \in Key /\ 0 \notin Key
      /\ LiveIn(channel) \ {ending} = LiveIn(channel)
  BY ResolverAssumption, LiveIsLiveIn DEF Live
<1>2. /\ Listed(channel) /\ AllListed(channel)
      /\ \A j \in LiveIn(channel) : HeldIn(channel, j)
  BY <1>1, LiveIsLiveIn DEF IInv, Kept
<1>3. /\ g \in Greenlet /\ place[g] = "wait" /\ IsLookup(lookup[g]) /\ name = lookup[g].name
      /\ \A j \in LiveIn(channel) :
           LET h == channel.query[j].who
           IN /\ h \in Greenlet /\ place[h] = "wait" /\ IsLookup(lookup[h])
              /\ channel.query[j].question.name = lookup[h].name /\ (j # k => h # g)
  BY <1>1, <1>2 DEF IInv, Asks, Listed, IsQuery
<1>4. /\ Listed(d) /\ LiveIn(d) = LiveIn(channel) /\ AllListed(d)
      /\ \A j \in Key : HeldIn(d, j) <=> HeldIn(channel, j)
      /\ d.query = channel.query /\ d.stolen = channel.stolen
  <2> HIDE DEF qhead, broken
  <2>0. DOMAIN channel = {"query", "all_queries", "queries_by_timeout", "stolen", "queries_to_server",
                          "open", "is_broken", "qhead", "asked", "age"}
    BY <1>2 DEF Listed
  <2>2. /\ DOMAIN d = DOMAIN channel
        /\ \A x \in DOMAIN channel \ {"qhead", "is_broken"} : d[x] = channel[x]
    OBVIOUS
  <2> HIDE DEF d
  <2>1. /\ DOMAIN d = DOMAIN channel
        /\ d.query = channel.query /\ d.all_queries = channel.all_queries
        /\ d.stolen = channel.stolen /\ d.open = channel.open
        /\ d.queries_by_timeout = channel.queries_by_timeout
        /\ d.queries_to_server = channel.queries_to_server
    BY <2>0, <2>2
  <2> QED
    BY <1>2, <2>1, SameLists
<1>5. \/ /\ next.status = "ASK" /\ (\E e \in Queried(d, g, next.lookup) : channel' = Freed(e, k))
         /\ lookup' = [lookup EXCEPT ![g] = next.lookup]
         /\ UNCHANGED <<ending, active, place, result>>
      \/ \E s : channel' = d /\ ending' = k /\ Resume(g, s, name)
  BY DEF EndQuery
<1> HIDE DEF d, next, qhead, broken, queued
<1>6. CASE \E s : channel' = d /\ ending' = k /\ Resume(g, s, name)
  <2>1. PICK s : channel' = d /\ ending' = k /\ Resume(g, s, name)
    BY <1>6
  <2>2. /\ place' = [place EXCEPT ![g] = "run"]
        /\ lookup' = [lookup EXCEPT ![g] = Over(lookup[g].name)]
        /\ result' = [result EXCEPT ![g] = Ended(s, name)]
    BY <2>1 DEF Resume
  <2> HIDE DEF g, name
  <2>3. Live' = Live /\ Live = LiveIn(channel) /\ LiveIn(channel') = LiveIn(channel)
    BY <1>4, <2>1, LiveIsLiveIn
  <2>4. Typed'
    BY <2>1, <2>2, <2>3 DEF IInv, Typed
  <2>5. Kept'
    BY <1>2, <1>4, <2>1, <2>3 DEF Kept, LiveIn
  <2>6. OnTime'
    BY <1>1, <1>4, <2>1, <2>3 DEF IInv, OnTime
  <2>7. Dues'
    BY <1>4, <2>1, <2>3 DEF IInv, Dues
  <2>8. Asks(channel', ending', lookup', place')
    <3>1. \A h \in Greenlet : h # g => place'[h] = place[h] /\ lookup'[h] = lookup[h]
      BY <2>2 DEF IInv, Typed
    <3>2. \A i, j \in LiveIn(channel) : channel.query[i].who = channel.query[j].who => i = j
      BY <1>1 DEF IInv, Asks
    <3> QED
      BY <1>3, <1>4, <2>1, <2>3, <3>1, <3>2 DEF Asks
  <2>9. ResultIsAnswer'
    BY <1>3, <2>2 DEF IInv, Typed, ResultIsAnswer, Over, Ended
  <2> QED
    BY <2>4, <2>5, <2>6, <2>7, <2>8, <2>9 DEF IInv
<1>7. CASE /\ next.status = "ASK" /\ (\E e \in Queried(d, g, next.lookup) : channel' = Freed(e, k))
           /\ lookup' = [lookup EXCEPT ![g] = next.lookup]
           /\ UNCHANGED <<ending, active, place, result>>
  <2> DEFINE m == next.lookup
  <2>1. PICK e \in Queried(d, g, m) : channel' = Freed(e, k)
    BY <1>7, Zenon
  <2>2. IsLookup(m) /\ m.name = name
    BY <1>3, <1>7, CallbackName DEF next
  <2> HIDE DEF m
  <2>3. FreeKey(d) \in Key \ LiveIn(d)
    <3>1. \A j \in LiveIn(d) \ {k} : d.query[j].who # g
      BY <1>3, <1>4
    <3>2. \A i, j \in LiveIn(d) \ {k} : d.query[i].who = d.query[j].who => i = j
      BY <1>1, <1>4 DEF IInv, Asks
    <3> HIDE DEF g
    <3> QED
      BY <1>3, <1>4, <3>1, <3>2, FreeKeyFree
  <2> HIDE DEF g, name
  <2>4. PICK n \in Key \ LiveIn(d) :
          /\ Listed(e) /\ AllListed(e) /\ LiveIn(e) = LiveIn(d) \cup {n}
          /\ \A j \in Key : j # n => e.query[j] = d.query[j]
          /\ e.query[n].who = g /\ e.query[n].question.name = m.name /\ e.query[n].timeout \in Nat
          /\ \A j : Occurs(e.stolen, j) <=> Occurs(d.stolen, j)
          /\ d.stolen = <<>> => e.stolen = <<>>
          /\ \A j \in LiveIn(d) : HeldIn(d, j) => HeldIn(e, j)
          /\ HeldIn(e, n)
    <3>1. g \in Greenlet /\ Listed(d) /\ AllListed(d)
      BY <1>3, <1>4
    <3> QED
      BY <2>3, <3>1, QueriedHeld, SMTT(30)
  <2>5. /\ Listed(channel') /\ AllListed(channel') /\ LiveIn(channel') = LiveIn(e) \ {k}
        /\ \A j \in Key : j # k => channel'.query[j] = e.query[j]
        /\ e.stolen = <<>> => channel'.stolen = <<>>
        /\ \A j \in LiveIn(channel') : HeldIn(e, j) => HeldIn(channel', j)
    BY <1>1, <2>1, <2>4, FreedHeld, SMTT(30)
  <2>6. /\ ending' = 0 /\ n # k /\ n # 0 /\ n \in Key /\ n \notin LiveIn(channel)
        /\ LiveIn(channel') = (LiveIn(channel) \ {k}) \cup {n}
        /\ LiveIn(channel') \ {ending'} = LiveIn(channel')
        /\ Live' = LiveIn(channel') /\ Live = LiveIn(channel)
    BY <1>1, <1>4, <1>7, <2>4, <2>5, LiveIsLiveIn
  <2>7. \A j \in LiveIn(channel') : j # n => j \in LiveIn(channel) /\ j # k /\ channel.query[j] = channel'.query[j]
    BY <1>4, <2>4, <2>5, <2>6 DEF LiveIn
  <2>8. /\ channel'.query[n].who = g /\ channel'.query[n].question.name = m.name
        /\ channel'.query[n].timeout \in Nat
    BY <2>4, <2>5, <2>6
  <2>9. Typed'
    BY <1>7, <2>6 DEF IInv, Typed
  <2>10. Kept'
    <3>1. \A j \in LiveIn(channel') : HeldIn(e, j)
      BY <1>2, <1>4, <2>4, <2>6, <2>7 DEF LiveIn
    <3> QED
      BY <2>5, <2>6, <3>1 DEF Kept
  <2>11. OnTime'
    <3>1. last_timeout_processed \in Int /\ last_timeout_processed <= 0
      BY DEF IInv, Typed
    <3> SUFFICES ASSUME NEW j \in LiveIn(channel')
                 PROVE  \/ channel'.query[j].timeout >= last_timeout_processed
                        \/ Occurs(due', j)
      BY <2>6 DEF OnTime
    <3>2. CASE j = n
      BY <2>8, <3>1, <3>2
    <3>3. CASE j # n
      BY <1>1, <2>6, <2>7, <3>3 DEF IInv, OnTime
    <3> QED
      BY <3>2, <3>3
  <2>12. Dues'
    BY <1>1, <1>4, <2>4, <2>5, <2>6 DEF IInv, Dues
  <2>13. Asks(channel', ending', lookup', place')
    <3>1. /\ place' = place /\ lookup'[g] = m
          /\ \A h \in Greenlet : h # g => lookup'[h] = lookup[h]
      BY <1>3, <1>7 DEF IInv, Typed, m
    <3>2. \A i, j \in LiveIn(channel) : channel.query[i].who = channel.query[j].who => i = j
      BY <1>1 DEF IInv, Asks
    <3>3. \A j \in LiveIn(channel') :
            LET h == channel'.query[j].who
            IN /\ place'[h] = "wait" /\ IsLookup(lookup'[h])
               /\ channel'.query[j].question.name = lookup'[h].name
               /\ (j # n => h # g)
      BY <1>3, <2>2, <2>7, <2>8, <3>1
    <3>4. \A i, j \in LiveIn(channel') : channel'.query[i].who = channel'.query[j].who => i = j
      BY <2>7, <2>8, <3>2, <3>3
    <3> QED
      BY <2>6, <3>3, <3>4 DEF Asks
  <2>14. ResultIsAnswer'
    BY <1>3, <1>7, <2>2 DEF IInv, Typed, ResultIsAnswer, m
  <2> QED
    BY <2>9, <2>10, <2>11, <2>12, <2>13, <2>14 DEF IInv
<1> QED
  BY <1>5, <1>6, <1>7

(* A query that is sent again waits anew.                                  *)
LEMMA SendStep ==
  ASSUME Sensible, IInv, ending = 0, NEW k \in Live, NEW q, IsQuery(q),
         q.who = channel.query[k].who, q.question = channel.query[k].question,
         NEW first, channel' \in Sendings(channel, k, q, first),
         UNCHANGED <<ending, active, place, lookup, result>>,
         UNCHANGED <<last_timeout_processed, pc, at, lookups>>,
         IsList(due'), \A j : Occurs(due', j) <=> Occurs(due, j) /\ j # k,
         due' # <<>> => due # <<>>
  PROVE  IInv'
<1>1. /\ k \in LiveIn(channel) /\ k \in Key /\ 0 \notin Key
      /\ LiveIn(channel) \ {ending} = LiveIn(channel)
  BY ResolverAssumption, LiveIsLiveIn DEF Live
<1>2. /\ Listed(channel) /\ AllListed(channel)
      /\ \A j \in LiveIn(channel) : HeldIn(channel, j)
  BY <1>1, LiveIsLiveIn DEF IInv, Kept
<1>3. /\ Listed(channel') /\ LiveIn(channel') = LiveIn(channel) \cup {k}
      /\ channel'.all_queries = channel.all_queries
      /\ \A j \in Key : j # k => channel'.query[j] = channel.query[j]
      /\ channel'.query[k].who = q.who /\ channel'.query[k].question = q.question
      /\ channel'.query[k].timeout \in Nat
      /\ \A j : Occurs(channel'.stolen, j) <=> Occurs(channel.stolen, j) /\ j # k
      /\ channel.stolen = <<>> => channel'.stolen = <<>>
      /\ \A j \in Key : j # k /\ HeldIn(channel, j) => HeldIn(channel', j)
      /\ HeldIn(channel', k)
  BY <1>1, <1>2, SendingHeld
<1>4. /\ LiveIn(channel') = LiveIn(channel) /\ Live = LiveIn(channel) /\ Live' = LiveIn(channel)
      /\ \A j \in LiveIn(channel) : j \in Key
  BY <1>1, <1>3, LiveIsLiveIn DEF LiveIn
<1>5. Typed'
  BY <1>4 DEF IInv, Typed
<1>6. Kept'
  <2>1. AllListed(channel')
    BY <1>2, <1>3, <1>4 DEF AllListed
  <2> QED
    BY <1>1, <1>2, <1>3, <1>4, <2>1 DEF Kept
<1>7. OnTime'
  <2>1. last_timeout_processed \in Int /\ last_timeout_processed <= 0
    BY DEF IInv, Typed
  <2> SUFFICES ASSUME NEW j \in LiveIn(channel)
               PROVE  \/ channel'.query[j].timeout >= last_timeout_processed
                      \/ Occurs(due', j)
    BY <1>1, <1>4 DEF OnTime
  <2>2. CASE j = k
    BY <1>3, <2>1, <2>2
  <2>3. CASE j # k
    BY <1>1, <1>3, <1>4, <2>3 DEF IInv, OnTime
  <2> QED
    BY <2>2, <2>3
<1>8. Dues'
  BY <1>3, <1>4 DEF IInv, Dues
<1>9. Asks(channel', ending', lookup', place')
  <2>1. \A j \in LiveIn(channel) : /\ channel'.query[j].who = channel.query[j].who
                                   /\ channel'.query[j].question = channel.query[j].question
    BY <1>3, <1>4
  <2>2. Asks(channel, ending, lookup, place)
    BY DEF IInv
  <2> QED
    BY <1>4, <2>1, <2>2 DEF Asks
<1>10. ResultIsAnswer'
  BY DEF IInv, ResultIsAnswer
<1> QED
  BY <1>5, <1>6, <1>7, <1>8, <1>9, <1>10 DEF IInv

LEMMA NextServerStep ==
  ASSUME Sensible, IInv, ending = 0, NEW k \in Live, NEW q, IsQuery(q),
         q.who = channel.query[k].who, q.question = channel.query[k].question,
         NextServer(channel, k, q),
         UNCHANGED <<last_timeout_processed, pc, at, lookups>>,
         IsList(due'), \A j : Occurs(due', j) <=> Occurs(due, j) /\ j # k,
         due' # <<>> => due # <<>>
  PROVE  IInv'
<1> DEFINE first == FALSE
<1>1. \/ /\ channel' \in Sendings(channel, k, q, first)
         /\ UNCHANGED <<ending, active, place, lookup, result>>
      \/ EndQuery(channel, k, q.error_status, "none", channel.query[k].question.name)
  BY DEF NextServer
<1> HIDE DEF first
<1>2. CASE /\ channel' \in Sendings(channel, k, q, first)
           /\ UNCHANGED <<ending, active, place, lookup, result>>
  BY <1>2, SendStep
<1>3. CASE EndQuery(channel, k, q.error_status, "none", channel.query[k].question.name)
  BY <1>3, EndQueryStep
<1> QED
  BY <1>1, <1>2, <1>3

LEMMA FreeQueryStep ==
  ASSUME IInv, FreeQuery
  PROVE  IInv'
<1>1. /\ active = Loop /\ ending # 0 /\ channel' = Freed(channel, ending) /\ ending' = 0
      /\ UNCHANGED <<last_timeout_processed, pc, at, due, place, lookup, lookups, result>>
  BY DEF FreeQuery, processVars, greenletVars
<1>2. ending \in LiveIn(channel) /\ ending \in Key
  BY <1>1, LiveIsLiveIn DEF IInv, Typed, Live
<1>3. /\ Listed(channel) /\ AllListed(channel)
      /\ \A j \in LiveIn(channel) \ {ending} : HeldIn(channel, j)
  BY LiveIsLiveIn DEF IInv, Kept
<1>4. /\ Listed(channel') /\ AllListed(channel') /\ LiveIn(channel') = LiveIn(channel) \ {ending}
      /\ \A j \in Key : j # ending => channel'.query[j] = channel.query[j]
      /\ channel.stolen = <<>> => channel'.stolen = <<>>
      /\ \A j \in LiveIn(channel') : HeldIn(channel, j) => HeldIn(channel', j)
  BY <1>1, <1>2, <1>3, FreedHeld
<1>5. /\ Live = LiveIn(channel) /\ Live' = Live \ {ending} /\ Live' \ {ending'} = Live'
      /\ \A j \in Live' : channel'.query[j] = channel.query[j]
  <2>1. \A j \in LiveIn(channel) : j \in Key
    BY DEF LiveIn
  <2> QED
    BY <1>1, <1>4, <2>1, LiveIsLiveIn, ResolverAssumption
<1>6. Typed'
  BY <1>1 DEF IInv, Typed
<1>7. Kept'
  BY <1>3, <1>4, <1>5 DEF Kept
<1>8. OnTime'
  BY <1>1, <1>5 DEF IInv, OnTime
<1>9. Dues'
  BY <1>1, <1>4, <1>5 DEF IInv, Dues
<1>10. Asks(channel', ending', lookup', place')
  <2>1. Asks(channel, ending, lookup, place)
    BY DEF IInv
  <2> QED
    BY <1>1, <1>4, <1>5, <2>1 DEF Asks
<1>11. ResultIsAnswer'
  BY <1>1 DEF IInv, ResultIsAnswer
<1> QED
  BY <1>6, <1>7, <1>8, <1>9, <1>10, <1>11 DEF IInv
-----------------------------------------------------------------------------
(* What a greenlet does that waits for no query leaves the rest as it is.  *)
LEMMA GreenletStep ==
  ASSUME IInv, NEW g \in Greenlet, place[g] # "wait", lookups' \in [Greenlet -> Nat],
         UNCHANGED <<channel, last_timeout_processed, processVars, ending>>,
         DOMAIN place' = Greenlet, DOMAIN lookup' = Greenlet, DOMAIN result' = Greenlet,
         \A h \in Greenlet : h # g => place'[h] = place[h] /\ lookup'[h] = lookup[h],
         ResultIsAnswer'
  PROVE  IInv'
<1>1. UNCHANGED <<pc, at, due>>
  BY DEF processVars
<1>2. Live' = Live /\ Live = LiveIn(channel)
  BY LiveIsLiveIn
<1>3. Typed'
  BY <1>1, <1>2 DEF IInv, Typed
<1>4. Kept' /\ OnTime' /\ Dues'
  BY <1>1, <1>2 DEF IInv, Kept, OnTime, Dues
<1>5. Asks(channel', ending', lookup', place')
  <2>1. \A j \in LiveIn(channel) \ {ending} :
          channel.query[j].who \in Greenlet /\ channel.query[j].who # g
    BY DEF IInv, Kept, Listed, IsQuery, Asks
  <2>2. Asks(channel, ending, lookup, place)
    BY DEF IInv
  <2> QED
    BY <2>1, <2>2 DEF Asks
<1> QED
  BY <1>3, <1>4, <1>5 DEF IInv

LEMMA EndStep ==
  ASSUME IInv, NEW g \in Greenlet, End(g)
  PROVE  IInv'
<1>1. /\ place[g] = "run" /\ place' = [place EXCEPT ![g] = IF g = Main THEN "inrun" ELSE "done"]
      /\ UNCHANGED <<channel, last_timeout_processed, processVars, ending, lookup, lookups, result>>
  BY DEF End, InCode
<1> QED
  BY <1>1, GreenletStep DEF IInv, Typed, ResultIsAnswer

LEMMA StartStep ==
  ASSUME IInv, NEW g \in Greenlet, Start(g)
  PROVE  IInv'
<1>1. /\ place[g] = "ready" /\ place' = [place EXCEPT ![g] = "run"]
      /\ UNCHANGED <<channel, last_timeout_processed, processVars, ending, lookup, lookups, result>>
  BY DEF Start
<1> QED
  BY <1>1, GreenletStep DEF IInv, Typed, ResultIsAnswer

LEMMA LookupStep ==
  ASSUME Sensible, IInv, NEW g \in Greenlet, Lookup(g)
  PROVE  IInv'
<1>1. /\ place[g] = "run" /\ lookups' = [lookups EXCEPT ![g] = @ + 1]
      /\ UNCHANGED <<last_timeout_processed, processVars, ending>>
  BY DEF Lookup, InCode
<1>2. PICK l \in Wanted(g, lookups[g] + 1) :
        \/ \E s : /\ result' = [result EXCEPT ![g] = Ended(s, l.name)]
                  /\ lookup' = [lookup EXCEPT ![g] = Over(l.name)]
                  /\ UNCHANGED <<channel, active, place>>
        \/ /\ channel' \in Queried(channel, g, l)
           /\ lookup' = [lookup EXCEPT ![g] = l]
           /\ active' = Loop
           /\ place' = [place EXCEPT ![g] = "wait"]
           /\ result' = [result EXCEPT ![g] = NoResult]
  BY Zenon DEF Lookup
<1>3. lookups' \in [Greenlet -> Nat] /\ IsLookup(l)
  BY <1>1 DEF IInv, Typed, Sensible
<1>4. CASE \E s : /\ result' = [result EXCEPT ![g] = Ended(s, l.name)]
                  /\ lookup' = [lookup EXCEPT ![g] = Over(l.name)]
                  /\ UNCHANGED <<channel, active, place>>
  <2>1. ResultIsAnswer'
    BY <1>4 DEF IInv, Typed, ResultIsAnswer, Ended, Over
  <2>2. /\ DOMAIN place' = Greenlet /\ DOMAIN lookup' = Greenlet /\ DOMAIN result' = Greenlet
        /\ \A h \in Greenlet : h # g => place'[h] = place[h] /\ lookup'[h] = lookup[h]
    BY <1>4 DEF IInv, Typed
  <2> QED
    BY <1>1, <1>3, <1>4, <2>1, <2>2, GreenletStep
<1>5. CASE /\ channel' \in Queried(channel, g, l)
           /\ lookup' = [lookup EXCEPT ![g] = l]
           /\ active' = Loop
           /\ place' = [place EXCEPT ![g] = "wait"]
           /\ result' = [result EXCEPT ![g] = NoResult]
  <2>1. /\ Listed(channel) /\ AllListed(channel)
        /\ \A j \in LiveIn(channel) \ {ending} : HeldIn(channel, j)
    BY LiveIsLiveIn DEF IInv, Kept
  <2>2. \A j \in LiveIn(channel) \ {ending} :
          LET h == channel.query[j].who
          IN /\ h \in Greenlet /\ h # g /\ place[h] = "wait" /\ IsLookup(lookup[h])
             /\ channel.query[j].question.name = lookup[h].name
    BY <1>1, <2>1 DEF IInv, Asks, Listed, IsQuery
  <2>3. \A i, j \in LiveIn(channel) \ {ending} : channel.query[i].who = channel.query[j].who => i = j
    BY DEF IInv, Asks
  <2>4. FreeKey(channel) \in Key \ LiveIn(channel)
    BY <2>1, <2>2, <2>3, FreeKeyFree
  <2>5. PICK n \in Key \ LiveIn(channel) :
          /\ Listed(channel') /\ AllListed(channel') /\ LiveIn(channel') = LiveIn(channel) \cup {n}
          /\ \A j \in Key : j # n => channel'.query[j] = channel.query[j]
          /\ channel'.query[n].who = g /\ channel'.query[n].question.name = l.name
          /\ channel'.query[n].timeout \in Nat
          /\ \A j : Occurs(channel'.stolen, j) <=> Occurs(channel.stolen, j)
          /\ channel.stolen = <<>> => channel'.stolen = <<>>
          /\ \A j \in LiveIn(channel) : HeldIn(channel, j) => HeldIn(channel', j)
          /\ HeldIn(channel', n)
    BY <1>5, <2>1, <2>4, QueriedHeld, SMTT(30)
  <2>6. /\ Live = LiveIn(channel) /\ Live' = LiveIn(channel) \cup {n}
        /\ n # ending /\ LiveIn(channel') = Live' /\ ending' = ending
        /\ \A j \in LiveIn(channel) : j \in Key /\ j # n /\ channel'.query[j] = channel.query[j]
    <3>1. n # ending
      BY ResolverAssumption, LiveIsLiveIn DEF IInv, Typed
    <3> QED
      BY <1>1, <2>5, <3>1, LiveIsLiveIn DEF LiveIn
  <2>7. /\ UNCHANGED <<last_timeout_processed, pc, at, due>>
    BY <1>1 DEF processVars
  <2>8. Typed'
    BY <1>3, <1>5, <2>6, <2>7 DEF IInv, Typed
  <2>9. Kept'
    BY <2>1, <2>5, <2>6 DEF Kept
  <2>10. OnTime'
    <3>1. last_timeout_processed \in Int /\ last_timeout_processed <= 0
      BY DEF IInv, Typed
    <3> SUFFICES ASSUME NEW j \in (LiveIn(channel) \cup {n}) \ {ending}
                 PROVE  \/ channel'.query[j].timeout >= last_timeout_processed
                        \/ Occurs(due, j)
      BY <2>6, <2>7 DEF OnTime
    <3>2. CASE j = n
      BY <2>5, <3>1, <3>2
    <3>3. CASE j # n
      BY <2>6, <3>3 DEF IInv, OnTime
    <3> QED
      BY <3>2, <3>3
  <2>11. Dues'
    BY <2>5, <2>6, <2>7 DEF IInv, Dues
  <2>12. Asks(channel', ending', lookup', place')
    <3>1. /\ place'[g] = "wait" /\ lookup'[g] = l
          /\ \A h \in Greenlet : h # g => place'[h] = place[h] /\ lookup'[h] = lookup[h]
      BY <1>5 DEF IInv, Typed
    <3>2. \A j \in LiveIn(channel') \ {ending'} :
            LET h == channel'.query[j].who
            IN /\ place'[h] = "wait" /\ IsLookup(lookup'[h])
               /\ channel'.query[j].question.name = lookup'[h].name
               /\ (j # n => h # g)
      BY <1>3, <2>2, <2>5, <2>6, <3>1
    <3>3. \A i, j \in LiveIn(channel') \ {ending'} : channel'.query[i].who = channel'.query[j].who => i = j
      BY <2>3, <2>5, <2>6, <3>2
    <3> QED
      BY <3>2, <3>3 DEF Asks
  <2>13. ResultIsAnswer'
    BY <1>5 DEF IInv, Typed, ResultIsAnswer, NoResult
  <2> QED
    BY <2>8, <2>9, <2>10, <2>11, <2>12, <2>13 DEF IInv
<1> QED
  BY <1>2, <1>4, <1>5
-----------------------------------------------------------------------------
(* What the loop does to a socket leaves the queries where they are.       *)
LEMMA SocketStep ==
  ASSUME IInv, UNCHANGED <<last_timeout_processed, due, ending, greenletVars>>,
         at' \in Server, due = <<>>,
         Listed(channel'), AllListed(channel'), LiveIn(channel') = LiveIn(channel),
         \A k \in LiveIn(channel), x \in {"who", "question", "timeout"} :
           channel'.query[k][x] = channel.query[k][x],
         \A k \in LiveIn(channel) : HeldIn(channel, k) => HeldIn(channel', k)
  PROVE  IInv'
<1>1. Live = LiveIn(channel) /\ Live' = LiveIn(channel)
  BY LiveIsLiveIn
<1>2. UNCHANGED <<place, lookup, lookups, result>>
  BY DEF greenletVars
<1>3. \A k \in LiveIn(channel) : /\ channel'.query[k].who = channel.query[k].who
                                 /\ channel'.query[k].question = channel.query[k].question
                                 /\ channel'.query[k].timeout = channel.query[k].timeout
  OBVIOUS
<1>4. Typed'
  BY <1>1, <1>2 DEF IInv, Typed
<1>5. Kept'
  BY <1>1 DEF IInv, Kept
<1>6. OnTime'
  BY <1>1, <1>3 DEF IInv, OnTime
<1>7. Dues'
  BY <1>1 DEF IInv, Dues
<1>8. Asks(channel', ending', lookup', place')
  <2>1. Asks(channel, ending, lookup, place)
    BY DEF IInv
  <2> QED
    BY <1>2, <1>3, <2>1 DEF Asks
<1>9. ResultIsAnswer'
  BY <1>2 DEF IInv, ResultIsAnswer
<1> QED
  BY <1>4, <1>5, <1>6, <1>7, <1>8, <1>9 DEF IInv

LEMMA TimedKept ==
  ASSUME NEW c, Listed(c), AllListed(c), NEW f, NEW d, d = Timed(c, f)
  PROVE  /\ Listed(d) /\ AllListed(d) /\ LiveIn(d) = LiveIn(c)
         /\ d.query = c.query /\ d.stolen = c.stolen
         /\ \A k \in Key : HeldIn(d, k) <=> HeldIn(c, k)
<1>1. /\ DOMAIN d = DOMAIN c
      /\ d.query = c.query /\ d.all_queries = c.all_queries /\ d.stolen = c.stolen
      /\ d.open = c.open
      /\ d.queries_by_timeout = c.queries_by_timeout /\ d.queries_to_server = c.queries_to_server
  BY DEF Timed, Listed
<1> QED
  BY <1>1, SameLists

LEMMA ReadableStep ==
  ASSUME IInv, NEW s \in Server, Readable(s)
  PROVE  IInv'
<1>1. /\ due = <<>> /\ at' = s /\ channel' = Timed(channel, <<"udp", s>>)
      /\ UNCHANGED <<last_timeout_processed, due, ending, greenletVars>>
  BY DEF Readable, Idle, Quiet, Turn, IInv, Dues
<1>2. Listed(channel) /\ AllListed(channel) /\ LiveIn(channel) \subseteq Key
  BY DEF IInv, Kept, LiveIn
<1> QED
  BY <1>1, <1>2, TimedKept, SocketStep

LEMMA IntervalStep ==
  ASSUME IInv, NEW f \in Socket, Interval(f)
  PROVE  IInv'
<1>1. /\ due = <<>> /\ at' = at /\ at \in Server /\ channel' = Timed(channel, f)
      /\ UNCHANGED <<last_timeout_processed, due, ending, greenletVars>>
  BY DEF Interval, Quiet, Turn, IInv, Dues, Typed
<1>2. Listed(channel) /\ AllListed(channel) /\ LiveIn(channel) \subseteq Key
  BY DEF IInv, Kept, LiveIn
<1> QED
  BY <1>1, <1>2, TimedKept, SocketStep

LEMMA HangupStep ==
  ASSUME IInv, NEW s \in Server, Hangup(s)
  PROVE  IInv'
<1> DEFINE d == Timed(channel, <<"tcp", s>>)
<1>1. /\ due = <<>> /\ channel.stolen = <<>> /\ at' = at /\ at \in Server
      /\ channel' = Stolen(d, s)
      /\ UNCHANGED <<last_timeout_processed, due, ending, greenletVars>>
  BY DEF Hangup, Idle, Quiet, Turn, IInv, Dues, Typed
<1>2. Listed(channel) /\ AllListed(channel) /\ LiveIn(channel) \subseteq Key
  BY DEF IInv, Kept, LiveIn
<1>3. /\ Listed(d) /\ AllListed(d) /\ LiveIn(d) = LiveIn(channel)
      /\ d.query = channel.query /\ d.stolen = channel.stolen
      /\ \A k \in Key : HeldIn(d, k) <=> HeldIn(channel, k)
  BY <1>2, TimedKept
<1> HIDE DEF d
<1>4. /\ Listed(channel') /\ AllListed(channel') /\ LiveIn(channel') = LiveIn(d)
      /\ \A k \in LiveIn(d), x \in {"who", "question", "timeout"} :
           channel'.query[k][x] = d.query[k][x]
      /\ \A k \in LiveIn(d) : HeldIn(d, k) => HeldIn(channel', k)
  BY <1>1, <1>3, StolenHeld
<1> QED
  BY <1>1, <1>2, <1>3, <1>4, SocketStep

LEMMA StolenStep ==
  ASSUME IInv, UNCHANGED <<last_timeout_processed, due, ending, greenletVars>>,
         at' \in Server, due = <<>>, channel.stolen = <<>>, NEW s \in Server,
         channel' \in {channel, Stolen(channel, s)}
  PROVE  IInv'
<1>1. Listed(channel) /\ AllListed(channel)
  BY DEF IInv, Kept
<1>2. CASE channel' = channel
  BY <1>1, <1>2, SocketStep
<1>3. CASE channel' = Stolen(channel, s)
  BY <1>1, <1>3, StolenHeld, SocketStep
<1> QED
  BY <1>2, <1>3

LEMMA ReadDoneStep ==
  ASSUME IInv, ReadDone
  PROVE  IInv'
<1>1. /\ due = <<>> /\ channel.stolen = <<>> /\ at' = at /\ at \in Server
      /\ channel' \in {channel, Stolen(channel, at)}
      /\ UNCHANGED <<last_timeout_processed, due, ending, greenletVars>>
  BY DEF ReadDone, Turn, IInv, Dues, Typed
<1> QED
  BY <1>1, StolenStep

LEMMA BrokenConnectionStep ==
  ASSUME IInv, BrokenConnection
  PROVE  IInv'
<1>1. /\ due = <<>> /\ channel.stolen = <<>> /\ at \in Server
      /\ channel' \in {channel, Stolen(channel, at)}
      /\ at' = (IF at < NServers THEN at + 1 ELSE 1)
      /\ UNCHANGED <<last_timeout_processed, due, ending, greenletVars>>
  BY DEF BrokenConnection, Turn, IInv, Dues, Typed
<1>2. at' \in Server
  BY <1>1, ResolverAssumption DEF Server
<1> QED
  BY <1>1, <1>2, StolenStep

(* A channel that is new has no queries.                                   *)
LEMMA FreshKept == Listed(Fresh) /\ AllListed(Fresh) /\ LiveIn(Fresh) = {}
<1>1. /\ DOMAIN Fresh = {"query", "all_queries", "queries_by_timeout", "stolen", "queries_to_server",
                         "open", "is_broken", "qhead", "asked", "age"}
      /\ Fresh.query = [k \in Key |-> NoQuery] /\ Fresh.all_queries = <<>>
      /\ Fresh.queries_by_timeout = <<>> /\ Fresh.stolen = <<>>
      /\ Fresh.queries_to_server = [s \in Server |-> <<>>]
  BY DEF Fresh
<1>2. LiveIn(Fresh) = {}
  BY <1>1 DEF LiveIn, NoQuery
<1>3. Listed(Fresh)
  BY <1>1, <1>2, EmptyList DEF Listed
<1>4. AllListed(Fresh)
  BY <1>1, <1>2, EmptyList DEF AllListed
<1> QED
  BY <1>2, <1>3, <1>4

LEMMA UnreachableStep ==
  ASSUME IInv, NEW s \in Server, Unreachable(s)
  PROVE  IInv'
<1>1. /\ due = <<>> /\ ending = 0 /\ channel' = Fresh /\ last_timeout_processed' = 0
      /\ place' = [place EXCEPT ![Main] = "run"]
      /\ \/ /\ result' = [result EXCEPT ![Main] = Ended("gaierror", lookup[Main].name)]
            /\ lookup' = [lookup EXCEPT ![Main] = Over(@.name)]
         \/ UNCHANGED <<result, lookup>>
      /\ UNCHANGED <<processVars, ending, lookups>>
  BY DEF Unreachable, Idle, Quiet, Turn, IInv, Dues
<1>2. UNCHANGED <<pc, at, due>>
  BY <1>1 DEF processVars
<1>3. Live' = {} /\ LiveIn(channel') = {}
  BY <1>1, FreshKept, LiveIsLiveIn
<1>4. Typed'
  BY <1>1, <1>2, <1>3 DEF IInv, Typed
<1>5. Kept' /\ OnTime'
  BY <1>1, <1>3, FreshKept DEF Kept, OnTime
<1>6. Dues'
  BY <1>1, <1>2, EmptyList DEF Dues
<1>7. Asks(channel', ending', lookup', place')
  BY <1>3 DEF Asks
<1>8. ResultIsAnswer'
  BY <1>1 DEF IInv, Typed, ResultIsAnswer, Ended, Over
<1> QED
  BY <1>4, <1>5, <1>6, <1>7, <1>8 DEF IInv

LEMMA ProcessAnswerStep ==
  ASSUME Sensible, IInv, NEW s \in Server, ProcessAnswer(s)
  PROVE  IInv'
<1>1. /\ due = <<>> /\ due' = <<>> /\ ending = 0
      /\ UNCHANGED <<last_timeout_processed, pc, at, lookups>>
  BY DEF ProcessAnswer, Turn, IInv, Dues, processVars
<1>2. /\ IsList(due') /\ \A j, k : Occurs(due', j) <=> Occurs(due, j) /\ j # k
      /\ due' = <<>>
  BY <1>1, EmptyList
<1>3. PICK answer \in channel.asked[s], kind \in Answer, k \in Live :
        LET q == channel.query[k]
        IN /\ k \in Matching(answer)
           /\ CASE kind = "truncated" ->
                    /\ ~q.using_tcp
                    /\ LET r == [q EXCEPT !.using_tcp = TRUE]
                       IN \/ /\ channel' \in Sendings(channel, k, r, TRUE)
                             /\ UNCHANGED <<ending, active, place, lookup, result>>
                          \/ /\ CannotSend(channel, r, TRUE)
                             /\ EndQuery(channel, k, q.error_status, "none", answer.question.name)
               [] kind = "servfail" ->
                    LET r == [q EXCEPT !.skip = Skipping(q, {s})]
                    IN IF q.server = s THEN NextServer(channel, k, r)
                       ELSE /\ channel' = [channel EXCEPT !.query[k] = r]
                            /\ UNCHANGED <<ending, active, place, lookup, result>>
               [] OTHER -> EndQuery(channel, k, StatusOf(kind), kind, answer.question.name)
  BY DEF ProcessAnswer
<1> DEFINE q == channel.query[k]
           first == TRUE
           t == [q EXCEPT !.using_tcp = TRUE]
           r == [q EXCEPT !.skip = Skipping(q, {s})]
<1>4. q.question = answer.question /\ IsQuery(q) /\ k \in LiveIn(channel) /\ k \in Key
  BY <1>3 DEF Matching, IInv, Kept, Listed, Live, LiveIn
<1>5. /\ IsQuery(t) /\ t.who = q.who /\ t.question = q.question
      /\ IsQuery(r) /\ r.who = q.who /\ r.question = q.question
      /\ r.timeout = q.timeout /\ r.server = q.server /\ r.using_tcp = q.using_tcp
      /\ r.try_count = q.try_count /\ DOMAIN r = DOMAIN q
  BY <1>4 DEF IsQuery
<1>6. \/ /\ channel' \in Sendings(channel, k, t, first)
         /\ UNCHANGED <<ending, active, place, lookup, result>>
      \/ NextServer(channel, k, r)
      \/ /\ channel' = [channel EXCEPT !.query[k] = r]
         /\ UNCHANGED <<ending, active, place, lookup, result>>
      \/ \E status, about : EndQuery(channel, k, status, about, channel.query[k].question.name)
  BY <1>3, <1>4
<1> HIDE DEF t, r, first
<1>7. CASE /\ channel' \in Sendings(channel, k, t, first)
           /\ UNCHANGED <<ending, active, place, lookup, result>>
  BY <1>1, <1>2, <1>5, <1>7, SendStep
<1>8. CASE NextServer(channel, k, r)
  BY <1>1, <1>2, <1>5, <1>8, NextServerStep
<1>9. CASE /\ channel' = [channel EXCEPT !.query[k] = r]
           /\ UNCHANGED <<ending, active, place, lookup, result>>
  <2>1. Listed(channel) /\ AllListed(channel)
    BY DEF IInv, Kept
  <2>2. /\ DOMAIN channel' = DOMAIN channel /\ channel'.query = [channel.query EXCEPT ![k] = r]
        /\ channel'.all_queries = channel.all_queries /\ channel'.stolen = channel.stolen
        /\ channel'.open = channel.open
        /\ channel'.queries_by_timeout = channel.queries_by_timeout
        /\ channel'.queries_to_server = channel.queries_to_server
    BY <1>9, <2>1 DEF Listed
  <2>3. /\ DOMAIN channel'.query = Key
        /\ \A j \in Key : channel'.query[j] = IF j = k THEN r ELSE channel.query[j]
    BY <2>1, <2>2 DEF Listed
  <2>4. \A j \in LiveIn(channel) : j \in Key /\ channel.query[j].live = TRUE
    BY <2>1 DEF Listed, LiveIn, IsQuery
  <2>5. r.live = TRUE /\ channel.query[k].live
    BY <1>4, <1>5 DEF IsQuery
  <2>6. \A j \in Key : channel'.query[j].live <=> channel.query[j].live
    BY <2>3, <2>5
  <2>7. \A j \in LiveIn(channel) :
           /\ DOMAIN channel'.query[j] = DOMAIN channel.query[j] /\ channel'.query[j].live = TRUE
           /\ \A x \in {"who", "question", "server", "try_count", "timeout", "using_tcp"} :
                channel'.query[j][x] = channel.query[j][x]
    BY <1>5, <2>3, <2>4, <2>5
  <2>8. /\ Listed(channel') /\ LiveIn(channel') = LiveIn(channel) /\ AllListed(channel')
        /\ \A j \in LiveIn(channel) : HeldIn(channel', j) <=> HeldIn(channel, j)
    <3>1. \A j \in LiveIn(channel) :
           /\ DOMAIN channel'.query[j] = DOMAIN channel.query[j] /\ channel'.query[j].live = TRUE
           /\ \A x \in {"who", "server", "try_count", "timeout", "using_tcp"} :
                channel'.query[j][x] = channel.query[j][x]
      BY <2>7
    <3>2. SameIn(channel, channel')
      BY <2>2, <2>3, <2>6, <3>1 DEF SameIn
    <3> QED
      BY <2>1, <3>2, SameQueries
  <2>9. UNCHANGED <<place, lookup, lookups, result>> /\ at' \in Server /\ UNCHANGED due
    BY <1>1, <1>9 DEF IInv, Typed
  <2>10. UNCHANGED greenletVars
    BY <1>9, <2>9 DEF ProcessAnswer, greenletVars
  <2> QED
    BY <1>1, <1>9, <2>7, <2>8, <2>9, <2>10, SocketStep
<1>10. CASE \E status, about : EndQuery(channel, k, status, about, channel.query[k].question.name)
  BY <1>1, <1>2, <1>10, EndQueryStep
<1> QED
  BY <1>6, <1>7, <1>8, <1>9, <1>10

LEMMA MoveOnStep ==
  ASSUME Sensible, IInv, MoveOn
  PROVE  IInv'
<1> DEFINE k == Head(channel.stolen)
           q == channel.query[k]
           r == [q EXCEPT !.skip = Skipping(q, {q.server})]
<1>1. /\ ending = 0 /\ channel.stolen # <<>> /\ due = <<>> /\ due' = <<>>
      /\ UNCHANGED <<last_timeout_processed, pc, at, lookups>>
      /\ NextServer(channel, k, r)
  BY DEF MoveOn, IInv, Dues, processVars
<1>2. IsList(due') /\ \A i, j : Occurs(due', j) <=> Occurs(due, j) /\ j # i
  BY <1>1, EmptyList
<1>3. k \in Live
  <2>1. Listed(channel) /\ IsList(channel.stolen)
    BY DEF IInv, Kept, Listed
  <2>2. Occurs(channel.stolen, k)
    BY <1>1, <2>1, TailList
  <2> QED
    BY <2>1, <2>2, LiveIsLiveIn DEF Listed
<1>4. IsQuery(q)
  BY <1>3, LiveIsLiveIn DEF IInv, Kept, Listed
<1>5. IsQuery(r) /\ r.who = q.who /\ r.question = q.question
  BY <1>4 DEF IsQuery
<1> HIDE DEF k, r
<1> QED
  BY <1>1, <1>2, <1>3, <1>5, NextServerStep

LEMMA TimedOutStep ==
  ASSUME Sensible, IInv, TimedOut
  PROVE  IInv'
<1> DEFINE k == Head(due)
           q == channel.query[k]
           r == [q EXCEPT !.error_status = "ETIMEOUT"]
<1>1. /\ ending = 0 /\ due # <<>> /\ due' = Tail(due)
      /\ UNCHANGED <<last_timeout_processed, pc, at, lookups>>
      /\ NextServer(channel, k, r)
  BY DEF TimedOut, Turn
<1>2. /\ IsList(due') /\ Occurs(due, k) /\ k \in Live
      /\ \A j : Occurs(due', j) <=> Occurs(due, j) /\ j # k
  BY <1>1, TailList DEF IInv, Dues
<1>3. IsQuery(q)
  BY <1>2, LiveIsLiveIn DEF IInv, Kept, Listed
<1>4. IsQuery(r) /\ r.who = q.who /\ r.question = q.question
  BY <1>3 DEF IsQuery
<1> HIDE DEF k, r
<1> QED
  BY <1>1, <1>2, <1>4, NextServerStep

(* Every query whose second has passed is among those to move on.          *)
LEMMA ProcessTimeoutsStep ==
  ASSUME IInv, ProcessTimeouts
  PROVE  IInv'
<1> DEFINE list == channel.queries_by_timeout
<1>1. /\ ending = 0 /\ channel.stolen = <<>> /\ due = <<>> /\ last_timeout_processed' = 0
      /\ pc' = "timeouts" /\ UNCHANGED <<channel, at, ending, greenletVars>>
  BY DEF ProcessTimeouts, Turn, IInv, Dues
<1>2. PICK early \in SUBSET {k \in Expired(list) : channel.query[k].timeout = 0} :
        LET over == Expired(list) \ early
        IN /\ due' \in [1 .. Cardinality(over) -> over]
           /\ \A k \in over : Occurs(due', k)
           /\ \A m, n \in DOMAIN due' : m < n => Precedes(list, due'[m], due'[n])
  BY DEF ProcessTimeouts
<1> DEFINE over == Expired(list) \ early
<1>3. /\ due' \in [1 .. Cardinality(over) -> over] /\ \A k \in over : Occurs(due', k)
      /\ \A m, n \in DOMAIN due' : m < n => Precedes(list, due'[m], due'[n])
  BY <1>2
<1>4. over \subseteq Live /\ Live \subseteq Key /\ 0 \notin Key
  BY ResolverAssumption DEF Expired, Live
<1>5. IsList(list) /\ \A k \in over : channel.query[k].timeout \in Int
  BY <1>4, LiveIsLiveIn DEF IInv, Kept, Listed, IsQuery
<1>6. \A k \in Live : /\ channel.query[k].timeout \in Int /\ Occurs(list, k)
                      /\ channel.query[k].timeout >= last_timeout_processed
  BY <1>1, <1>4, LiveIsLiveIn, EmptyList DEF IInv, Kept, OnTime, HeldIn, Listed, IsQuery
<1>7. \A k \in Live : channel.query[k].timeout < 0 => k \in over
  <2> SUFFICES ASSUME NEW k \in Live, channel.query[k].timeout < 0 PROVE k \in over
    OBVIOUS
  <2>1. k \in Expired(list)
    BY <1>6 DEF Expired, IInv, Typed
  <2> QED
    BY <2>1
<1>8. Cardinality(over) \in Nat
  BY <1>4, ResolverAssumption, FS_Subset, FS_CardinalityType
<1> HIDE DEF over
<1>9. IsList(due')
  <2>1. due' \in Seq(Key) /\ DOMAIN due' = 1 .. Cardinality(over) /\ \A m \in DOMAIN due' : due'[m] \in over
    <3>1. due' \in [1 .. Cardinality(over) -> Key]
      BY <1>3, <1>4
    <3> QED
      BY <1>3, <1>8, <3>1, SeqDef
  <2>2. ASSUME NEW m \in DOMAIN due', NEW n \in DOMAIN due', m < n PROVE due'[m] # due'[n]
    BY <1>3, <1>5, <2>1, <2>2 DEF Precedes, IsList, Distinct
  <2>3. Distinct(due')
    <3> SUFFICES ASSUME NEW m \in DOMAIN due', NEW n \in DOMAIN due', due'[m] = due'[n], m # n
                 PROVE  FALSE
      BY DEF Distinct
    <3>1. m \in Int /\ n \in Int
      BY <2>1
    <3>2. m < n \/ n < m
      BY <3>1
    <3> QED
      BY <2>2, <3>2
  <2> QED
    BY <2>1, <2>3 DEF IsList
<1>10. Live' = Live
  BY <1>1, LiveIsLiveIn
<1>11. Typed'
  BY <1>1, <1>10 DEF IInv, Typed, greenletVars
<1>12. Kept'
  BY <1>1, <1>10 DEF IInv, Kept
<1>13. OnTime'
  <2> SUFFICES ASSUME NEW k \in Live PROVE channel.query[k].timeout >= 0 \/ Occurs(due', k)
    BY <1>1, <1>10 DEF OnTime
  <2> QED
    BY <1>3, <1>6, <1>7
<1>14. Dues'
  <2>1. \A k : Occurs(due', k) => k \in Live \ {ending}
    BY <1>1, <1>3, <1>4 DEF Occurs
  <2> QED
    BY <1>1, <1>9, <1>10, <2>1 DEF Dues
<1>15. Asks(channel', ending', lookup', place') /\ ResultIsAnswer'
  BY <1>1 DEF IInv, ResultIsAnswer, greenletVars
<1> QED
  BY <1>11, <1>12, <1>13, <1>14, <1>15 DEF IInv

LEMMA TimeoutsDoneStep ==
  ASSUME IInv, TimeoutsDone
  PROVE  IInv'
<1>1. /\ due = <<>> /\ at' = 1 /\ 1 \in Server
      /\ UNCHANGED <<channel, last_timeout_processed, due, ending, greenletVars>>
  BY ResolverAssumption DEF TimeoutsDone, Server
<1>2. Listed(channel) /\ AllListed(channel)
  BY DEF IInv, Kept
<1> QED
  BY <1>1, <1>2, SocketStep

(* The order of two seconds stays when time passes.                        *)
LEMMA EarlierIsEarlier ==
  ASSUME NEW s \in Int, NEW t \in Int, s >= t
  PROVE  /\ Earlier(s) \in Int /\ Earlier(s) >= Earlier(t)
         /\ s <= 0 => Earlier(s) <= 0
  BY ResolverAssumption DEF Earlier

LEMMA TickStep ==
  ASSUME IInv, Tick
  PROVE  IInv'
<1> DEFINE query == [k \in Key |-> IF k \in Live THEN [channel.query[k] EXCEPT !.timeout = Earlier(@)]
                                  ELSE NoQuery]
           age == [f \in Socket |-> IF f \in channel.open THEN channel.age[f] + 1 ELSE 0]
<1>0. channel' = [channel EXCEPT !.query = query, !.age = age]
  BY DEF Tick
<1>1. /\ due = <<>> /\ ending = 0 /\ last_timeout_processed' = Earlier(last_timeout_processed)
      /\ UNCHANGED <<processVars, ending, greenletVars>>
  BY DEF Tick, Idle, Quiet, Turn, IInv, Dues
<1>2. /\ Listed(channel) /\ AllListed(channel) /\ Live = LiveIn(channel) /\ LiveIn(channel) \subseteq Key
      /\ UNCHANGED <<pc, at, due, place, lookup, lookups, result>>
      /\ 0 \notin LiveIn(channel)
  BY <1>1, LiveIsLiveIn, ResolverAssumption DEF IInv, Kept, processVars, greenletVars, LiveIn
<1> HIDE DEF query, age
<1>3. /\ DOMAIN channel' = DOMAIN channel /\ channel'.query = query
      /\ channel'.all_queries = channel.all_queries /\ channel'.stolen = channel.stolen
      /\ channel'.open = channel.open
      /\ channel'.queries_by_timeout = channel.queries_by_timeout
      /\ channel'.queries_to_server = channel.queries_to_server
  BY <1>0, <1>2 DEF Listed
<1>4. ASSUME NEW k \in LiveIn(channel)
      PROVE  /\ IsQuery(channel.query[k]) /\ IsQuery(channel'.query[k])
             /\ channel'.query[k].timeout = Earlier(channel.query[k].timeout)
             /\ \A x \in {"who", "question", "server", "using_tcp"} :
                  channel'.query[k][x] = channel.query[k][x]
  <2>1. IsQuery(channel.query[k]) /\ channel'.query[k] = [channel.query[k] EXCEPT !.timeout = Earlier(@)]
    BY <1>2, <1>3 DEF Listed, query
  <2>2. Earlier(channel.query[k].timeout) \in Int
    BY <2>1, EarlierIsEarlier DEF IsQuery
  <2> QED
    BY <2>1, <2>2 DEF IsQuery
<1>5. LiveIn(channel') = LiveIn(channel) /\ Live' = LiveIn(channel)
  <2>1. \A k \in Key \ LiveIn(channel) : channel'.query[k] = NoQuery
    BY <1>2, <1>3 DEF query
  <2>2. \A k \in LiveIn(channel) : channel'.query[k].live = TRUE
    BY <1>4 DEF IsQuery
  <2>3. LiveIn(channel') = LiveIn(channel)
    BY <2>1, <2>2 DEF LiveIn, NoQuery
  <2> QED
    BY <2>3, LiveIsLiveIn
<1>6. Listed(channel') /\ AllListed(channel')
  <2>1. DOMAIN channel'.query = Key
    BY <1>3 DEF query
  <2> QED
    BY <1>2, <1>3, <1>4, <1>5, <2>1 DEF Listed, AllListed
<1>7. Typed'
  <2>1. last_timeout_processed' \in Int /\ last_timeout_processed' <= 0
    BY <1>1, EarlierIsEarlier DEF IInv, Typed
  <2> QED
    BY <1>1, <1>2, <1>5, <2>1 DEF IInv, Typed
<1>8. Kept'
  <2>1. ASSUME NEW k \in LiveIn(channel) PROVE HeldIn(channel', k)
    <3>1. HeldIn(channel, k)
      BY <1>1, <1>2 DEF IInv, Kept
    <3>2. Home(channel'.query[k]) = Home(channel.query[k]) /\ channel'.query[k].server = channel.query[k].server
      BY <1>4 DEF Home
    <3> QED
      BY <1>3, <3>1, <3>2 DEF HeldIn
  <2> QED
    BY <1>5, <1>6, <2>1 DEF Kept
<1>9. OnTime'
  <2> SUFFICES ASSUME NEW k \in LiveIn(channel)
               PROVE  channel'.query[k].timeout >= last_timeout_processed'
    BY <1>5 DEF OnTime
  <2>1. channel.query[k].timeout >= last_timeout_processed /\ last_timeout_processed \in Int
    BY <1>1, <1>2, EmptyList DEF IInv, OnTime, Typed
  <2> QED
    BY <1>1, <1>4, <2>1, EarlierIsEarlier DEF IsQuery
<1>10. Dues'
  BY <1>1, <1>2, EmptyList DEF Dues
<1>11. Asks(channel', ending', lookup', place')
  <2>1. Asks(channel, ending, lookup, place)
    BY DEF IInv
  <2>2. \A k \in LiveIn(channel) : /\ channel'.query[k].who = channel.query[k].who
                                   /\ channel'.query[k].question = channel.query[k].question
    BY <1>4
  <2> QED
    BY <1>1, <1>2, <1>5, <2>1, <2>2 DEF Asks
<1>12. ResultIsAnswer'
  BY <1>2 DEF IInv, ResultIsAnswer
<1> QED
  BY <1>7, <1>8, <1>9, <1>10, <1>11, <1>12 DEF IInv
-----------------------------------------------------------------------------
LEMMA InitHolds ==
  ASSUME Init
  PROVE  IInv
<1>1. /\ channel = Fresh /\ last_timeout_processed = 0 /\ at = 1 /\ due = <<>> /\ ending = 0
      /\ lookups = [g \in Greenlet |-> 0] /\ result = [g \in Greenlet |-> NoResult]
      /\ DOMAIN place = Greenlet /\ DOMAIN lookup = Greenlet
  BY DEF Init
<1>2. Live = {} /\ LiveIn(channel) = {} /\ Listed(channel) /\ AllListed(channel)
  BY <1>1, FreshKept, LiveIsLiveIn
<1>3. Typed
  BY <1>1, ResolverAssumption DEF Typed, Server
<1>4. Kept /\ OnTime /\ Asks(channel, ending, lookup, place)
  BY <1>2 DEF Kept, OnTime, Asks
<1>5. Dues
  BY <1>1, EmptyList DEF Dues
<1>6. ResultIsAnswer
  BY <1>1 DEF ResultIsAnswer, NoResult
<1> QED
  BY <1>3, <1>4, <1>5, <1>6 DEF IInv

LEMMA NextHolds ==
  ASSUME Sensible, IInv, [Next]_vars
  PROVE  IInv'
<1>1. CASE Process
  BY <1>1, FreeQueryStep, ReadDoneStep, MoveOnStep, ProcessTimeoutsStep, TimedOutStep,
     TimeoutsDoneStep, BrokenConnectionStep, ProcessAnswerStep DEF Process
<1>2. CASE Events
  BY <1>2, ReadableStep, HangupStep, UnreachableStep DEF Events
<1>3. CASE Intervals
  BY <1>3, IntervalStep DEF Intervals
<1>4. CASE Code
  BY <1>4, LookupStep, EndStep, StartStep DEF Code
<1>5. CASE Tick
  BY <1>5, TickStep
<1>6. CASE UNCHANGED vars
  BY <1>6 DEF vars, processVars, greenletVars, IInv, Typed, Kept, OnTime, Dues, Live, ResultIsAnswer
<1> QED
  BY <1>1, <1>2, <1>3, <1>4, <1>5, <1>6 DEF Next

LEMMA Invariant ==
  ASSUME Sensible
  PROVE  Spec => []IInv
<1>1. Init => IInv
  BY InitHolds
<1>2. IInv /\ [Next]_vars => IInv'
  BY NextHolds
<1> QED
  BY <1>1, <1>2, PTL DEF Spec

(* However late, often or never the servers answer, and whatever fails, a  *)
(* query in flight is in the one list of its server (or in the one that    *)
(* handle_error goes through), there is a socket to that server, and       *)
(* process_timeouts has yet to come to the second it is given.             *)
THEOREM QueriesAreHeld ==
  ASSUME Sensible
  PROVE  Spec => []QueriesHeld
<1>1. IInv => QueriesHeld
  <2> SUFFICES ASSUME IInv, NEW k \in Live \ {ending}
               PROVE  LET q == channel.query[k]
                      IN /\ \A s \in Server : Occurs(channel.queries_to_server[s], k)
                                               <=> s = q.server /\ ~Occurs(channel.stolen, k)
                         /\ \/ Occurs(channel.stolen, k)
                            \/ <<IF q.using_tcp THEN "tcp" ELSE "udp", q.server>> \in channel.open
                         /\ Occurs(channel.queries_by_timeout, k)
                         /\ q.timeout >= last_timeout_processed \/ Occurs(due, k)
    BY DEF QueriesHeld
  <2>1. HeldIn(channel, k) /\ (channel.query[k].timeout >= last_timeout_processed \/ Occurs(due, k))
    BY DEF IInv, Kept, OnTime
  <2> QED
    BY <2>1 DEF HeldIn, Home
<1> QED
  BY <1>1, Invariant, PTL

(* What a lookup is given is about the name it is for, whatever ids the    *)
(* queries have and however late the answers to earlier ones are.          *)
THEOREM ResultsAreAnswers ==
  ASSUME Sensible
  PROVE  Spec => []ResultIsAnswer
<1>1. IInv => ResultIsAnswer
  BY DEF IInv
<1> QED
  BY <1>1, Invariant, PTL
=============================================================================
