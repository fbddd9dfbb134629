----------------------------- MODULE DnsMessage -----------------------------
(***************************************************************************)
(* ts/lib/skynet/skynet/dns.ts: what resolve() makes of the answer of a    *)
(* name server, and of its cache.  Dns has the way of a query to a server  *)
(* and back; here there is one server, which answers at once.              *)
(*                                                                         *)
(* A message is a sequence of cells: a label, the zero behind a name, a    *)
(* pointer to a cell, the fixed fields of a record, the length of its      *)
(* data, the data.  A label, a pointer and an address count as one each.   *)
(* A server writes each name in full or with a pointer to where it wrote   *)
(* an end of it before, but the target of an SRV record in full.           *)
(***************************************************************************)
EXTENDS Integers, Sequences, FiniteSets, SequencesExt, Functions

CONSTANTS
  MaxTtl,      \* Bound: the time to live of a record.
  MaxRecords,  \* Bound: the records of the first answer; others have one.
  MaxQueries,  \* Bound: the questions that reach the server.
  MaxNow       \* Bound: the time.

VARIABLES
  hosts,    \* The hosts file: {} if there is none, or the names it has.
  clock,    \* now()
  cached,   \* From [name, qtype] to [expired, data].
  asked,    \* The [name, qtype] that the server is to answer, or NoQuestion.
  count,    \* Its answer: the number of records,
  chunk,    \*   and the cells from the question's name on.
  suffixes, \* The names that the server has written so far, with their places.
  section,  \* The section that it is in.
  answer,   \* Its records so far.
  queries,  \* The questions that the server had so far.
  told,     \* History: the server's last answer to each [name, qtype].
  result    \* What resolve() returned or threw.

dnsVars == <<hosts, clock, cached, asked, count, chunk, suffixes, section, answer, queries, told, result>>

A == "A"
AAAA == "AAAA"
SRV == "SRV"
TXT == "TXT"
QTYPE == {A, AAAA, SRV, TXT}

\* What is asked for, and other names of the zone d: two targets of services,
\* a name server.
Name == {<<"q", "d">>, <<"p", "d">>}
Target == {<<"s", "d">>, <<"t", "d">>}
NameServer == <<"n", "d">>
Question == [name : {<<"q", "d">>}, qtype : {A, SRV, TXT}] \cup [name : {<<"p", "d">>}, qtype : {A}]
NoQuestion == [name |-> << >>, qtype |-> "none"]

NoResult == [error |-> "none"]

Init ==
  /\ hosts \in {{}, {<<"p", "d">>}}
  /\ clock = 0
  /\ cached = << >>
  /\ asked = NoQuestion
  /\ count = 0
  /\ chunk = << >>
  /\ suffixes = {}
  /\ section = 0
  /\ answer = << >>
  /\ queries = 0
  /\ told = << >>
  /\ result = NoResult

-----------------------------------------------------------------------------
(* The question, the cache, the hosts file.                                *)

\* Faulty variant of QueryCache: it does not look at the time.
QueryCacheStale(k) == k \in DOMAIN cached

\* Whether query_cache finds something.
QueryCache(k) == k \in DOMAIN cached /\ cached[k].expired >= clock

QuestionCells(k) == [i \in DOMAIN k.name |-> <<"label", k.name[i]>>] \o << <<"zero">>, <<"question">> >>

\* resolve of a name that is a name: the hosts file, which has IPv4 addresses,
\* stands before the cache, and that before the servers.
Resolve(k) ==
  /\ asked = NoQuestion
  /\ \/ /\ hosts = {}
        /\ result' = [error |-> "assert", question |-> k]
        /\ UNCHANGED <<cached, asked, queries, chunk, suffixes>>
     \/ /\ k.name \in hosts /\ k.qtype = A
        /\ result' = [error |-> "none", question |-> k, local |-> TRUE]
        /\ UNCHANGED <<cached, asked, queries, chunk, suffixes>>
     \/ /\ hosts # {} /\ ~(k.name \in hosts /\ k.qtype = A)
        /\ QueryCache(k)
        /\ result' = [error |-> "none", question |-> k, data |-> cached[k].data]
        /\ UNCHANGED <<cached, asked, queries, chunk, suffixes>>
     \/ /\ hosts # {} /\ ~(k.name \in hosts /\ k.qtype = A)
        /\ ~QueryCache(k) /\ queries < MaxQueries
        /\ queries' = queries + 1
        /\ asked' = k
        /\ cached' = Restrict(cached, DOMAIN cached \ {k})
        /\ chunk' = QuestionCells(k)
        /\ suffixes' = {<<SubSeq(k.name, i, Len(k.name)), i>> : i \in DOMAIN k.name}
        /\ result' = NoResult
  /\ UNCHANGED <<hosts, clock, count, section, answer, told>>

-----------------------------------------------------------------------------
(* The server writes its answer, record by record.                         *)

\* A server points to where it wrote an end first, or last.
IsFirst(w) == \A v \in suffixes : v[1] = w[1] => v[2] >= w[2]
IsLast(w) == \A v \in suffixes : v[1] = w[1] => v[2] <= w[2]

\* The ways to write a name behind n cells: some labels, then a pointer to the
\* rest or the end.
Written(name, n) ==
  {[cells |-> [i \in 1 .. Len(name) |-> <<"label", name[i]>>] \o << <<"zero">> >>, labels |-> Len(name)]}
    \cup
  {[cells |-> [i \in 1 .. s[1] |-> <<"label", name[i]>>] \o << <<"pointer", s[2][2]>> >>, labels |-> s[1]] :
     s \in {<<j, w>> \in (0 .. Len(name) - 1) \X suffixes :
              w[1] = SubSeq(name, j + 1, Len(name)) /\ (IsFirst(w) \/ IsLast(w))}}

\* What a name written behind n cells adds to the suffixes.
Places(name, labels, n) == {<<SubSeq(name, i, Len(name)), n + i>> : i \in 1 .. labels}

\* The name servers of a zone stand in section 2, addresses that nobody asked
\* for in section 3, other records in section 1.
Section(r) ==
  CASE r.type = "NS" -> 2
    [] r.type \in {A, AAAA} /\ r.name # asked.name -> 3
    [] OTHER -> 1

\* The data of a record behind n cells.
DataOf(r, n) ==
  CASE r.type \in {A, AAAA} -> {<< <<"address", r.value>> >>}
    [] r.type = SRV ->
         {<< <<"srv", r.value>> >> \o [i \in DOMAIN r.target |-> <<"label", r.target[i]>>] \o << <<"zero">> >>}
    [] r.type = TXT -> {[i \in 1 .. r.value |-> <<"text", i>>]}
    [] r.type = "NS" -> {w.cells : w \in Written(r.target, n)}

\* What the server may say: addresses of any name, and what it was asked for.
\* Addresses and ports are told apart by the place of their record.
Records(n) ==
  {[name |-> asked.name, type |-> A, value |-> n, ttl |-> l] : l \in 0 .. MaxTtl}
    \cup {[name |-> m, type |-> t, value |-> n, ttl |-> 1] : m \in Target \cup {NameServer}, t \in {A}}
    \cup {[name |-> asked.name, type |-> SRV, value |-> n, target |-> m, ttl |-> l] :
            m \in Target, l \in IF asked.qtype = SRV THEN 1 .. MaxTtl ELSE {}}
    \cup {[name |-> asked.name, type |-> TXT, value |-> v, ttl |-> 1] :
            v \in IF asked.qtype = TXT THEN {0, 2} ELSE {}}
    \cup {[name |-> <<"d">>, type |-> "NS", target |-> NameServer, ttl |-> 1]}

Adds ==
  /\ asked # NoQuestion
  /\ count < IF queries = 1 THEN MaxRecords ELSE 1
  /\ \E r \in Records(count) : \E w \in Written(r.name, Len(chunk)) :
       LET at == Len(chunk) + Len(w.cells) + 2
           new == Places(r.name, w.labels, Len(chunk))
       IN  \E d \in DataOf(r, at) :
             /\ Section(r) >= section
             /\ section' = Section(r)
             /\ answer' = Append(answer, r)
             /\ chunk' = chunk \o w.cells \o << <<"fixed", r.type, r.ttl>>, <<"length", Len(d)>> >> \o d
             /\ suffixes' = suffixes \cup new \cup
                  CASE r.type = "NS" -> Places(r.target, Len(d) - 1, at)
                    [] r.type = SRV -> Places(r.target, Len(r.target), at + 1)
                    [] OTHER -> {}
  /\ count' = count + 1
  /\ UNCHANGED <<hosts, clock, cached, asked, queries, told, result>>

-----------------------------------------------------------------------------
(* The answer is read.                                                     *)

RECURSIVE UnpackLabels(_, _, _, _)

\* What follows a name: behind its first pointer, if it has one.
AfterName(jump_pointer, left) == IF jump_pointer = 0 THEN left ELSE jump_pointer

\* unpack_name.
UnpackLabels(s, left, t, jump_pointer) ==
  CASE s[left][1] = "pointer" ->
         UnpackLabels(s, s[left][2], t, IF jump_pointer = 0 THEN left + 1 ELSE jump_pointer)
    [] s[left][1] = "label" -> UnpackLabels(s, left + 1, Append(t, s[left][2]), jump_pointer)
    [] s[left][1] = "zero" -> [name |-> t, left |-> AfterName(jump_pointer, left + 1)]
UnpackName(s, left) == UnpackLabels(s, left, << >>, 0)

\* unpack_type
UnpackData(type, data) ==
  CASE type \in {A, AAAA} -> [address |-> data[1][2]]
    [] type = SRV -> [port |-> data[1][2], target |-> UnpackName(data, 2).name]
    [] type = TXT -> [txt |-> [i \in DOMAIN data |-> data[i][2]]]

RECURSIVE UnpackSection(_, _, _)

\* unpack_section, of the three sections in a row: which one a record stands
\* in is never looked at.
UnpackSection(left, n, answers) ==
  IF n = 0 THEN answers
  ELSE LET name == UnpackName(chunk, left)
           fixed == chunk[name.left]
           len == chunk[name.left + 1][2]
           data == SubSeq(chunk, name.left + 2, name.left + 1 + len)
       IN  UnpackSection(name.left + 2 + len, n - 1,
             IF fixed[2] \in QTYPE
               THEN Append(answers, [name |-> name.name, qtype |-> fixed[2], ttl |-> fixed[3],
                                     v |-> UnpackData(fixed[2], data)])
               ELSE answers)

UnpackResponse == UnpackSection(UnpackName(chunk, 1).left + 1, count, << >>)

Of(answers, type) == SelectSeq(answers, LAMBDA ans : ans.qtype = type)

\* 0 is undefined here: an answer without a time to live is not cached.
TtlOf(answers) == IF answers = << >> THEN 0 ELSE Last(answers).ttl

\* An address fits if its name is the target of a service before it.
Fits(answers, i) ==
  answers[i].qtype \in {A, AAAA} =>
    \E j \in 1 .. i - 1 : answers[j].qtype = SRV /\ answers[j].v.target = answers[i].name

\* servers, in the order of their first records, with the last record and the
\* last address of each.
Servers(answers) ==
  LET srv == Of(answers, SRV)
      first == SelectSeq([i \in DOMAIN srv |-> i],
                 LAMBDA i : \A j \in 1 .. i - 1 : srv[j].v.target # srv[i].v.target)
      of(i) == SelectSeq(answers, LAMBDA ans :
                 \/ ans.qtype = SRV /\ ans.v.target = srv[i].v.target
                 \/ ans.qtype \in {A, AAAA} /\ ans.name = srv[i].v.target)
      server(i) ==
        [name |-> srv[i].v.target,
         port |-> Last(Of(of(i), SRV)).v.port,
         ttl |-> Last(Of(of(i), SRV)).ttl,
         host |-> IF Last(of(i)).qtype = SRV THEN 0 ELSE Last(of(i)).v.address]
  IN  [i \in DOMAIN first |-> server(first[i])]

\* The results and the time to live that normalize finds.
Normalize(qtype, answers) ==
  CASE qtype \in {A, AAAA} ->
         [results |-> [i \in DOMAIN Of(answers, qtype) |-> Of(answers, qtype)[i].v.address],
          ttl |-> TtlOf(Of(answers, qtype))]
    [] qtype = TXT ->
         [results |-> FlattenSeq([i \in DOMAIN Of(answers, TXT) |-> Of(answers, TXT)[i].v.txt]),
          ttl |-> TtlOf(Of(answers, TXT))]
    [] qtype = SRV -> [results |-> Servers(answers), ttl |-> TtlOf(Servers(answers))]

SetCache(r) ==
  cached' = IF r.ttl # 0 THEN (asked :> [expired |-> clock + r.ttl, data |-> r]) @@ cached ELSE cached

\* remote_resolve, from the server's answer on.
Answered ==
  /\ asked # NoQuestion
  /\ LET answers == UnpackResponse
     IN  \/ /\ answers = << >>
            /\ result' = [error |-> "noanswers", question |-> asked]
            /\ UNCHANGED cached
         \/ /\ answers # << >>
            /\ asked.qtype = SRV /\ \E i \in DOMAIN answers : ~Fits(answers, i)
            /\ result' = [error |-> "assert", question |-> asked]
            /\ UNCHANGED cached
         \/ /\ answers # << >>
            /\ asked.qtype = SRV => \A i \in DOMAIN answers : Fits(answers, i)
            /\ LET r == Normalize(asked.qtype, answers)
               IN  /\ SetCache(r)
                   /\ result' = [error |-> "none", question |-> asked, data |-> r]
  /\ told' = (asked :> [at |-> clock, answer |-> answer]) @@ told
  /\ asked' = NoQuestion
  /\ count' = 0
  /\ chunk' = << >>
  /\ suffixes' = {}
  /\ section' = 0
  /\ answer' = << >>
  /\ UNCHANGED <<hosts, clock, queries>>

\* The server refuses, or its answer is malformed: nothing is kept.
Refused ==
  /\ asked # NoQuestion /\ answer = << >>
  /\ result' = [error |-> "refused", question |-> asked]
  /\ asked' = NoQuestion
  /\ chunk' = << >>
  /\ suffixes' = {}
  /\ UNCHANGED <<hosts, clock, cached, count, section, answer, queries, told>>

Tick ==
  /\ asked = NoQuestion /\ clock < MaxNow /\ queries > 0
  /\ clock' = clock + 1
  /\ result' = NoResult
  /\ UNCHANGED <<hosts, cached, asked, count, chunk, suffixes, section, answer, queries, told>>

Next ==
  \/ \E k \in Question : Resolve(k)
  \/ Adds \/ Answered \/ Refused \/ Tick

Spec == Init /\ [][Next]_dnsVars

-----------------------------------------------------------------------------
(* Properties.                                                             *)

Typed(records, types) == SelectSeq(records, LAMBDA r : r.type \in types)
Values(records) == [i \in DOMAIN records |-> records[i].value]

\* The addresses of an answer are those of the name, if no others stand in it:
\* addresses of name servers or of the targets of services are taken for the
\* name's, whatever section they stand in (dns.ts:687).
AddressesAre(k, records, results) ==
  results = Values(SelectSeq(records, LAMBDA r : r.type = k.qtype /\ r.name = k.name))
    <=> \A i \in DOMAIN records : records[i].type = k.qtype => records[i].name = k.name

\* Every target of a service comes once, with its last port, and its last
\* address if the answer has one.
ServicesAre(records, results) ==
  /\ {s.name : s \in ToSet(results)} = {r.target : r \in ToSet(Typed(records, {SRV}))}
  /\ \A i, j \in DOMAIN results : results[i].name = results[j].name => i = j
  /\ \A s \in ToSet(results) :
       LET ports == Values(SelectSeq(records, LAMBDA r : r.type = SRV /\ r.target = s.name))
           addresses == Values(SelectSeq(records, LAMBDA r : r.type \in {A, AAAA} /\ r.name = s.name))
       IN  s.port = Last(ports) /\ s.host = IF addresses = << >> THEN 0 ELSE Last(addresses)

TextsAre(records, results) ==
  Len(results) = FoldSeq(+, 0, Values(Typed(records, {TXT})))

\* What resolve() returns is what the server said of the name last, its names
\* put together from wherever they were written, no longer ago than the time
\* to live of one of the records (the last one's counts, not the least).  It
\* fails if the answer has nothing, or, for services, an address of a name
\* that is no target, as that of a name server is (dns.ts:729).
ResolvedAsTold ==
  "question" \in DOMAIN result /\ hosts # {} /\ "local" \notin DOMAIN result /\ result.error # "refused" =>
    LET k == result.question
        records == told[k].answer
        unfit == \E i \in DOMAIN records :
                   /\ records[i].type \in {A, AAAA}
                   /\ \A j \in 1 .. i - 1 : records[j].type = SRV => records[j].target # records[i].name
    IN  CASE Typed(records, QTYPE) = << >> -> result.error = "noanswers"
          [] k.qtype = SRV /\ unfit -> result.error = "assert"
          [] OTHER ->
               /\ result.error = "none"
               /\ \/ clock = told[k].at
                  \/ \E r \in ToSet(Typed(records, {k.qtype})) : clock - told[k].at <= r.ttl
               /\ CASE k.qtype = A -> AddressesAre(k, records, result.data.results)
                    [] k.qtype = SRV -> ServicesAre(records, result.data.results)
                    [] k.qtype = TXT -> TextsAre(records, result.data.results)
=============================================================================
