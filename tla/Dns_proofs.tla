----------------------------- MODULE Dns_proofs -----------------------------
(***************************************************************************)
(* Proofs about Dns, for any number of resolvers and servers.              *)
(*                                                                         *)
(* That no server is lost and that sockets are open when they are written  *)
(* to needs nothing but the code.  That answers go to those who asked also *)
(* needs that ids do not come round too early: gen_tid avoids the ids of   *)
(* the queries in progress, but not those that a late answer or a timer    *)
(* still carries, which only the length of the cycle keeps apart           *)
(* (FreshTids).                                                            *)
(***************************************************************************)
EXTENDS Dns, SequenceTheorems, TLAPS

Active(r) == pc[r] \notin {"idle", "done"}

\* The id that gen_tid returns is one, as it asserts, and nothing carries it.
TidIsFresh ==
  /\ NewTid \in Tid
  /\ \A r \in Resolver : Active(r) => tid[r] # NewTid
  /\ \A p \in sent \cup timers \cup checks : p.tid # NewTid

\* Whoever takes an id in this step takes one that is fresh.
TakesFresh ==
  \A r \in Resolver : pc'[r] # pc[r] /\ pc'[r] \in {"select", "select tcp"} => TidIsFresh

\* Ids do not come round while something carries them.
FreshTids == [][TakesFresh]_vars

-----------------------------------------------------------------------------
(***************************************************************************)
(* The inductive invariant of the lists and the sockets.                   *)
(***************************************************************************)

\* All servers, in parts.
Whole(a, b, c) ==
  /\ Len(a) + Len(b) + Len(c) = MaxServer
  /\ ToSet(a) \cup ToSet(b) \cup ToSet(c) = Server

ListsTyped ==
  /\ servers \in Seq(Server)
  /\ udp \in [Server -> {"closed", "fresh", "expired"}]
  /\ alive \in [Server -> {"none", "asleep", "due"}]
  /\ pc \in [Resolver -> PC]
  /\ list \in [Resolver -> Seq(Server)]
  /\ good \in [Resolver -> Seq(Server)]
  /\ bad \in [Resolver -> Seq(Server)]
  /\ \A s \in Server : udp[s] = "closed" <=> alive[s] = "none"

\* Whoever has not returned has a server to ask.
ListsWhole ==
  /\ Whole(<< >>, << >>, servers)
  /\ \A r \in Resolver :
       /\ list[r] # << >> => Whole(good[r], bad[r], list[r])
       /\ Active(r) => list[r] # << >>
       /\ pc[r] = "idle" => list[r] = << >> /\ good[r] = << >> /\ bad[r] = << >>

\* The retire of the server that was selected has just been put off.
SelectedIsFresh == \A r \in Resolver : pc[r] = "select" => udp[Head(list[r])] = "fresh"

Lists == ListsTyped /\ ListsWhole /\ SelectedIsFresh

-----------------------------------------------------------------------------
(***************************************************************************)
(* The inductive invariant of the ids.                                     *)
(***************************************************************************)

\* No two queries in progress have one id.
TidsDiffer ==
  \A r, q \in Resolver : Active(r) /\ Active(q) /\ tid[r] = tid[q] => r = q

\* What carries the id of a query in progress belongs to whose it is.
CarriedByOwner ==
  \A p \in sent \cup timers \cup checks : \A r \in Resolver :
    Active(r) /\ tid[r] = p.tid => r = p.of

\* The timer of a query starts when the query is sent, and is of its kind.
TimersMatch ==
  \A t \in timers \cup checks : \A r \in Resolver :
    Active(r) /\ tid[r] = t.tid =>
      /\ pc[r] \in {"asked", "told", "header", "body"}
      /\ t.tcp <=> pc[r] \in Reading

\* A query that waits has a connection only if it is over TCP, and the timer
\* that closes the connection takes the query out of the pool.
ConnectionsMatch ==
  \A r \in Resolver :
    /\ fd[r] # "none" => pc[r] \in Reading \cup {"done"}
    /\ fd[r] = "zero" => \A t \in Tid : pool[t] # r

\* The result of a query is for the name that was asked.
ResultsMatch == \A r \in Resolver : req[r].result \in {Nobody, r}

RestTyped ==
  /\ next_tid \in Tid
  /\ pool \in [Tid -> Resolver \cup {Nobody}]
  /\ timers \subseteq Timer
  /\ checks \subseteq Timer
  /\ sent \subseteq [tid : Tid, of : Resolver, to : Server]
  /\ tid \in [Resolver -> Tid]
  /\ req \in [Resolver -> [result : Resolver \cup {Nobody}, error : Errors]]
  /\ fd \in [Resolver -> {"none", "open", "zero"}]
  /\ read \in [Resolver -> 0 .. 2]
  /\ down \in [Resolver -> BOOLEAN]
  /\ outcome \in [Resolver -> {Pending, Fails, Throws} \cup Resolver]
  /\ turn \in 0 .. MaxBatch

Owned ==
  /\ TidsDiffer /\ CarriedByOwner /\ TimersMatch /\ PoolIsCurrent
  /\ ConnectionsMatch /\ ResultsMatch /\ AnswerIsOwn

Ids == RestTyped /\ Owned

-----------------------------------------------------------------------------
(***************************************************************************)
(* Lists of servers.                                                       *)
(***************************************************************************)

\* A list that is not empty has a head and a tail, which have its elements.
LEMMA SplitList ==
  ASSUME NEW s \in Seq(Server), s # << >>
  PROVE  /\ Head(s) \in Server /\ <<Head(s)>> \in Seq(Server) /\ Tail(s) \in Seq(Server)
         /\ Len(<<Head(s)>>) = 1 /\ Len(s) \in Nat /\ Len(Tail(s)) = Len(s) - 1
         /\ ToSet(<<Head(s)>>) \cup ToSet(Tail(s)) = ToSet(s)
<1>1. /\ Head(s) \in Server /\ Tail(s) \in Seq(Server)
      /\ Len(Tail(s)) = Len(s) - 1
      /\ \A i \in 1 .. Len(Tail(s)) : Tail(s)[i] = s[i + 1]
  BY HeadTailProperties
<1>2. /\ Len(s) \in Nat \ {0} /\ DOMAIN s = 1 .. Len(s) /\ Head(s) = s[1]
      /\ DOMAIN Tail(s) = 1 .. Len(Tail(s))
  BY <1>1, EmptySeq, LenProperties
<1>3. ToSet(<<Head(s)>>) = {s[1]}
  BY <1>2 DEF ToSet
<1>4. \A x : x \in ToSet(s) <=> \E i \in 1 .. Len(s) : x = s[i]
  BY <1>2 DEF ToSet
<1>5. \A x : x \in ToSet(Tail(s)) <=> \E i \in 1 .. (Len(s) - 1) : x = s[i + 1]
  <2>1. \A x : x \in ToSet(Tail(s)) <=> \E i \in 1 .. Len(Tail(s)) : x = Tail(s)[i]
    BY <1>2 DEF ToSet
  <2> QED
    BY <2>1, <1>1
<1>6. ASSUME NEW x
      PROVE  x \in ToSet(s) <=> x = s[1] \/ x \in ToSet(Tail(s))
  <2>1. ASSUME NEW i \in 1 .. Len(s), x = s[i], i # 1
        PROVE  x \in ToSet(Tail(s))
    <3>1. i - 1 \in 1 .. (Len(s) - 1) /\ (i - 1) + 1 = i
      BY <1>2, <2>1
    <3> QED
      BY <3>1, <2>1, <1>5
  <2>2. ASSUME NEW i \in 1 .. (Len(s) - 1), x = s[i + 1]
        PROVE  x \in ToSet(s)
    BY <2>2, <1>2, <1>4
  <2> QED
    BY <2>1, <2>2, <1>2, <1>4, <1>5
<1>7. ToSet(<<Head(s)>>) \cup ToSet(Tail(s)) = ToSet(s)
  BY <1>3, <1>6
<1> QED
  BY <1>1, <1>2, <1>7

\* A concatenation has the elements of both.
LEMMA JoinLists ==
  ASSUME NEW s \in Seq(Server), NEW u \in Seq(Server)
  PROVE  /\ s \o u \in Seq(Server)
         /\ Len(s) \in Nat /\ Len(u) \in Nat /\ Len(s \o u) = Len(s) + Len(u)
         /\ ToSet(s \o u) = ToSet(s) \cup ToSet(u)
<1> DEFINE w == s \o u
<1>1. /\ w \in Seq(Server)
      /\ Len(w) = Len(s) + Len(u)
      /\ \A i \in 1 .. Len(s) + Len(u) : w[i] = IF i <= Len(s) THEN s[i] ELSE u[i - Len(s)]
  BY ConcatProperties
<1>2. /\ Len(s) \in Nat /\ DOMAIN s = 1 .. Len(s)
      /\ Len(u) \in Nat /\ DOMAIN u = 1 .. Len(u)
      /\ DOMAIN w = 1 .. Len(w)
  BY <1>1, LenProperties
<1> HIDE DEF w
<1>3. ASSUME NEW x \in ToSet(w)
      PROVE  x \in ToSet(s) \/ x \in ToSet(u)
  <2>1. PICK i \in 1 .. Len(s) + Len(u) : x = w[i]
    BY <1>1, <1>2 DEF ToSet
  <2>2. CASE i <= Len(s)
    BY <2>1, <2>2, <1>1, <1>2 DEF ToSet
  <2>3. CASE ~(i <= Len(s))
    <3>1. i - Len(s) \in 1 .. Len(u) /\ x = u[i - Len(s)]
      BY <2>1, <2>3, <1>1, <1>2
    <3> QED
      BY <3>1, <1>2 DEF ToSet
  <2> QED
    BY <2>2, <2>3
<1>4. ASSUME NEW x \in ToSet(s)
      PROVE  x \in ToSet(w)
  <2>1. PICK i \in 1 .. Len(s) : x = s[i]
    BY <1>2 DEF ToSet
  <2>2. i \in 1 .. Len(s) + Len(u) /\ w[i] = s[i]
    BY <1>1, <1>2
  <2> QED
    BY <2>1, <2>2, <1>1, <1>2 DEF ToSet
<1>5. ASSUME NEW x \in ToSet(u)
      PROVE  x \in ToSet(w)
  <2>1. PICK i \in 1 .. Len(u) : x = u[i]
    BY <1>2 DEF ToSet
  <2>2. /\ i + Len(s) \in 1 .. Len(s) + Len(u) /\ ~(i + Len(s) <= Len(s))
        /\ (i + Len(s)) - Len(s) = i
    BY <1>2
  <2>3. w[i + Len(s)] = u[i]
    BY <2>2, <1>1
  <2> QED
    BY <2>1, <2>2, <2>3, <1>1, <1>2 DEF ToSet
<1>6. ToSet(w) = ToSet(s) \cup ToSet(u)
  BY <1>3, <1>4, <1>5
<1> QED
  BY <1>1, <1>2, <1>6 DEF w

\* The empty list has no elements.
LEMMA NoList == << >> \in Seq(Server) /\ Len(<< >>) = 0 /\ ToSet(<< >>) = {}
  BY EmptySeq DEF ToSet

\* Whole lists stay whole when a part of one is moved to the end of another.
LEMMA WholeMoves ==
  ASSUME NEW a \in Seq(Server), NEW b \in Seq(Server), NEW c \in Seq(Server),
         NEW part \in Seq(Server), NEW rest \in Seq(Server), Whole(a, b, c),
         Len(part) + Len(rest) = Len(c), ToSet(part) \cup ToSet(rest) = ToSet(c)
  PROVE  Whole(a \o part, b, rest) /\ Whole(a, b \o part, rest)
<1>1. /\ Len(a) \in Nat /\ Len(b) \in Nat /\ Len(c) \in Nat
      /\ Len(part) \in Nat /\ Len(rest) \in Nat
  BY LenProperties
<1> DEFINE a2 == a \o part
           b2 == b \o part
<1>2. /\ Len(a2) = Len(a) + Len(part) /\ ToSet(a2) = ToSet(a) \cup ToSet(part)
      /\ Len(b2) = Len(b) + Len(part) /\ ToSet(b2) = ToSet(b) \cup ToSet(part)
  BY JoinLists
<1> HIDE DEF a2, b2
<1>3. Len(a) + Len(b) + Len(c) = MaxServer /\ ToSet(a) \cup ToSet(b) \cup ToSet(c) = Server
  BY DEF Whole
<1>4. Len(a2) + Len(b) + Len(rest) = MaxServer /\ Len(a) + Len(b2) + Len(rest) = MaxServer
  <2>1. /\ (Len(a) + Len(part)) + Len(b) + Len(rest) = MaxServer
        /\ Len(a) + (Len(b) + Len(part)) + Len(rest) = MaxServer
    <3>1. Len(a) + Len(b) + (Len(part) + Len(rest)) = MaxServer
      BY <1>3
    <3>2. /\ (Len(a) + Len(part)) + Len(b) + Len(rest) = Len(a) + Len(b) + (Len(part) + Len(rest))
          /\ Len(a) + (Len(b) + Len(part)) + Len(rest) = Len(a) + Len(b) + (Len(part) + Len(rest))
      BY <1>1
    <3> QED
      BY <3>1, <3>2
  <2> QED
    BY <2>1, <1>2
<1>5. /\ ToSet(a2) \cup ToSet(b) \cup ToSet(rest) = Server
      /\ ToSet(a) \cup ToSet(b2) \cup ToSet(rest) = Server
  BY <1>2, <1>3
<1> QED
  BY <1>4, <1>5 DEF Whole, a2, b2

\* What one turn of the loop of remote_resolve does to the three lists of a
\* call loses no server and doubles none.
LEMMA PlacedKeeps ==
  ASSUME NEW r \in Resolver, NEW result,
         list[r] \in Seq(Server), good[r] \in Seq(Server), bad[r] \in Seq(Server),
         list[r] # << >>, Whole(good[r], bad[r], list[r]),
         NEW rest, \/ result = Nobody /\ rest = Tail(list[r])
                   \/ result # Nobody /\ rest = << >>
  PROVE  /\ good[r] \o Placed(r, result) \in Seq(Server)
         /\ bad[r] \o Placed(r, result) \in Seq(Server)
         /\ rest \in Seq(Server)
         /\ Whole(good[r] \o Placed(r, result), bad[r], rest)
         /\ Whole(good[r], bad[r] \o Placed(r, result), rest)
<1> DEFINE placed == Placed(r, result)
<1>1. Len(list[r]) \in Nat
  BY LenProperties
<1>2. /\ placed \in Seq(Server) /\ rest \in Seq(Server)
      /\ Len(placed) + Len(rest) = Len(list[r])
      /\ ToSet(placed) \cup ToSet(rest) = ToSet(list[r])
  <2>1. CASE result = Nobody
    <3>1. placed = <<Head(list[r])>> /\ rest = Tail(list[r])
      BY <2>1 DEF Placed
    <3>2. /\ placed \in Seq(Server) /\ rest \in Seq(Server) /\ Len(placed) = 1
          /\ Len(rest) = Len(list[r]) - 1
          /\ ToSet(placed) \cup ToSet(rest) = ToSet(list[r])
      BY <3>1, SplitList
    <3> QED
      BY <3>2, <1>1
  <2>2. CASE result # Nobody
    <3>1. placed = list[r] /\ rest = << >>
      BY <2>2 DEF Placed
    <3>2. Len(placed) + Len(rest) = Len(list[r])
      <4>1. Len(placed) = Len(list[r]) /\ Len(rest) = 0
        BY <3>1, NoList
      <4>2. Len(list[r]) + 0 = Len(list[r])
        BY <1>1
      <4> QED
        BY <4>1, <4>2
    <3>3. ToSet(placed) \cup ToSet(rest) = ToSet(list[r])
      BY <3>1, NoList
    <3> QED
      BY <3>1, <3>2, <3>3, NoList
  <2> QED
    BY <2>1, <2>2
<1> HIDE DEF placed
<1>3. Whole(good[r] \o placed, bad[r], rest) /\ Whole(good[r], bad[r] \o placed, rest)
  BY <1>2, WholeMoves
<1>4. good[r] \o placed \in Seq(Server) /\ bad[r] \o placed \in Seq(Server)
  BY <1>2, JoinLists
<1> QED
  BY <1>2, <1>3, <1>4 DEF placed

-----------------------------------------------------------------------------
(***************************************************************************)
(* No step loses a server or closes a socket that was selected.            *)
(***************************************************************************)

\* What the steps rely on.
LEMMA ListFacts ==
  ASSUME Lists
  PROVE  /\ servers # << >> /\ Head(servers) \in Server
         /\ \A r \in Resolver : list[r] # << >> => Head(list[r]) \in Server
<1>1. servers \in Seq(Server) /\ \A r \in Resolver : list[r] \in Seq(Server)
  BY DEF Lists, ListsTyped
<1>2. Len(servers) = MaxServer
  <2>1. Len(servers) \in Nat /\ Len(<< >>) + Len(<< >>) + Len(servers) = MaxServer
    BY <1>1, LenProperties DEF Lists, ListsWhole, Whole
  <2> QED
    BY <2>1, NoList
<1>3. servers # << >>
  BY <1>2, DnsAssumption, NoList
<1> QED
  BY <1>1, <1>3, SplitList

\* A step that touches neither a list nor a socket.
LEMMA ListsKeep ==
  ASSUME Lists, UNCHANGED <<servers, udp, alive, list, good, bad>>,
         pc' \in [Resolver -> PC],
         \A r \in Resolver : /\ pc[r] = "done" => pc'[r] = "done"
                             /\ pc'[r] = "idle" <=> pc[r] = "idle"
                             /\ pc'[r] = "select" => pc[r] = "select"
  PROVE  Lists'
<1>1. ListsTyped'
  BY DEF Lists, ListsTyped
<1>2. ListsWhole'
  BY DEF Lists, ListsWhole, Active
<1>3. SelectedIsFresh'
  BY DEF Lists, SelectedIsFresh
<1> QED
  BY <1>1, <1>2, <1>3 DEF Lists

\* A server is selected by a call whose lists are whole.
LEMMA ListsSelect ==
  ASSUME Lists, NEW r \in Resolver, NEW at \in {"select", "select tcp"},
         NEW a \in Seq(Server), NEW b \in Seq(Server), NEW c \in Seq(Server),
         c # << >>, Whole(a, b, c),
         servers' = servers,
         list' = [list EXCEPT ![r] = c], good' = [good EXCEPT ![r] = a], bad' = [bad EXCEPT ![r] = b],
         pc' = [pc EXCEPT ![r] = at], SelectServer(Head(c))
  PROVE  Lists'
<1>1. Head(c) \in Server
  BY SplitList
<1>2. ListsTyped'
  <2>1. /\ list' \in [Resolver -> Seq(Server)] /\ good' \in [Resolver -> Seq(Server)]
        /\ bad' \in [Resolver -> Seq(Server)]
    BY DEF Lists, ListsTyped
  <2>2. pc' \in [Resolver -> PC]
    BY DEF Lists, ListsTyped, PC
  <2>3. /\ udp' \in [Server -> {"closed", "fresh", "expired"}]
        /\ alive' \in [Server -> {"none", "asleep", "due"}]
        /\ \A s \in Server : udp'[s] = "closed" <=> alive'[s] = "none"
    BY <1>1 DEF Lists, ListsTyped, SelectServer
  <2> QED
    BY <2>1, <2>2, <2>3 DEF Lists, ListsTyped
<1>3. ListsWhole'
  <2>1. \A q \in Resolver \ {r} : list'[q] = list[q] /\ good'[q] = good[q] /\ bad'[q] = bad[q] /\ pc'[q] = pc[q]
    BY DEF Lists, ListsTyped
  <2>2. list'[r] = c /\ good'[r] = a /\ bad'[r] = b /\ pc'[r] = at
    BY DEF Lists, ListsTyped
  <2>3. Whole(<< >>, << >>, servers)'
    BY DEF Lists, ListsWhole, Whole
  <2>4. ASSUME NEW q \in Resolver
        PROVE  /\ list'[q] # << >> => Whole(good'[q], bad'[q], list'[q])
               /\ Active(q)' => list'[q] # << >>
               /\ pc'[q] = "idle" => list'[q] = << >> /\ good'[q] = << >> /\ bad'[q] = << >>
    BY <2>1, <2>2 DEF Lists, ListsWhole, Active
  <2> QED
    BY <2>3, <2>4 DEF ListsWhole, Whole
<1>4. SelectedIsFresh'
  <2>1. \A s \in Server : udp[s] = "fresh" => udp'[s] = "fresh"
    BY <1>1 DEF Lists, ListsTyped, SelectServer
  <2>2. udp'[Head(c)] = "fresh"
    BY <1>1 DEF Lists, ListsTyped, SelectServer
  <2>3. ASSUME NEW q \in Resolver, pc'[q] = "select"
        PROVE  udp'[Head(list'[q])] = "fresh"
    <3>1. CASE q = r
      BY <3>1, <2>2 DEF Lists, ListsTyped
    <3>2. CASE q # r
      <4>1. pc[q] = "select" /\ list'[q] = list[q]
        BY <3>2, <2>3 DEF Lists, ListsTyped
      <4>2. Head(list[q]) \in Server /\ udp[Head(list[q])] = "fresh"
        BY <4>1, ListFacts DEF Lists, ListsWhole, SelectedIsFresh, Active
      <4> QED
        BY <4>1, <4>2, <2>1
    <3> QED
      BY <3>1, <3>2
  <2> QED
    BY <2>3 DEF SelectedIsFresh
<1> QED
  BY <1>2, <1>3, <1>4 DEF Lists

\* A call goes on when a server was asked.
LEMMA ListsProceed ==
  ASSUME Lists, NEW r \in Resolver, Active(r), NEW result, NEW error, Proceed(r, result, error)
  PROVE  Lists'
<1> DEFINE placed == Placed(r, result)
           rest == IF result = Nobody THEN Tail(list[r]) ELSE << >>
           good2 == IF error = "timeout" THEN good[r] ELSE good[r] \o placed
           bad2 == IF error = "timeout" THEN bad[r] \o placed ELSE bad[r]
<1>1. /\ list[r] \in Seq(Server) /\ good[r] \in Seq(Server) /\ bad[r] \in Seq(Server)
      /\ list[r] # << >> /\ Whole(good[r], bad[r], list[r])
  BY DEF Lists, ListsTyped, ListsWhole
<1>2. good2 \in Seq(Server) /\ bad2 \in Seq(Server) /\ rest \in Seq(Server) /\ Whole(good2, bad2, rest)
  <2>0. \/ result = Nobody /\ rest = Tail(list[r])
        \/ result # Nobody /\ rest = << >>
    OBVIOUS
  <2> HIDE DEF rest
  <2>1. /\ good[r] \o placed \in Seq(Server) /\ bad[r] \o placed \in Seq(Server)
        /\ rest \in Seq(Server)
        /\ Whole(good[r] \o placed, bad[r], rest) /\ Whole(good[r], bad[r] \o placed, rest)
    BY <1>1, <2>0, PlacedKeeps
  <2> QED
    BY <1>1, <2>1
<1>3. /\ list' = [list EXCEPT ![r] = rest]
      /\ \/ /\ rest # << >>
            /\ good' = [good EXCEPT ![r] = good2]
            /\ bad' = [bad EXCEPT ![r] = bad2]
            /\ Select(r, Head(rest), "select")
            /\ UNCHANGED <<servers, outcome>>
         \/ /\ rest = << >>
            /\ good' = [good EXCEPT ![r] = << >>]
            /\ bad' = [bad EXCEPT ![r] = << >>]
            /\ servers' = good2 \o bad2
            /\ pc' = [pc EXCEPT ![r] = "done"]
            /\ UNCHANGED <<udp, alive>>
  BY DEF Proceed
<1> HIDE DEF placed, rest, good2, bad2
<1>4. CASE rest # << >>
  BY <1>2, <1>3, <1>4, ListsSelect DEF Select
<1>5. CASE rest = << >>
  <2>1. /\ list' = [list EXCEPT ![r] = << >>] /\ good' = [good EXCEPT ![r] = << >>]
        /\ bad' = [bad EXCEPT ![r] = << >>] /\ pc' = [pc EXCEPT ![r] = "done"]
        /\ servers' = good2 \o bad2 /\ udp' = udp /\ alive' = alive
    BY <1>3, <1>5
  <2>2. servers' \in Seq(Server) /\ Whole(<< >>, << >>, servers')
    <3>1. /\ servers' \in Seq(Server)
          /\ Len(good2) \in Nat /\ Len(bad2) \in Nat
          /\ Len(servers') = Len(good2) + Len(bad2)
          /\ ToSet(servers') = ToSet(good2) \cup ToSet(bad2)
      BY <1>2, <2>1, JoinLists
    <3>2. Len(good2) + Len(bad2) + 0 = MaxServer /\ ToSet(good2) \cup ToSet(bad2) \cup {} = Server
      BY <1>2, <1>5, NoList DEF Whole
    <3>3. 0 + 0 + Len(servers') = MaxServer
      <4>1. /\ 0 + 0 + (Len(good2) + Len(bad2)) = Len(good2) + Len(bad2)
            /\ Len(good2) + Len(bad2) + 0 = Len(good2) + Len(bad2)
        BY <3>1
      <4> QED
        BY <4>1, <3>1, <3>2
    <3> QED
      BY <3>1, <3>2, <3>3, NoList DEF Whole
  <2>3. \A q \in Resolver \ {r} : list'[q] = list[q] /\ good'[q] = good[q] /\ bad'[q] = bad[q] /\ pc'[q] = pc[q]
    BY <2>1 DEF Lists, ListsTyped
  <2>4. list'[r] = << >> /\ good'[r] = << >> /\ bad'[r] = << >> /\ pc'[r] = "done"
    BY <2>1 DEF Lists, ListsTyped
  <2>5. ListsTyped'
    <3>1. /\ list' \in [Resolver -> Seq(Server)] /\ good' \in [Resolver -> Seq(Server)]
          /\ bad' \in [Resolver -> Seq(Server)] /\ pc' \in [Resolver -> PC]
      BY <2>1, NoList DEF Lists, ListsTyped, PC
    <3> QED
      BY <3>1, <2>1, <2>2 DEF Lists, ListsTyped
  <2>6. ListsWhole'
    <3>1. ASSUME NEW q \in Resolver
          PROVE  /\ list'[q] # << >> => Whole(good'[q], bad'[q], list'[q])
                 /\ Active(q)' => list'[q] # << >>
                 /\ pc'[q] = "idle" => list'[q] = << >> /\ good'[q] = << >> /\ bad'[q] = << >>
      BY <2>3, <2>4 DEF Lists, ListsWhole, Active
    <3> QED
      BY <3>1, <2>2 DEF ListsWhole, Whole
  <2>7. SelectedIsFresh'
    BY <2>1, <2>3, <2>4 DEF Lists, SelectedIsFresh
  <2> QED
    BY <2>5, <2>6, <2>7 DEF Lists
<1> QED
  BY <1>4, <1>5

LEMMA ListsResolve == ASSUME Lists, NEW r \in Resolver, Resolve(r) PROVE Lists'
<1>1. /\ servers \in Seq(Server) /\ servers # << >> /\ << >> \in Seq(Server)
      /\ Whole(<< >>, << >>, servers)
  BY ListFacts, NoList DEF Lists, ListsTyped, ListsWhole
<1>2. /\ list' = [list EXCEPT ![r] = servers] /\ pc' = [pc EXCEPT ![r] = "select"]
      /\ SelectServer(Head(servers)) /\ UNCHANGED <<servers, good, bad>> /\ pc[r] = "idle"
  BY DEF Resolve, Select
<1>3. good' = [good EXCEPT ![r] = << >>] /\ bad' = [bad EXCEPT ![r] = << >>]
  <2>1. good[r] = << >> /\ bad[r] = << >>
    BY <1>2 DEF Lists, ListsWhole
  <2> QED
    BY <1>2, <2>1 DEF Lists, ListsTyped
<1> QED
  BY <1>1, <1>2, <1>3, ListsSelect

LEMMA ListsUdpReturns == ASSUME Lists, NEW r \in Resolver, UdpReturns(r) PROVE Lists'
<1>1. Active(r)
  BY DEF UdpReturns, Active
<1>2. CASE Proceed(r, req[r].result, req[r].error)
  BY <1>1, <1>2, ListsProceed
<1>3. CASE Select(r, Head(list[r]), "select tcp") /\ UNCHANGED <<servers, listVars>>
  <2>1. /\ list[r] \in Seq(Server) /\ good[r] \in Seq(Server) /\ bad[r] \in Seq(Server)
        /\ list[r] # << >> /\ Whole(good[r], bad[r], list[r])
    BY <1>1 DEF Lists, ListsTyped, ListsWhole
  <2>2. /\ list' = [list EXCEPT ![r] = list[r]] /\ good' = [good EXCEPT ![r] = good[r]]
        /\ bad' = [bad EXCEPT ![r] = bad[r]]
    BY <1>3 DEF Lists, ListsTyped, listVars
  <2> QED
    BY <1>3, <2>1, <2>2, ListsSelect DEF Select
<1> QED
  BY <1>2, <1>3 DEF UdpReturns

\* The time to close a socket has come, or it is closed.
LEMMA ListsSockets ==
  ASSUME Lists, NEW s \in Server, Expires(s) \/ AliveTimerArrives(s) \/ CheckAlive(s)
  PROVE  Lists'
<1>1. UNCHANGED <<servers, list, good, bad, pc>>
  BY DEF Expires, AliveTimerArrives, CheckAlive, listVars
<1>2. /\ udp' \in [Server -> {"closed", "fresh", "expired"}]
      /\ alive' \in [Server -> {"none", "asleep", "due"}]
      /\ \A u \in Server : udp'[u] = "closed" <=> alive'[u] = "none"
  BY DEF Lists, ListsTyped, Expires, AliveTimerArrives, CheckAlive
<1>3. ListsTyped'
  BY <1>1, <1>2 DEF Lists, ListsTyped
<1>4. ListsWhole'
  BY <1>1 DEF Lists, ListsWhole, Whole, Active
<1>5. SelectedIsFresh'
  <2>1. (\E r \in Resolver : pc[r] = "select") => \A u \in Server : udp[u] = "fresh" => udp'[u] = "fresh"
    BY DEF Lists, ListsTyped, Expires, AliveTimerArrives, CheckAlive
  <2> SUFFICES ASSUME NEW r \in Resolver, pc'[r] = "select"
               PROVE  udp'[Head(list'[r])] = "fresh"
    BY DEF SelectedIsFresh
  <2>2. pc[r] = "select" /\ list'[r] = list[r]
    BY <1>1
  <2>3. Head(list[r]) \in Server /\ udp[Head(list[r])] = "fresh"
    BY <2>2, ListFacts DEF Lists, ListsWhole, SelectedIsFresh, Active
  <2> QED
    BY <2>1, <2>2, <2>3
<1> QED
  BY <1>3, <1>4, <1>5 DEF Lists

\* The other steps of a call.
LEMMA ListsCall ==
  ASSUME Lists, NEW r \in Resolver,
         \/ UdpQuery(r) \/ TcpQuery(r) \/ TcpFails(r) \/ TcpOpened(r) \/ ReadHeader(r) \/ ReadThrows(r)
         \/ ConnectArrives(r) \/ ErrorArrives(r) \/ DataArrives(r) \/ CloseArrives(r)
  PROVE  Lists'
<1>1. UNCHANGED <<servers, udp, alive, list, good, bad>>
  BY DEF UdpQuery, TcpQuery, TcpFails, TcpOpened, ReadHeader, ReadThrows, ConnectArrives,
         ErrorArrives, DataArrives, CloseArrives, serverVars, listVars
<1>2. pc \in [Resolver -> PC]
  BY DEF Lists, ListsTyped
<1>3. /\ pc' \in [Resolver -> PC]
      /\ pc[r] # "idle" /\ pc[r] # "done" /\ pc'[r] # "idle" /\ (pc'[r] = "select" => pc[r] = "select")
      /\ \A q \in Resolver \ {r} : pc'[q] = pc[q]
  <2>1. CASE UdpQuery(r) \/ TcpOpened(r) \/ TcpQuery(r) \/ TcpFails(r)
    BY <2>1, <1>2 DEF UdpQuery, TcpQuery, TcpFails, TcpOpened, Goes, PC
  <2>2. CASE ReadHeader(r) \/ ReadThrows(r) \/ ConnectArrives(r) \/ ErrorArrives(r)
    BY <2>2, <1>2 DEF ReadHeader, ReadThrows, ConnectArrives, ErrorArrives, Goes, PC
  <2>3. CASE DataArrives(r) \/ CloseArrives(r)
    BY <2>3, <1>2 DEF DataArrives, CloseArrives, Reading
  <2> QED
    BY <2>1, <2>2, <2>3
<1> QED
  BY <1>1, <1>3, ListsKeep

\* The steps of nobody.
LEMMA ListsOther ==
  ASSUME Lists,
         \/ Answers \/ (\E t \in timers : TimerArrives(t)) \/ (\E t \in checks : Check(t))
         \/ TurnSettles \/ TurnEnds \/ UNCHANGED vars
  PROVE  Lists'
<1>0. pc \in [Resolver -> PC]
  BY DEF Lists, ListsTyped
<1>1. UNCHANGED <<servers, udp, alive, list, good, bad>>
  BY DEF Answers, Packet, TimerArrives, Check, TurnSettles, TurnEnds, vars, serverVars, listVars
<1>2. ASSUME NEW r, Wakeup(r)
      PROVE  /\ pc' \in [Resolver -> PC]
             /\ \A q \in Resolver : pc'[q] = pc[q] \/ (pc[q] = "asked" /\ pc'[q] = "told")
  <2>1. pc' = [pc EXCEPT ![r] = IF pc[r] = "asked" THEN "told" ELSE pc[r]]
    BY <1>2 DEF Wakeup
  <2>2. CASE pc[r] = "asked"
    BY <2>1, <2>2, <1>0 DEF PC
  <2>3. CASE pc[r] # "asked"
    BY <2>1, <2>3, <1>0
  <2> QED
    BY <2>2, <2>3
<1>3. /\ pc' \in [Resolver -> PC]
      /\ \A q \in Resolver : \/ pc'[q] = pc[q]
                             \/ pc[q] = "asked" /\ pc'[q] = "told"
                             \/ pc[q] = "asking" /\ pc'[q] = "opening"
  <2>1. CASE Answers
    BY <2>1, <1>2 DEF Answers, Packet
  <2>2. CASE \E t \in checks : Check(t)
    BY <2>2, <1>0, <1>2 DEF Check
  <2>3. CASE TurnEnds
    BY <2>3, <1>0 DEF TurnEnds, PC
  <2>4. CASE (\E t \in timers : TimerArrives(t)) \/ TurnSettles \/ UNCHANGED vars
    BY <2>4, <1>0 DEF TimerArrives, TurnSettles, vars
  <2> QED
    BY <2>1, <2>2, <2>3, <2>4
<1> QED
  BY <1>1, <1>3, ListsKeep

LEMMA ListsInit == Init => Lists
<1> SUFFICES ASSUME Init
             PROVE  Lists
  OBVIOUS
<1> DEFINE all == [s \in Server |-> s]
<1>1. MaxServer \in Nat /\ Server = 1 .. MaxServer /\ servers = all
  BY DnsAssumption DEF Server, Init
<1>2. all \in Seq(Server) /\ Len(all) = MaxServer /\ DOMAIN all = Server
  BY <1>1
<1>3. ToSet(all) = Server
  BY <1>2 DEF ToSet
<1>4. Whole(<< >>, << >>, servers)
  <2>1. 0 + 0 + MaxServer = MaxServer /\ {} \cup {} \cup Server = Server
    BY <1>1
  <2> QED
    BY <2>1, <1>1, <1>2, <1>3, NoList DEF Whole
<1>5. servers \in Seq(Server)
  BY <1>1, <1>2
<1>6. ListsTyped
  BY <1>5, NoList DEF Init, ListsTyped, PC
<1>7. ListsWhole
  BY <1>4 DEF Init, ListsWhole, Active
<1>8. SelectedIsFresh
  BY DEF Init, SelectedIsFresh
<1> QED
  BY <1>6, <1>7, <1>8 DEF Lists

LEMMA ListsNext == Lists /\ [Next]_vars => Lists'
<1> SUFFICES ASSUME Lists, [Next]_vars
             PROVE  Lists'
  OBVIOUS
<1>1. CASE \E r \in Resolver : \/ Resolve(r) \/ Continues(r)
                               \/ ConnectArrives(r) \/ ErrorArrives(r) \/ DataArrives(r) \/ CloseArrives(r)
  <2>1. PICK r \in Resolver : \/ Resolve(r) \/ Continues(r)
                              \/ ConnectArrives(r) \/ ErrorArrives(r) \/ DataArrives(r) \/ CloseArrives(r)
    BY <1>1
  <2>2. CASE ReadBody(r) \/ ReadFails(r)
    <3>1. Active(r) /\ \E result, error : Proceed(r, result, error)
      BY <2>2 DEF ReadBody, ReadFails, Release, Active
    <3> QED
      BY <3>1, ListsProceed
  <2> QED
    BY <2>1, <2>2, ListsResolve, ListsUdpReturns, ListsCall DEF Continues
<1>2. CASE \E s \in Retiree : Expires(s) \/ AliveTimerArrives(s) \/ CheckAlive(s)
  BY <1>2, ListsSockets, DnsAssumption DEF Server
<1> QED
  BY <1>1, <1>2, ListsOther DEF Next

LEMMA ListsImply == Lists => UdpIsOpen /\ ServersKept
<1> SUFFICES ASSUME Lists
             PROVE  UdpIsOpen /\ ServersKept
  OBVIOUS
<1>1. UdpIsOpen
  BY DEF Lists, SelectedIsFresh, UdpIsOpen
<1>2. Len(servers) = MaxServer /\ ToSet(servers) = Server
  <2>1. /\ Len(servers) \in Nat /\ 0 + 0 + Len(servers) = MaxServer
        /\ {} \cup {} \cup ToSet(servers) = Server
    BY NoList, LenProperties DEF Lists, ListsTyped, ListsWhole, Whole
  <2> QED
    BY <2>1
<1>3. ASSUME NEW r \in Resolver, list[r] # << >>
      PROVE  Len(good[r] \o bad[r] \o list[r]) = MaxServer /\ ToSet(good[r] \o bad[r] \o list[r]) = Server
  <2> DEFINE both == good[r] \o bad[r]
             all == both \o list[r]
  <2>1. good[r] \in Seq(Server) /\ bad[r] \in Seq(Server) /\ list[r] \in Seq(Server)
    BY DEF Lists, ListsTyped
  <2>2. Len(good[r]) + Len(bad[r]) + Len(list[r]) = MaxServer
    BY <1>3 DEF Lists, ListsWhole, Whole
  <2>3. ToSet(good[r]) \cup ToSet(bad[r]) \cup ToSet(list[r]) = Server
    BY <1>3 DEF Lists, ListsWhole, Whole
  <2>4. /\ both \in Seq(Server) /\ Len(both) = Len(good[r]) + Len(bad[r])
        /\ ToSet(both) = ToSet(good[r]) \cup ToSet(bad[r])
    BY <2>1, JoinLists
  <2> HIDE DEF both
  <2>5. /\ Len(all) = Len(both) + Len(list[r])
        /\ ToSet(all) = ToSet(both) \cup ToSet(list[r])
    BY <2>1, <2>4, JoinLists
  <2> HIDE DEF all
  <2>6. Len(all) = MaxServer /\ ToSet(all) = Server
    BY <2>2, <2>3, <2>4, <2>5
  <2> QED
    BY <2>6 DEF both, all
<1>4. ServersKept
  <2>1. ASSUME NEW l \in {servers} \cup {good[r] \o bad[r] \o list[r] : r \in {q \in Resolver : list[q] # << >>}}
        PROVE  Len(l) = MaxServer /\ ToSet(l) = Server
    <3>1. CASE l = servers
      BY <3>1, <1>2
    <3>2. CASE \E r \in Resolver : list[r] # << >> /\ l = good[r] \o bad[r] \o list[r]
      BY <3>2, <1>3
    <3> QED
      BY <3>1, <3>2
  <2> QED
    BY <2>1 DEF ServersKept
<1> QED
  BY <1>1, <1>4

\* However the calls that sort the list of servers overlap, none is lost or
\* doubled, and a socket that select_server returned is open when udp_query
\* writes to it, though check_alive may close it at any time (remote_resolve,
\* udp_query, check_alive in ts/lib/skynet/skynet/dns.ts).
THEOREM ServersCorrect == Spec => [](UdpIsOpen /\ ServersKept)
<1>1. Init => Lists
  BY ListsInit
<1>2. Lists /\ [Next]_vars => Lists'
  BY ListsNext
<1>3. Lists => UdpIsOpen /\ ServersKept
  BY ListsImply
<1> QED
  BY <1>1, <1>2, <1>3, PTL DEF Spec

-----------------------------------------------------------------------------
(***************************************************************************)
(* The steps, by what they do to the ids.                                  *)
(***************************************************************************)

Typed == pc \in [Resolver -> PC] /\ RestTyped

\* Calls move within a query or wait for the server over TCP.
Near(from, to) ==
  \/ from = to
  \/ {from, to} \subseteq {"select tcp", "asking", "opening", "opened", "refused"}
  \/ {from, to} \subseteq Reading

LEMMA QuietStep ==
  ASSUME Typed, Owned, UNCHANGED <<pool, tid, req, fd, outcome>>,
         sent' \subseteq sent, timers' \cup checks' \subseteq timers \cup checks,
         \A r \in Resolver : Near(pc[r], pc'[r])
  PROVE  Owned'
<1>1. \A r \in Resolver :
        /\ Active(r)' <=> Active(r)
        /\ pc'[r] \in Reading <=> pc[r] \in Reading
        /\ \A at \in {"asked", "told", "done"} : pc'[r] = at <=> pc[r] = at
  BY DEF Near, Reading, Active
<1>2. TidsDiffer'
  BY <1>1 DEF Owned, TidsDiffer
<1>3. CarriedByOwner'
  BY <1>1 DEF Owned, CarriedByOwner
<1>4. TimersMatch'
  <2> SUFFICES ASSUME NEW t \in timers \cup checks, NEW r \in Resolver, Active(r), tid[r] = t.tid
               PROVE  /\ pc'[r] \in {"asked", "told", "header", "body"}
                      /\ t.tcp <=> pc'[r] \in Reading
    BY <1>1 DEF TimersMatch
  <2>1. pc[r] \in {"asked", "told", "header", "body"} /\ (t.tcp <=> pc[r] \in Reading)
    BY DEF Owned, TimersMatch
  <2> QED
    BY <1>1, <2>1 DEF Reading
<1>5. PoolIsCurrent'
  <2>1. ASSUME NEW t \in Tid, pool[t] # Nobody
        PROVE  tid[pool[t]] = t /\ pc'[pool[t]] \in {"asked", "told", "header", "body"}
    <3>1. pool[t] \in Resolver /\ tid[pool[t]] = t /\ pc[pool[t]] \in {"asked", "told", "header", "body"}
      BY <2>1 DEF Typed, RestTyped, Owned, PoolIsCurrent
    <3> QED
      BY <3>1, <1>1 DEF Reading
  <2>2. \A r \in Resolver : pc'[r] = "asked" => pool[tid[r]] = r
    BY <1>1 DEF Owned, PoolIsCurrent
  <2> QED
    BY <2>1, <2>2 DEF PoolIsCurrent
<1>6. ConnectionsMatch'
  BY <1>1 DEF Owned, ConnectionsMatch
<1>7. ResultsMatch' /\ AnswerIsOwn'
  BY DEF Owned, ResultsMatch, AnswerIsOwn
<1> QED
  BY <1>2, <1>3, <1>4, <1>5, <1>6, <1>7 DEF Owned

\* A query is sent: an id that nothing carries gets an owner and a timer.
LEMMA SendStep ==
  ASSUME Typed, Owned, NEW r \in Resolver, NEW at \in {"asked", "header"}, NEW tcp \in BOOLEAN,
         tcp <=> at = "header", pc[r] \in {"select", "opened"}, pc' = [pc EXCEPT ![r] = at],
         pool' = [pool EXCEPT ![tid[r]] = r],
         timers' = timers \cup {[tid |-> tid[r], of |-> r, tcp |-> tcp]}, checks' = checks,
         \A p \in sent' \ sent : p.tid = tid[r] /\ p.of = r,
         fd' = fd \/ (tcp /\ fd' = [fd EXCEPT ![r] = "open"]),
         UNCHANGED <<tid, req, outcome>>
  PROVE  Owned'
<1>1. Active(r) /\ pc'[r] = at /\ \A q \in Resolver \ {r} : pc'[q] = pc[q]
  BY DEF Typed, Active
<1>2. \A q \in Resolver : Active(q)' <=> Active(q)
  BY <1>1 DEF Active
<1>3. \A q \in Resolver : Active(q) /\ tid[q] = tid[r] => q = r
  BY <1>1 DEF Owned, TidsDiffer
<1>4. TidsDiffer'
  BY <1>2 DEF Owned, TidsDiffer
<1>5. CarriedByOwner'
  <2> SUFFICES ASSUME NEW p \in (sent \cup timers \cup checks)', NEW q \in Resolver, Active(q), tid[q] = p.tid
               PROVE  q = p.of
    BY <1>2 DEF CarriedByOwner
  <2>1. CASE p \in sent \cup timers \cup checks
    BY <2>1 DEF Owned, CarriedByOwner
  <2>2. CASE p \notin sent \cup timers \cup checks
    <3>1. p.tid = tid[r] /\ p.of = r
      BY <2>2
    <3> QED
      BY <3>1, <1>3
  <2> QED
    BY <2>1, <2>2
<1>6. TimersMatch'
  <2> SUFFICES ASSUME NEW t \in timers' \cup checks', NEW q \in Resolver, Active(q), tid[q] = t.tid
               PROVE  /\ pc'[q] \in {"asked", "told", "header", "body"}
                      /\ t.tcp <=> pc'[q] \in Reading
    BY <1>2 DEF TimersMatch
  <2>1. CASE t \in timers \cup checks
    <3>1. pc[q] \in {"asked", "told", "header", "body"} /\ (t.tcp <=> pc[q] \in Reading)
      BY <2>1 DEF Owned, TimersMatch
    <3> QED
      BY <3>1, <1>1
  <2>2. CASE t \notin timers \cup checks
    <3>1. t = [tid |-> tid[r], of |-> r, tcp |-> tcp]
      BY <2>2
    <3>2. q = r /\ t.tcp = tcp
      BY <3>1, <1>3
    <3> QED
      BY <3>2, <1>1 DEF Reading
  <2> QED
    BY <2>1, <2>2
<1>7. tid[r] \in Tid /\ pool'[tid[r]] = r /\ \A t \in Tid \ {tid[r]} : pool'[t] = pool[t]
  BY DEF Typed, RestTyped
<1>8. \A t \in Tid : pool[t] # r
  BY <1>1 DEF Owned, PoolIsCurrent, Typed, RestTyped, Nobody, Resolver
<1>9. PoolIsCurrent'
  <2>1. ASSUME NEW t \in Tid, pool'[t] # Nobody
        PROVE  tid[pool'[t]] = t /\ pc'[pool'[t]] \in {"asked", "told", "header", "body"}
    <3>1. CASE t = tid[r]
      BY <3>1, <1>1, <1>7
    <3>2. CASE t # tid[r]
      <4>1. pool'[t] = pool[t] /\ pool[t] \in Resolver \ {r}
        BY <3>2, <2>1, <1>7, <1>8 DEF Typed, RestTyped
      <4> QED
        BY <4>1, <2>1, <1>1 DEF Owned, PoolIsCurrent
    <3> QED
      BY <3>1, <3>2
  <2>2. ASSUME NEW q \in Resolver, pc'[q] = "asked"
        PROVE  pool'[tid[q]] = q
    <3>1. CASE q = r
      BY <3>1, <1>7
    <3>2. CASE q # r
      <4>1. pc[q] = "asked" /\ tid[q] # tid[r] /\ tid[q] \in Tid
        BY <3>2, <2>2, <1>1, <1>3 DEF Active, Typed, RestTyped
      <4> QED
        BY <4>1, <1>7 DEF Owned, PoolIsCurrent
    <3> QED
      BY <3>1, <3>2
  <2> QED
    BY <2>1, <2>2 DEF PoolIsCurrent
<1>10. ConnectionsMatch'
  <2> SUFFICES ASSUME NEW q \in Resolver
               PROVE  /\ fd'[q] # "none" => pc'[q] \in Reading \cup {"done"}
                      /\ fd'[q] = "zero" => \A t \in Tid : pool'[t] # q
    BY DEF ConnectionsMatch
  <2>1. CASE q = r
    <3>1. fd[r] = "none" /\ (fd'[r] = "none" \/ (tcp /\ fd'[r] = "open"))
      BY DEF Owned, ConnectionsMatch, Reading, Typed, RestTyped
    <3> QED
      BY <2>1, <3>1, <1>1 DEF Reading
  <2>2. CASE q # r
    <3>1. fd'[q] = fd[q] /\ pc'[q] = pc[q]
      BY <2>2, <1>1 DEF Typed, RestTyped
    <3> QED
      BY <2>2, <3>1, <1>7 DEF Owned, ConnectionsMatch
  <2> QED
    BY <2>1, <2>2
<1>11. ResultsMatch' /\ AnswerIsOwn'
  BY DEF Owned, ResultsMatch, AnswerIsOwn
<1> QED
  BY <1>4, <1>5, <1>6, <1>9, <1>10, <1>11 DEF Owned

LEMMA NotNobody == \A r \in Resolver : r # Nobody
  BY DnsAssumption DEF Resolver, Nobody

\* What is left of the pool when r is out of it.
Without(r) ==
  /\ \A t \in Tid : pool'[t] \in {pool[t], Nobody} /\ pool'[t] # r
  /\ \A q \in Resolver \ {r} : pool[tid[q]] = q => pool'[tid[q]] = q

\* A call that gives its id back, or has none, leaves the pool to the others.
LEMMA ForgetsOwn ==
  ASSUME Typed, Owned, NEW r \in Resolver,
         \/ Active(r) /\ Forget(r)
         \/ pool' = pool /\ pc[r] \notin {"asked", "told", "header", "body"}
         \/ pool' = pool /\ fd[r] = "zero"
  PROVE  Without(r)
<1>1. tid[r] \in Tid /\ r # Nobody /\ \A t \in Tid : pool[t] = r => t = tid[r]
  BY DEF Typed, RestTyped, Owned, PoolIsCurrent, Nobody, Resolver
<1>2. CASE Active(r) /\ Forget(r)
  <2>1. pool'[tid[r]] = Nobody /\ \A t \in Tid \ {tid[r]} : pool'[t] = pool[t]
    BY <1>1, <1>2 DEF Forget, Typed, RestTyped
  <2>2. ASSUME NEW q \in Resolver \ {r}, pool[tid[q]] = q
        PROVE  pool'[tid[q]] = q
    <3>1. tid[q] \in Tid /\ q # Nobody
      BY DEF Typed, RestTyped, Nobody, Resolver
    <3>2. Active(q)
      BY <2>2, <3>1 DEF Owned, PoolIsCurrent, Active
    <3>3. tid[q] # tid[r]
      BY <1>2, <3>2 DEF Owned, TidsDiffer
    <3> QED
      BY <2>1, <2>2, <3>1, <3>3
  <2> QED
    BY <1>1, <2>1, <2>2 DEF Without
<1>3. CASE pool' = pool /\ \A t \in Tid : pool[t] # r
  BY <1>3 DEF Without
<1>4. ASSUME pc[r] \notin {"asked", "told", "header", "body"}
      PROVE  \A t \in Tid : pool[t] # r
  BY <1>1, <1>4 DEF Owned, PoolIsCurrent
<1>5. ASSUME fd[r] = "zero"
      PROVE  \A t \in Tid : pool[t] # r
  BY <1>5 DEF Owned, ConnectionsMatch
<1> QED
  BY <1>2, <1>3, <1>4, <1>5

\* A call returns, or asks a server with an id that nothing carries.
LEMMA AwayStep ==
  ASSUME Typed, Owned, NEW r \in Resolver, NEW at \in {"select", "select tcp", "done"},
         pc' = [pc EXCEPT ![r] = at], Without(r),
         \/ tid' = tid /\ at = "done"
         \/ tid' = [tid EXCEPT ![r] = NewTid] /\ TidIsFresh,
         sent' = sent, timers' \subseteq timers, checks' = checks,
         \A q \in Resolver \ {r} : req'[q] = req[q] /\ fd'[q] = fd[q] /\ outcome'[q] = outcome[q],
         req'[r].result \in {Nobody, r}, fd'[r] = "none" \/ at = "done",
         outcome'[r] \in {Pending, Fails, Throws, r}
  PROVE  Owned'
<1>1. /\ pc'[r] = at
      /\ \A q \in Resolver \ {r} : pc'[q] = pc[q] /\ tid'[q] = tid[q] /\ (Active(q)' <=> Active(q))
  BY DEF Typed, RestTyped, Active
<1>2. Active(r)' =>
        /\ tid'[r] = NewTid /\ \A q \in Resolver : Active(q) => tid[q] # NewTid
        /\ \A p \in sent \cup timers \cup checks : p.tid # NewTid
  <2> SUFFICES ASSUME Active(r)'
               PROVE  /\ tid'[r] = NewTid /\ \A q \in Resolver : Active(q) => tid[q] # NewTid
                      /\ \A p \in sent \cup timers \cup checks : p.tid # NewTid
    OBVIOUS
  <2>1. tid' = [tid EXCEPT ![r] = NewTid] /\ TidIsFresh
    BY <1>1 DEF Active
  <2> QED
    BY <2>1 DEF TidIsFresh, Typed, RestTyped
<1>3. TidsDiffer'
  <2> SUFFICES ASSUME NEW p \in Resolver, NEW q \in Resolver, Active(p)', Active(q)', tid'[p] = tid'[q], p # q
               PROVE  FALSE
    BY DEF TidsDiffer
  <2>1. CASE p = r
    BY <2>1, <1>1, <1>2
  <2>2. CASE q = r
    BY <2>2, <1>1, <1>2
  <2>3. CASE p # r /\ q # r
    BY <2>3, <1>1, ZenonT(40) DEF Owned, TidsDiffer
  <2> QED
    BY <2>1, <2>2, <2>3
<1>4. CarriedByOwner'
  <2> SUFFICES ASSUME NEW p \in sent \cup timers \cup checks, NEW q \in Resolver, Active(q)', tid'[q] = p.tid
               PROVE  q = p.of
    BY DEF CarriedByOwner
  <2>1. q # r
    BY <1>2
  <2> QED
    BY <2>1, <1>1 DEF Owned, CarriedByOwner
<1>5. TimersMatch'
  <2> SUFFICES ASSUME NEW t \in timers \cup checks, NEW q \in Resolver, Active(q)', tid'[q] = t.tid
               PROVE  /\ pc'[q] \in {"asked", "told", "header", "body"}
                      /\ t.tcp <=> pc'[q] \in Reading
    BY DEF TimersMatch
  <2>1. q # r
    BY <1>2
  <2>2. Active(q) /\ tid[q] = t.tid /\ pc'[q] = pc[q]
    BY <2>1, <1>1
  <2> QED
    BY <2>2 DEF Owned, TimersMatch
<1>6. PoolIsCurrent'
  <2>1. ASSUME NEW t \in Tid, pool'[t] # Nobody
        PROVE  tid'[pool'[t]] = t /\ pc'[pool'[t]] \in {"asked", "told", "header", "body"}
    <3>1. pool'[t] = pool[t] /\ pool[t] \in Resolver \ {r}
      BY <2>1 DEF Without, Typed, RestTyped
    <3> QED
      BY <3>1, <2>1, <1>1, ZenonT(40) DEF Owned, PoolIsCurrent
  <2>2. ASSUME NEW q \in Resolver, pc'[q] = "asked"
        PROVE  pool'[tid'[q]] = q
    <3>1. q # r
      BY <2>2, <1>1
    <3> QED
      BY <3>1, <2>2, <1>1, ZenonT(40) DEF Owned, PoolIsCurrent, Without
  <2> QED
    BY <2>1, <2>2 DEF PoolIsCurrent
<1>7. ConnectionsMatch'
  <2> SUFFICES ASSUME NEW q \in Resolver
               PROVE  /\ fd'[q] # "none" => pc'[q] \in Reading \cup {"done"}
                      /\ fd'[q] = "zero" => \A t \in Tid : pool'[t] # q
    BY DEF ConnectionsMatch
  <2>1. CASE q = r
    BY <2>1, <1>1 DEF Without
  <2>2. CASE q # r
    <3>1. fd'[q] = fd[q] /\ pc'[q] = pc[q]
      BY <2>2, <1>1
    <3>2. fd[q] # "none" => pc'[q] \in Reading \cup {"done"}
      BY <3>1 DEF Owned, ConnectionsMatch
    <3>3. fd[q] = "zero" => \A t \in Tid : pool'[t] # q
      <4>1. q # Nobody
        BY NotNobody
      <4>2. fd[q] = "zero" => \A t \in Tid : pool[t] # q
        BY DEF Owned, ConnectionsMatch
      <4>3. \A t \in Tid : pool'[t] = pool[t] \/ pool'[t] = Nobody
        BY DEF Without
      <4> QED
        BY <4>1, <4>2, <4>3
    <3> QED
      BY <3>1, <3>2, <3>3
  <2> QED
    BY <2>1, <2>2
<1>8. ResultsMatch' /\ AnswerIsOwn'
  BY DEF Owned, ResultsMatch, AnswerIsOwn
<1> QED
  BY <1>3, <1>4, <1>5, <1>6, <1>7, <1>8 DEF Owned

\* A query that is in the pool is told something, and its timer, if that is
\* what tells it, takes it out of the pool and closes its connection.
LEMMA ToldStep ==
  ASSUME Typed, Owned, NEW r \in Resolver, Active(r), Wakeup(r),
         \/ pool' = pool
         \/ pool' = [pool EXCEPT ![tid[r]] = Nobody],
         UNCHANGED <<tid, timers, sent, outcome>>, checks' \subseteq checks,
         fd' = fd \/ (fd' = [fd EXCEPT ![r] = "zero"] /\ pc[r] \in Reading /\ pool' = [pool EXCEPT ![tid[r]] = Nobody]),
         \A q \in Resolver \ {r} : req'[q] = req[q], req'[r].result \in {Nobody, r}
  PROVE  Owned'
<1>1. /\ pc'[r] # "asked"
      /\ \A q \in Resolver : pc'[q] = pc[q] \/ (q = r /\ pc[q] = "asked" /\ pc'[q] = "told")
  BY DEF Wakeup, Typed
<1>2. \A q \in Resolver : Active(q)' <=> Active(q)
  BY <1>1 DEF Active
<1>3. TidsDiffer'
  BY <1>2 DEF Owned, TidsDiffer
<1>4. CarriedByOwner'
  BY <1>2 DEF Owned, CarriedByOwner
<1>5. TimersMatch'
  <2> SUFFICES ASSUME NEW t \in timers \cup checks, NEW q \in Resolver, Active(q), tid[q] = t.tid
               PROVE  /\ pc'[q] \in {"asked", "told", "header", "body"}
                      /\ t.tcp <=> pc'[q] \in Reading
    BY <1>2 DEF TimersMatch
  <2>1. pc[q] \in {"asked", "told", "header", "body"} /\ (t.tcp <=> pc[q] \in Reading)
    BY DEF Owned, TimersMatch
  <2> QED
    BY <1>1, <2>1 DEF Reading
<1>6. /\ \A t \in Tid : pool'[t] \in {pool[t], Nobody}
      /\ \A q \in Resolver \ {r} : pool[tid[q]] = q => pool'[tid[q]] = q
      /\ pool' = [pool EXCEPT ![tid[r]] = Nobody] => \A t \in Tid : pool'[t] # r
  <2>1. CASE pool' = pool /\ pool' # [pool EXCEPT ![tid[r]] = Nobody]
    BY <2>1
  <2>2. CASE pool' = [pool EXCEPT ![tid[r]] = Nobody]
    <3>1. Without(r)
      BY <2>2, ForgetsOwn DEF Forget
    <3> QED
      BY <3>1 DEF Without
  <2> QED
    BY <2>1, <2>2
<1>7. PoolIsCurrent'
  <2>1. ASSUME NEW t \in Tid, pool'[t] # Nobody
        PROVE  tid[pool'[t]] = t /\ pc'[pool'[t]] \in {"asked", "told", "header", "body"}
    <3>1. pool'[t] = pool[t] /\ pool[t] \in Resolver
      BY <2>1, <1>6 DEF Typed, RestTyped
    <3>2. tid[pool[t]] = t /\ pc[pool[t]] \in {"asked", "told", "header", "body"}
      BY <2>1, <3>1 DEF Owned, PoolIsCurrent
    <3> QED
      BY <3>1, <3>2, <1>1
  <2>2. ASSUME NEW q \in Resolver, pc'[q] = "asked"
        PROVE  pool'[tid[q]] = q
    <3>1. q # r /\ pc[q] = "asked"
      BY <2>2, <1>1
    <3> QED
      BY <3>1, <1>6 DEF Owned, PoolIsCurrent
  <2> QED
    BY <2>1, <2>2 DEF PoolIsCurrent
<1>8. ConnectionsMatch'
  <2> SUFFICES ASSUME NEW q \in Resolver
               PROVE  /\ fd'[q] # "none" => pc'[q] \in Reading \cup {"done"}
                      /\ fd'[q] = "zero" => \A t \in Tid : pool'[t] # q
    BY DEF ConnectionsMatch
  <2>1. CASE fd'[q] = fd[q]
    <3>1. q # Nobody /\ "asked" \notin Reading \cup {"done"}
      BY DEF Nobody, Resolver, Reading
    <3> QED
      BY <2>1, <3>1, <1>1, <1>6 DEF Owned, ConnectionsMatch
  <2>2. CASE fd'[q] # fd[q]
    <3>1. q = r /\ pc[r] \in Reading /\ \A t \in Tid : pool'[t] # r
      BY <2>2, <1>6 DEF Typed, RestTyped
    <3> QED
      BY <3>1, <1>1 DEF Reading
  <2> QED
    BY <2>1, <2>2
<1>9. ResultsMatch' /\ AnswerIsOwn'
  BY DEF Owned, ResultsMatch, AnswerIsOwn
<1> QED
  BY <1>3, <1>4, <1>5, <1>7, <1>8, <1>9 DEF Owned

-----------------------------------------------------------------------------
(***************************************************************************)
(* The actions.                                                            *)
(***************************************************************************)

\* gen_tid returns an id, and the cycle goes on with one.
LEMMA GenTidType ==
  ASSUME Typed, NEW r \in Resolver, GenTid(r), TidIsFresh
  PROVE  next_tid' \in Tid /\ tid' \in [Resolver -> Tid]
<1>1. NewTid \in Tid /\ MAX_TID \in Nat \ {0}
  BY DnsAssumption DEF TidIsFresh
<1>2. \A i \in Nat, n \in Nat \ {0} : (i % n) + 1 \in 1 .. n
  OBVIOUS
<1>3. next_tid' \in Tid
  BY <1>1, <1>2 DEF GenTid, Tid
<1> QED
  BY <1>1, <1>3 DEF GenTid, Typed, RestTyped

LEMMA ProceedStep ==
  ASSUME Typed, Owned, TakesFresh, NEW r \in Resolver, pc[r] \in {"told", "header", "body"},
         NEW result \in {Nobody, r}, NEW error, Proceed(r, result, error), Without(r),
         sent' = sent, timers' \subseteq timers, checks' = checks, req' = [req EXCEPT ![r] = NoRequest],
         \A q \in Resolver \ {r} : fd'[q] = fd[q], fd'[r] = "none"
  PROVE  /\ Owned'
         /\ next_tid' \in Tid /\ tid' \in [Resolver -> Tid]
         /\ outcome' \in [Resolver -> {Pending, Fails, Throws} \cup Resolver]
<1>1. /\ \A q \in Resolver \ {r} : req'[q] = req[q]
      /\ req'[r].result \in {Nobody, r}
  BY DEF Typed, RestTyped, NoRequest
<1>2. outcome[r] \in {Pending, Fails, Throws, r}
  BY DEF Owned, AnswerIsOwn
<1>3. CASE \E s : Select(r, s, "select") /\ outcome' = outcome
  <2>1. pc' = [pc EXCEPT ![r] = "select"] /\ GenTid(r) /\ outcome' = outcome
    BY <1>3 DEF Select
  <2>2. TidIsFresh
    BY <2>1 DEF TakesFresh, Typed
  <2>3. tid' = [tid EXCEPT ![r] = NewTid]
    BY <2>1 DEF GenTid
  <2>4. Owned'
    BY <1>1, <1>2, <2>1, <2>2, <2>3, AwayStep
  <2> QED
    BY <2>1, <2>2, <2>4, GenTidType DEF Typed, RestTyped
<1>4. CASE /\ pc' = [pc EXCEPT ![r] = "done"] /\ UNCHANGED <<next_tid, tid>>
           /\ outcome' = [outcome EXCEPT ![r] = IF result = Nobody THEN Fails ELSE result]
  <2>1. /\ \A q \in Resolver \ {r} : outcome'[q] = outcome[q]
        /\ outcome'[r] \in {Pending, Fails, Throws, r}
    BY <1>4 DEF Typed, RestTyped
  <2>2. Owned'
    BY <1>1, <1>4, <2>1, AwayStep
  <2>3. outcome' \in [Resolver -> {Pending, Fails, Throws} \cup Resolver]
    BY <1>4, <2>1 DEF Typed, RestTyped
  <2> QED
    BY <1>4, <2>2, <2>3 DEF Typed, RestTyped
<1> QED
  BY <1>3, <1>4 DEF Proceed

LEMMA IdsResolve ==
  ASSUME Typed, Owned, TakesFresh, NEW r \in Resolver, Resolve(r)
  PROVE  Ids'
<1>1. /\ pc[r] = "idle" /\ pc' = [pc EXCEPT ![r] = "select"] /\ GenTid(r)
      /\ UNCHANGED <<pool, timers, checks, sent, req, fd, read, down, outcome>>
      /\ turn > 0 /\ turn' = turn - 1
  BY DEF Resolve, Select, Dispatched, timerVars, tcpVars
<1>2. TidIsFresh
  BY <1>1 DEF TakesFresh, Typed
<1>3. Without(r)
  BY <1>1, ForgetsOwn
<1>4. fd[r] = "none" /\ req[r].result \in {Nobody, r} /\ outcome[r] \in {Pending, Fails, Throws, r}
  BY <1>1 DEF Typed, Owned, ConnectionsMatch, ResultsMatch, AnswerIsOwn, Reading
<1>5. tid' = [tid EXCEPT ![r] = NewTid]
  BY <1>1 DEF GenTid
<1>6. Owned'
  BY <1>1, <1>2, <1>3, <1>4, <1>5, AwayStep
<1>7. turn' \in 0 .. MaxBatch
  BY <1>1, DnsAssumption DEF Typed, RestTyped
<1>8. RestTyped'
  BY <1>1, <1>2, <1>7, GenTidType DEF Typed, RestTyped
<1> QED
  BY <1>6, <1>8 DEF Ids

LEMMA IdsUdpReturns ==
  ASSUME Typed, Owned, TakesFresh, NEW r \in Resolver, UdpReturns(r)
  PROVE  Ids'
<1>1. /\ pc[r] = "told" /\ Forget(r) /\ req' = [req EXCEPT ![r] = NoRequest]
      /\ UNCHANGED <<checks, sent, fd, read, down, turn>> /\ timers' \subseteq timers
  BY DEF UdpReturns, TimerIsMoot, tcpVars
<1>2. Without(r)
  BY <1>1, ForgetsOwn DEF Active
<1>3. fd[r] = "none" /\ req[r].result \in {Nobody, r} /\ outcome[r] \in {Pending, Fails, Throws, r}
  BY <1>1 DEF Typed, Owned, ConnectionsMatch, ResultsMatch, AnswerIsOwn, Reading
<1>4. /\ Owned'
      /\ next_tid' \in Tid /\ tid' \in [Resolver -> Tid]
      /\ outcome' \in [Resolver -> {Pending, Fails, Throws} \cup Resolver]
  <2>1. CASE Proceed(r, req[r].result, req[r].error)
    BY <1>1, <1>2, <1>3, <2>1, ProceedStep
  <2>2. CASE Select(r, Head(list[r]), "select tcp") /\ outcome' = outcome
    <3>1. pc' = [pc EXCEPT ![r] = "select tcp"] /\ GenTid(r)
      BY <2>2 DEF Select
    <3>2. TidIsFresh
      BY <1>1, <3>1 DEF TakesFresh, Typed
    <3>3. tid' = [tid EXCEPT ![r] = NewTid]
      BY <3>1 DEF GenTid
    <3>4. /\ \A q \in Resolver \ {r} : req'[q] = req[q]
          /\ req'[r].result \in {Nobody, r}
      BY <1>1 DEF Typed, RestTyped, NoRequest
    <3>5. Owned'
      BY <1>1, <1>2, <1>3, <2>2, <3>1, <3>2, <3>3, <3>4, AwayStep
    <3> QED
      BY <2>2, <3>1, <3>2, <3>5, GenTidType DEF Typed, RestTyped
  <2> QED
    BY <2>1, <2>2 DEF UdpReturns
<1>5. pool' \in [Tid -> Resolver \cup {Nobody}] /\ req' \in [Resolver -> [result : Resolver \cup {Nobody}, error : Errors]]
  BY <1>1 DEF Forget, NoRequest, Errors, Typed, RestTyped
<1>6. RestTyped'
  BY <1>1, <1>4, <1>5 DEF Typed, RestTyped
<1> QED
  BY <1>4, <1>6 DEF Ids

\* ReadBody and ReadFails.
LEMMA IdsRelease ==
  ASSUME Typed, Owned, TakesFresh, NEW r \in Resolver, pc[r] \in Reading,
         NEW result \in {Nobody, r}, NEW error, Release(r, result, error)
  PROVE  Ids'
<1>1. /\ Forget(r) /\ req' = [req EXCEPT ![r] = NoRequest]
      /\ fd' = [fd EXCEPT ![r] = "none"] /\ read' = [read EXCEPT ![r] = 0]
      /\ down' = [down EXCEPT ![r] = FALSE]
      /\ UNCHANGED <<checks, sent, turn>> /\ timers' \subseteq timers
      /\ Proceed(r, result, error) /\ pc[r] \in {"header", "body"}
  BY DEF Release, TimerIsMoot, Reading
<1>2. Without(r)
  BY <1>1, ForgetsOwn DEF Active
<1>3. fd'[r] = "none" /\ \A q \in Resolver \ {r} : fd'[q] = fd[q]
  BY <1>1 DEF Typed, RestTyped
<1>4. /\ Owned'
      /\ next_tid' \in Tid /\ tid' \in [Resolver -> Tid]
      /\ outcome' \in [Resolver -> {Pending, Fails, Throws} \cup Resolver]
  BY <1>1, <1>2, <1>3, ProceedStep
<1>5. pool' \in [Tid -> Resolver \cup {Nobody}] /\ req' \in [Resolver -> [result : Resolver \cup {Nobody}, error : Errors]]
  BY <1>1 DEF Forget, NoRequest, Errors, Typed, RestTyped
<1>6. fd' \in [Resolver -> {"none", "open", "zero"}] /\ read' \in [Resolver -> 0 .. 2] /\ down' \in [Resolver -> BOOLEAN]
  BY <1>1 DEF Typed, RestTyped
<1>7. RestTyped'
  BY <1>1, <1>4, <1>5, <1>6 DEF Typed, RestTyped
<1> QED
  BY <1>4, <1>7 DEF Ids

LEMMA IdsUdpQuery ==
  ASSUME Typed, Owned, NEW r \in Resolver, UdpQuery(r), Head(list[r]) \in Server
  PROVE  Ids'
<1>1. /\ pc[r] = "select" /\ pc' = [pc EXCEPT ![r] = "asked"]
      /\ sent' = sent \cup {[tid |-> tid[r], of |-> r, to |-> Head(list[r])]}
      /\ pool' = [pool EXCEPT ![tid[r]] = r]
      /\ timers' = timers \cup {[tid |-> tid[r], of |-> r, tcp |-> FALSE]}
      /\ UNCHANGED <<next_tid, checks, tid, req, fd, read, down, outcome, turn>>
  BY DEF UdpQuery, tcpVars
<1>2. \A p \in sent' \ sent : p.tid = tid[r] /\ p.of = r
  BY <1>1
<1>3. Owned'
  <2>1. (FALSE <=> "asked" = "header") /\ FALSE \in BOOLEAN /\ "asked" \in {"asked", "header"}
    OBVIOUS
  <2>2. fd' = fd \/ (FALSE /\ fd' = [fd EXCEPT ![r] = "open"])
    BY <1>1
  <2>3. pc[r] \in {"select", "opened"} /\ UNCHANGED <<tid, req, outcome>>
    BY <1>1
  <2> QED
    BY <1>1, <1>2, <2>1, <2>2, <2>3, SendStep
<1>4. RestTyped'
  <2>1. tid[r] \in Tid
    BY DEF Typed, RestTyped
  <2>2. [tid |-> tid[r], of |-> r, tcp |-> FALSE] \in Timer
    BY <2>1 DEF Timer
  <2>3. sent' \subseteq [tid : Tid, of : Resolver, to : Server]
    BY <1>1, <2>1 DEF Typed, RestTyped
  <2>4. pool' \in [Tid -> Resolver \cup {Nobody}]
    BY <1>1 DEF Typed, RestTyped
  <2> QED
    BY <1>1, <2>2, <2>3, <2>4 DEF Typed, RestTyped
<1> QED
  BY <1>3, <1>4 DEF Ids

LEMMA IdsTcpOpened ==
  ASSUME Typed, Owned, NEW r \in Resolver, TcpOpened(r)
  PROVE  Ids'
<1>1. /\ pc[r] = "opened" /\ pc' = [pc EXCEPT ![r] = "header"]
      /\ pool' = [pool EXCEPT ![tid[r]] = r] /\ fd' = [fd EXCEPT ![r] = "open"]
      /\ timers' = timers \cup {[tid |-> tid[r], of |-> r, tcp |-> TRUE]}
      /\ UNCHANGED <<next_tid, checks, sent, tid, req, read, down, outcome, turn>>
  BY DEF TcpOpened, Goes
<1>2. Owned'
  <2>1. (TRUE <=> "header" = "header") /\ TRUE \in BOOLEAN /\ "header" \in {"asked", "header"}
    OBVIOUS
  <2>2. fd' = fd \/ (TRUE /\ fd' = [fd EXCEPT ![r] = "open"])
    BY <1>1
  <2>3. pc[r] \in {"select", "opened"} /\ UNCHANGED <<tid, req, outcome>>
    BY <1>1
  <2>4. \A p \in sent' \ sent : p.tid = tid[r] /\ p.of = r
    BY <1>1
  <2> QED
    BY <1>1, <2>1, <2>2, <2>3, <2>4, SendStep
<1>3. RestTyped'
  <2>1. tid[r] \in Tid
    BY DEF Typed, RestTyped
  <2>2. [tid |-> tid[r], of |-> r, tcp |-> TRUE] \in Timer
    BY <2>1 DEF Timer
  <2>3. pool' \in [Tid -> Resolver \cup {Nobody}] /\ fd' \in [Resolver -> {"none", "open", "zero"}]
    BY <1>1 DEF Typed, RestTyped
  <2> QED
    BY <1>1, <2>2, <2>3 DEF Typed, RestTyped
<1> QED
  BY <1>2, <1>3 DEF Ids

\* resolve() throws.
LEMMA IdsThrows ==
  ASSUME Typed, Owned, NEW r \in Resolver, pc' = [pc EXCEPT ![r] = "done"],
         outcome' = [outcome EXCEPT ![r] = Throws],
         pc[r] = "refused" \/ fd[r] = "zero",
         UNCHANGED <<idVars, timerVars, sent, req, tcpVars, turn>>
  PROVE  Ids'
<1>1. UNCHANGED <<next_tid, pool, tid, timers, checks, sent, req, fd, read, down, turn>>
  BY DEF idVars, timerVars, tcpVars
<1>2. Without(r)
  BY <1>1, ForgetsOwn
<1>3. /\ \A q \in Resolver \ {r} : outcome'[q] = outcome[q]
      /\ outcome'[r] \in {Pending, Fails, Throws, r}
      /\ outcome' \in [Resolver -> {Pending, Fails, Throws} \cup Resolver]
  BY DEF Typed, RestTyped
<1>4. req'[r].result \in {Nobody, r}
  BY <1>1 DEF Owned, ResultsMatch
<1>5. Owned'
  BY <1>1, <1>2, <1>3, <1>4, AwayStep
<1>6. RestTyped'
  BY <1>1, <1>3 DEF Typed, RestTyped
<1> QED
  BY <1>5, <1>6 DEF Ids

\* The steps that leave the queries as they are.
LEMMA IdsQuiet ==
  ASSUME Typed, Owned,
         \/ (\E r \in Resolver : \/ TcpQuery(r) \/ ConnectArrives(r) \/ ErrorArrives(r) \/ DataArrives(r)
                                 \/ CloseArrives(r) \/ (ReadHeader(r) /\ fd[r] = "open"))
         \/ (\E t \in timers : TimerArrives(t))
         \/ (\E s \in Server : Expires(s) \/ AliveTimerArrives(s) \/ CheckAlive(s))
         \/ TurnSettles \/ TurnEnds \/ UNCHANGED vars
  PROVE  Ids'
<1>1. UNCHANGED <<next_tid, pool, tid, req, fd, outcome>>
  BY DEF TcpQuery, ConnectArrives, ErrorArrives, DataArrives, CloseArrives, ReadHeader, TimerArrives,
         Expires, AliveTimerArrives, CheckAlive, TurnSettles, TurnEnds, vars, idVars, tcpVars
<1>2. sent' \subseteq sent /\ timers' \cup checks' \subseteq timers \cup checks
  BY DEF TcpQuery, ConnectArrives, ErrorArrives, DataArrives, CloseArrives, ReadHeader, TimerArrives,
         Expires, AliveTimerArrives, CheckAlive, TurnSettles, TurnEnds, vars, timerVars
<1>3. ASSUME NEW q \in Resolver
      PROVE  Near(pc[q], pc'[q])
  <2>1. CASE \E r \in Resolver : TcpQuery(r) \/ ConnectArrives(r) \/ ErrorArrives(r)
    BY <2>1 DEF TcpQuery, ConnectArrives, ErrorArrives, Goes, Near, Typed
  <2>2. CASE \E r \in Resolver : ReadHeader(r) /\ fd[r] = "open"
    BY <2>2 DEF ReadHeader, Near, Reading, Typed
  <2>3. CASE TurnEnds
    BY <2>3 DEF TurnEnds, Near
  <2>4. CASE pc' = pc
    BY <2>4 DEF Near
  <2> QED
    BY <2>1, <2>2, <2>3, <2>4 DEF DataArrives, CloseArrives, TimerArrives, Expires, AliveTimerArrives,
       CheckAlive, TurnSettles, vars
<1>4. Owned'
  BY <1>1, <1>2, <1>3, QuietStep
<1>5. timers' \subseteq Timer /\ checks' \subseteq Timer /\ sent' \subseteq [tid : Tid, of : Resolver, to : Server]
  BY <1>2 DEF Typed, RestTyped
<1>6. turn' \in 0 .. MaxBatch
  <2>1. MaxBatch \in Nat /\ turn \in 0 .. MaxBatch
    BY DnsAssumption DEF Typed, RestTyped
  <2>2. turn' = turn \/ (turn > 0 /\ turn' = turn - 1) \/ turn' = 0 \/ turn' = MaxBatch
    BY DEF TcpQuery, ConnectArrives, ErrorArrives, DataArrives, CloseArrives, ReadHeader, TimerArrives,
         Expires, AliveTimerArrives, CheckAlive, TurnSettles, TurnEnds, vars, Dispatched
  <2> QED
    BY <2>1, <2>2
<1>7. read' \in [Resolver -> 0 .. 2] /\ down' \in [Resolver -> BOOLEAN]
  <2>1. CASE \E r \in Resolver : DataArrives(r) \/ CloseArrives(r)
    <3>1. PICK r \in Resolver : DataArrives(r) \/ CloseArrives(r)
      BY <2>1
    <3>2. CASE DataArrives(r)
      <4>1. PICK n \in read[r] + 1 .. 2 : read' = [read EXCEPT ![r] = n]
        BY <3>2 DEF DataArrives
      <4>2. n \in 0 .. 2
        BY <4>1 DEF Typed, RestTyped
      <4> QED
        BY <3>2, <4>1, <4>2 DEF DataArrives, Typed, RestTyped
    <3>3. CASE CloseArrives(r)
      BY <3>3 DEF CloseArrives, Typed, RestTyped
    <3> QED
      BY <3>1, <3>2, <3>3
  <2>2. CASE read' = read /\ down' = down
    BY <2>2 DEF Typed, RestTyped
  <2> QED
    BY <2>1, <2>2 DEF TcpQuery, ConnectArrives, ErrorArrives, ReadHeader, TimerArrives,
         Expires, AliveTimerArrives, CheckAlive, TurnSettles, TurnEnds, vars, tcpVars
<1>8. RestTyped'
  BY <1>1, <1>5, <1>6, <1>7 DEF Typed, RestTyped
<1> QED
  BY <1>4, <1>8 DEF Ids

\* An answer over UDP to the query it carries the id of.
LEMMA IdsAnswers ==
  ASSUME Typed, Owned, Answers
  PROVE  Ids'
<1>1. PICK p \in sent, error \in Errors : Packet(p, error)
  BY DEF Answers, Errors
<1>2. p.tid \in Tid /\ p.of \in Resolver
  BY DEF Typed, RestTyped
<1>3. PICK r \in Resolver : r = pool[p.tid]
  BY <1>1, <1>2 DEF Packet, Typed, RestTyped
<1>4. Active(r) /\ tid[r] = p.tid
  BY <1>1, <1>2, <1>3 DEF Owned, PoolIsCurrent, Packet, Active
<1>5. r = p.of
  BY <1>4 DEF Owned, CarriedByOwner
<1>6. PICK result \in {Nobody, r} : req' = [req EXCEPT ![r] = [result |-> result, error |-> error]]
  BY <1>1, <1>3, <1>5 DEF Packet
<1>7. /\ Wakeup(r) /\ turn > 0 /\ turn' = turn - 1
      /\ UNCHANGED <<next_tid, pool, tid, timers, checks, sent, fd, read, down, outcome>>
  BY <1>1, <1>3 DEF Packet, Dispatched, idVars, timerVars, tcpVars
<1>8. req'[r].result \in {Nobody, r} /\ \A q \in Resolver \ {r} : req'[q] = req[q]
  BY <1>6 DEF Typed, RestTyped
<1>9. Owned'
  BY <1>4, <1>7, <1>8, ToldStep
<1>10. req' \in [Resolver -> [result : Resolver \cup {Nobody}, error : Errors]]
  BY <1>6 DEF Typed, RestTyped
<1>11. turn' \in 0 .. MaxBatch
  BY <1>7, DnsAssumption DEF Typed, RestTyped
<1>12. RestTyped'
  BY <1>7, <1>10, <1>11 DEF Typed, RestTyped
<1> QED
  BY <1>9, <1>12 DEF Ids

\* A timer ends the query it belongs to, or one that is over.
LEMMA IdsCheck ==
  ASSUME Typed, Owned, NEW t \in checks, Check(t)
  PROVE  Ids'
<1>1. t.tid \in Tid /\ t.of \in Resolver /\ t.tcp \in BOOLEAN
  BY DEF Typed, RestTyped, Timer
<1>2. /\ UNCHANGED <<next_tid, tid, timers, sent, read, down, outcome, turn>>
      /\ checks' = checks \ {t}
  BY DEF Check
<1>3. CASE pool[t.tid] # Nobody
  <2>1. PICK r \in Resolver : r = pool[t.tid]
    BY <1>1, <1>3 DEF Typed, RestTyped
  <2>2. Active(r) /\ tid[r] = t.tid
    BY <1>1, <1>3, <2>1 DEF Owned, PoolIsCurrent, Active
  <2>3. r = t.of /\ (t.tcp <=> pc[r] \in Reading)
    BY <2>2 DEF Owned, CarriedByOwner, TimersMatch
  <2>4. /\ pool' = [pool EXCEPT ![tid[r]] = Nobody] /\ Wakeup(r)
        /\ req' = [req EXCEPT ![r].error = "timeout"]
        /\ fd' = [fd EXCEPT ![r] = IF t.tcp THEN "zero" ELSE @]
    BY <1>3, <2>1, <2>2, <2>3 DEF Check
  <2>5. fd' = fd \/ (fd' = [fd EXCEPT ![r] = "zero"] /\ pc[r] \in Reading)
    <3>1. CASE t.tcp
      BY <3>1, <2>3, <2>4
    <3>2. CASE ~t.tcp
      BY <3>2, <2>4 DEF Typed, RestTyped
    <3> QED
      BY <3>1, <3>2
  <2>6. req' \in [Resolver -> [result : Resolver \cup {Nobody}, error : Errors]]
    BY <2>4 DEF Typed, RestTyped, Errors
  <2>7. req'[r].result \in {Nobody, r} /\ \A q \in Resolver \ {r} : req'[q] = req[q]
    <3>1. req'[r].result = req[r].result /\ \A q \in Resolver \ {r} : req'[q] = req[q]
      BY <2>4 DEF Typed, RestTyped
    <3> QED
      BY <3>1 DEF Owned, ResultsMatch
  <2>8. Owned'
    BY <1>2, <2>2, <2>4, <2>5, <2>7, ToldStep
  <2>9. pool' \in [Tid -> Resolver \cup {Nobody}] /\ fd' \in [Resolver -> {"none", "open", "zero"}]
    BY <2>4, <2>5 DEF Typed, RestTyped
  <2>10. RestTyped'
    BY <1>2, <2>6, <2>9 DEF Typed, RestTyped
  <2> QED
    BY <2>8, <2>10 DEF Ids
<1>4. CASE pool[t.tid] = Nobody
  <2>1. UNCHANGED <<pool, req, pc, fd>>
    BY <1>4 DEF Check
  <2>2. \A r \in Resolver : Near(pc[r], pc'[r])
    BY <2>1 DEF Near
  <2>3. Owned'
    BY <1>2, <2>1, <2>2, QuietStep
  <2>4. RestTyped'
    BY <1>2, <2>1 DEF Typed, RestTyped
  <2> QED
    BY <2>3, <2>4 DEF Ids
<1> QED
  BY <1>3, <1>4

-----------------------------------------------------------------------------
(***************************************************************************)
(* The theorem.                                                            *)
(***************************************************************************)

IInv == Lists /\ Ids

LEMMA InvInit == Init => IInv
<1> SUFFICES ASSUME Init
             PROVE  IInv
  OBVIOUS
<1>1. RestTyped
  <2>1. /\ 1 \in Tid /\ MaxBatch \in 0 .. MaxBatch
    BY DnsAssumption DEF Tid
  <2>2. NoRequest \in [result : Resolver \cup {Nobody}, error : Errors]
    BY DEF NoRequest, Errors
  <2> QED
    BY <2>1, <2>2 DEF Init, RestTyped
<1>2. Owned
  <2>1. \A r \in Resolver : ~Active(r) /\ fd[r] = "none" /\ req[r].result = Nobody /\ outcome[r] = Pending
    BY DEF Init, Active, NoRequest
  <2>2. (\A t \in Tid : pool[t] = Nobody) /\ \A r \in Resolver : pc[r] # "asked"
    BY DEF Init
  <2> QED
    BY <2>1, <2>2 DEF Owned, TidsDiffer, CarriedByOwner, TimersMatch, PoolIsCurrent, ConnectionsMatch,
       ResultsMatch, AnswerIsOwn
<1> QED
  BY <1>1, <1>2, ListsInit DEF IInv, Ids

LEMMA InvNext == IInv /\ [Next]_vars /\ [TakesFresh]_vars => IInv'
<1> SUFFICES ASSUME IInv, [Next]_vars, [TakesFresh]_vars
             PROVE  Ids'
  BY ListsNext DEF IInv
<1>1. Typed /\ Owned
  BY DEF IInv, Ids, Typed, Lists, ListsTyped
<1>2. CASE UNCHANGED vars
  BY <1>1, <1>2, IdsQuiet
<1>3. CASE TakesFresh /\ Next
  <2>1. CASE \E r \in Resolver : \/ Resolve(r) \/ Continues(r)
                                 \/ ConnectArrives(r) \/ ErrorArrives(r) \/ DataArrives(r) \/ CloseArrives(r)
    <3>1. PICK r \in Resolver : \/ Resolve(r) \/ Continues(r)
                                \/ ConnectArrives(r) \/ ErrorArrives(r) \/ DataArrives(r) \/ CloseArrives(r)
      BY <2>1
    <3>2. CASE UdpQuery(r)
      <4>1. list[r] # << >>
        BY <3>1, <3>2 DEF IInv, Lists, ListsWhole, UdpQuery, Active
      <4>2. Head(list[r]) \in Server
        BY <3>1, <4>1, ListFacts DEF IInv
      <4> QED
        BY <3>1, <3>2, <4>2, <1>1, IdsUdpQuery
    <3>3. CASE TcpFails(r) \/ ReadThrows(r)
      <4>1. /\ pc' = [pc EXCEPT ![r] = "done"] /\ outcome' = [outcome EXCEPT ![r] = Throws]
            /\ pc[r] = "refused" \/ fd[r] = "zero"
            /\ UNCHANGED <<idVars, timerVars, sent, req, tcpVars, turn>>
        BY <3>3 DEF TcpFails, ReadThrows, Goes
      <4> QED
        BY <3>1, <4>1, <1>1, IdsThrows
    <3>4. CASE ReadHeader(r)
      <4>1. CASE fd[r] = "open"
        BY <3>1, <3>4, <4>1, <1>1, IdsQuiet
      <4>2. CASE fd[r] # "open"
        <5>1. /\ pc' = [pc EXCEPT ![r] = "done"] /\ outcome' = [outcome EXCEPT ![r] = Throws]
              /\ fd[r] = "zero"
              /\ UNCHANGED <<idVars, timerVars, sent, req, tcpVars, turn>>
          BY <3>4, <4>2 DEF ReadHeader
        <5> QED
          BY <3>1, <5>1, <1>1, IdsThrows
      <4> QED
        BY <4>1, <4>2
    <3>5. CASE ReadBody(r)
      <4>1. pc[r] \in Reading
        BY <3>5 DEF ReadBody, Reading
      <4>2. \E result \in {Nobody, r} : \E error : Release(r, result, error)
        <5>1. req[r].result \in {Nobody, r}
          BY <3>1, <1>1 DEF Owned, ResultsMatch
        <5>2. PICK ok \in BOOLEAN :
                LET answer == IF pool[tid[r]] # r THEN req[r]
                              ELSE [result |-> IF ok THEN r ELSE Nobody, error |-> IF ok THEN "none" ELSE "error"]
                IN  Release(r, answer.result, answer.error)
          BY <3>5 DEF ReadBody
        <5>3. CASE pool[tid[r]] # r
          BY <5>1, <5>2, <5>3
        <5>4. CASE pool[tid[r]] = r
          BY <5>2, <5>4
        <5> QED
          BY <5>3, <5>4
      <4> QED
        BY <3>1, <4>1, <4>2, <1>1, <1>3, IdsRelease
    <3>6. CASE ReadFails(r)
      <4>1. pc[r] \in Reading /\ \E error : Release(r, Nobody, error)
        BY <3>6 DEF ReadFails, Reading
      <4> QED
        BY <3>1, <4>1, <1>1, <1>3, IdsRelease
    <3>7. CASE Resolve(r) \/ UdpReturns(r) \/ TcpOpened(r)
      BY <3>1, <3>7, <1>1, <1>3, IdsResolve, IdsUdpReturns, IdsTcpOpened
    <3>8. CASE TcpQuery(r) \/ ConnectArrives(r) \/ ErrorArrives(r) \/ DataArrives(r) \/ CloseArrives(r)
      BY <3>1, <3>8, <1>1, IdsQuiet
    <3> QED
      BY <3>1, <3>2, <3>3, <3>4, <3>5, <3>6, <3>7, <3>8 DEF Continues
  <2>2. CASE Answers
    BY <2>2, <1>1, IdsAnswers
  <2>3. CASE \E t \in checks : Check(t)
    BY <2>3, <1>1, IdsCheck
  <2>4. CASE (\E t \in timers : TimerArrives(t)) \/ TurnSettles \/ TurnEnds
    BY <2>4, <1>1, IdsQuiet
  <2>5. CASE \E s \in Retiree : Expires(s) \/ AliveTimerArrives(s) \/ CheckAlive(s)
    <3>1. Retiree \subseteq Server
      BY DnsAssumption DEF Server
    <3> QED
      BY <2>5, <3>1, <1>1, IdsQuiet
  <2> QED
    BY <1>3, <2>1, <2>2, <2>3, <2>4, <2>5 DEF Next
<1> QED
  BY <1>2, <1>3

LEMMA InvImplies == IInv => DnsInv
<1> SUFFICES ASSUME IInv
             PROVE  DnsInv
  OBVIOUS
<1>1. TypeOK
  BY DEF IInv, Lists, ListsTyped, Ids, RestTyped, TypeOK
<1> QED
  BY <1>1, ListsImply DEF IInv, Ids, Owned, DnsInv

\* As long as ids do not come round while a query, a late answer or a timer
\* still carries them, answers go to those who asked and the books of the
\* queries, of the sockets and of the servers agree, whatever comes late,
\* twice or not at all (gen_tid, response, udp_query, tcp_query and
\* remote_resolve in ts/lib/skynet/skynet/dns.ts).
THEOREM DnsCorrect == Spec /\ FreshTids => []DnsInv
<1>1. Init => IInv
  BY InvInit
<1>2. IInv /\ [Next]_vars /\ [TakesFresh]_vars => IInv'
  BY InvNext
<1>3. IInv => DnsInv
  BY InvImplies
<1> QED
  BY <1>1, <1>2, <1>3, PTL DEF Spec, FreshTids
=============================================================================
