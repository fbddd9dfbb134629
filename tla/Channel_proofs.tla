--------------------------- MODULE Channel_proofs ---------------------------
(***************************************************************************)
(* Proofs about Channel, for any number of requests, connections and       *)
(* closings: requests and answers stay paired over one connection and the  *)
(* next.                                                                   *)
(*                                                                         *)
(* Answers by order carry no name.  That each goes to the request it is    *)
(* for rests on what is on a connection being, from the buffer back to the *)
(* requests the server has yet to read, what the dispatcher waits for      *)
(* (Paired), on no connection being used before the dispatcher of the last *)
(* one has ended (Attached), and on that dispatcher leaving nothing behind *)
(* (Cleared).                                                              *)
(***************************************************************************)
EXTENDS Channel, SequenceTheorems, TLAPS

\* The requests that the connection n holds, in the order of their answers.
Contents(n) == buffer[n] \o (answers[n] \o wire[n])

\* The tokens that the dispatcher is still to serve.
Pending == IF dispatcher.at = "read" THEN << dispatcher.token >> \o thread ELSE thread

\* One task connects, and meanwhile there is no connection.
Connecting ==
  /\ \A r \in Req :
       pc[r] \in {"asking", "opening", "opened", "refused", "draining", "awake"} => connector = r
  /\ connector # NoReq => socket = NoConn /\ Opening \in Conn

\* The connections that have been used; the others are empty.
Used(n) == n < nextConn /\ (connector # NoReq => n < Opening)

Connections ==
  /\ \A n \in Conn : ~Used(n) => Contents(n) = << >>
  /\ socket # NoConn => Used(socket)
  /\ dispatcher.conn # NoConn => Used(dispatcher.conn)
  /\ \A n \in Conn : conn[n] = "down" => answers[n] = << >>

\* Only a dispatcher by order takes a request from the queues.
Taken ==
  by_session \/ dispatcher.at \in {"none", "pop", "asleep"} =>
    /\ dispatcher.token = NoReq /\ dispatcher.func = NoReq
    /\ by_session => dispatcher.at \notin {"pop", "asleep"}

\* A connection in use has a dispatcher, which reads it; without one the
\* queues are empty.
Attached ==
  /\ socket # NoConn => dispatch_thread
  /\ socket # NoConn /\ dispatcher.at \in {"read", "got"} => dispatcher.conn = socket
  /\ ~dispatch_thread => thread = << >>

\* The next answer from n is the one to t, or there is none.
Comes(n, t) ==
  \/ Contents(n) # << >> /\ Head(Contents(n)) = t
  \/ conn[n] = "down" /\ buffer[n] = << >>

\* What the dispatcher waits for is what its connection holds.
Paired ==
  /\ socket # NoConn => NoReq \notin ToSet(thread) /\ Contents(socket) = Pending
  /\ dispatcher.at = "read" /\ dispatcher.conn # NoConn =>
       Comes(dispatcher.conn, dispatcher.token)
  /\ dispatcher.at = "got" => dispatcher.answer = dispatcher.token

IInv ==
  /\ TypeOK /\ Connecting /\ Connections /\ Taken
  /\ InStep => Attached
  /\ InStep /\ ~by_session => Paired
  /\ AnswerIsOwn /\ QueuesAligned /\ WaitingIsHeld

-----------------------------------------------------------------------------
(***************************************************************************)
(* Sequences.                                                              *)
(***************************************************************************)

\* The first of a sequence, and its elements.
LEMMA FirstOf ==
  ASSUME NEW S, NEW s \in Seq(S), s # << >>
  PROVE  /\ Len(s) \in Nat \ {0}
         /\ Head(s) = s[1] /\ 1 \in DOMAIN s
         /\ Head(s) \in S /\ Tail(s) \in Seq(S)
         /\ Head(s) \in ToSet(s)
         /\ \A x \in ToSet(s) : x = Head(s) \/ x \in ToSet(Tail(s))
         /\ ToSet(Tail(s)) \subseteq ToSet(s)
  <1>1. /\ Len(s) \in Nat \ {0} /\ DOMAIN s = 1 .. Len(s)
        /\ Head(s) = s[1] /\ Head(s) \in S /\ Tail(s) \in Seq(S)
        /\ Len(Tail(s)) = Len(s) - 1
        /\ \A i \in 1 .. Len(Tail(s)) : Tail(s)[i] = s[i + 1]
    BY EmptySeq, LenProperties, HeadTailProperties
  <1>2. DOMAIN Tail(s) = 1 .. Len(s) - 1
    BY <1>1, LenProperties
  <1>3. ASSUME NEW i \in DOMAIN s, i # 1
        PROVE  s[i] \in ToSet(Tail(s))
    <2>1. i - 1 \in DOMAIN Tail(s) /\ Tail(s)[i - 1] = s[i - 1 + 1] /\ i - 1 + 1 = i
      BY <1>1, <1>2, <1>3
    <2> QED
      BY <2>1 DEF ToSet
  <1>4. \A x \in ToSet(s) : x = Head(s) \/ x \in ToSet(Tail(s))
    BY <1>1, <1>3 DEF ToSet
  <1>5. ASSUME NEW i \in DOMAIN Tail(s)
        PROVE  Tail(s)[i] \in ToSet(s)
    <2>1. i + 1 \in DOMAIN s /\ Tail(s)[i] = s[i + 1]
      BY <1>1, <1>2
    <2> QED
      BY <2>1 DEF ToSet
  <1>6. ToSet(Tail(s)) \subseteq ToSet(s)
    BY <1>5 DEF ToSet
  <1>7. 1 \in DOMAIN s
    BY <1>1
  <1> QED
    BY <1>1, <1>4, <1>6, <1>7 DEF ToSet

\* The elements of a sequence that was appended to.
LEMMA AppendSet ==
  ASSUME NEW S, NEW s \in Seq(S), NEW e \in S
  PROVE  ToSet(Append(s, e)) = ToSet(s) \cup {e}
  <1>1. /\ Len(s) \in Nat /\ DOMAIN s = 1 .. Len(s)
        /\ DOMAIN Append(s, e) = 1 .. Len(s) + 1
        /\ \A i \in 1 .. Len(s) : Append(s, e)[i] = s[i]
        /\ Append(s, e)[Len(s) + 1] = e
    BY LenProperties, AppendProperties
  <1>2. DOMAIN Append(s, e) = DOMAIN s \cup {Len(s) + 1}
    BY <1>1
  <1> QED
    BY <1>1, <1>2 DEF ToSet

\* The head and the tail of a concatenation.
LEMMA ConcatHead ==
  ASSUME NEW S, NEW s \in Seq(S), NEW t \in Seq(S), s # << >>
  PROVE  s \o t # << >> /\ Head(s \o t) = Head(s) /\ Tail(s \o t) = Tail(s) \o t
  <1>1. /\ Len(s) \in Nat \ {0} /\ Len(t) \in Nat
        /\ Tail(s) \in Seq(S) /\ Len(Tail(s)) = Len(s) - 1
        /\ \A i \in 1 .. Len(s) - 1 : Tail(s)[i] = s[i + 1]
        /\ Head(s) = s[1]
    BY EmptySeq, LenProperties, HeadTailProperties
  <1> PICK u \in Seq(S) : u = s \o t
    BY ConcatProperties
  <1>2. /\ Len(u) = Len(s) + Len(t)
        /\ \A i \in 1 .. Len(s) + Len(t) : u[i] = IF i <= Len(s) THEN s[i] ELSE t[i - Len(s)]
    BY ConcatProperties
  <1>3. u # << >>
    BY <1>1, <1>2, EmptySeq
  <1>4. /\ Head(u) = u[1] /\ Tail(u) \in Seq(S) /\ Len(Tail(u)) = Len(u) - 1
        /\ \A i \in 1 .. Len(u) - 1 : Tail(u)[i] = u[i + 1]
    BY <1>3, HeadTailProperties
  <1>5. Head(u) = Head(s)
    BY <1>1, <1>2, <1>4
  <1> PICK v \in Seq(S) : v = Tail(s) \o t
    BY <1>1, ConcatProperties
  <1>6. /\ Len(v) = Len(s) - 1 + Len(t)
        /\ \A i \in 1 .. Len(s) - 1 + Len(t) :
             v[i] = IF i <= Len(s) - 1 THEN Tail(s)[i] ELSE t[i - (Len(s) - 1)]
    BY <1>1, ConcatProperties
  <1>7. ASSUME NEW i \in 1 .. Len(u) - 1
        PROVE  Tail(u)[i] = v[i]
    <2>1. i + 1 \in 1 .. Len(s) + Len(t) /\ Tail(u)[i] = u[i + 1]
      BY <1>1, <1>2, <1>4
    <2>2. CASE i <= Len(s) - 1
      BY <1>1, <1>2, <1>6, <2>1, <2>2
    <2>3. CASE ~ (i <= Len(s) - 1)
      <3>1. i + 1 - Len(s) = i - (Len(s) - 1) /\ ~ (i + 1 <= Len(s))
        BY <1>1, <2>3
      <3> QED
        BY <1>1, <1>2, <1>6, <2>1, <2>3, <3>1
    <2> QED
      BY <2>2, <2>3
  <1>8. Tail(u) = v
    BY <1>1, <1>2, <1>4, <1>6, <1>7, SeqEqual
  <1> QED
    BY <1>3, <1>5, <1>8

\* The first of t may as well be the last of s.
LEMMA ConcatMove ==
  ASSUME NEW S, NEW s \in Seq(S), NEW t \in Seq(S), t # << >>
  PROVE  Append(s, Head(t)) \o Tail(t) = s \o t
  <1>1. Head(t) \in S /\ Tail(t) \in Seq(S) /\ << Head(t) >> \in Seq(S)
    BY HeadTailProperties
  <1>2. << Head(t) >> \o Tail(t) = t
    <2>1. /\ Len(t) \in Nat \ {0} /\ Len(Tail(t)) = Len(t) - 1 /\ Head(t) = t[1]
          /\ \A i \in 1 .. Len(t) - 1 : Tail(t)[i] = t[i + 1]
      BY EmptySeq, LenProperties, HeadTailProperties
    <2> PICK u \in Seq(S) : u = << Head(t) >> \o Tail(t)
      BY <1>1, ConcatProperties
    <2>2. /\ Len(u) = 1 + (Len(t) - 1)
          /\ \A i \in 1 .. 1 + (Len(t) - 1) :
               u[i] = IF i <= 1 THEN Head(t) ELSE Tail(t)[i - 1]
      BY <1>1, <2>1, ConcatProperties
    <2>3. ASSUME NEW i \in 1 .. Len(u)
          PROVE  u[i] = t[i]
      <3>1. CASE i = 1
        BY <2>1, <2>2, <3>1
      <3>2. CASE i # 1
        <4>1. i - 1 \in 1 .. Len(t) - 1 /\ i - 1 + 1 = i /\ ~ (i <= 1)
          BY <2>1, <2>2, <3>2
        <4> QED
          BY <2>1, <2>2, <4>1
      <3> QED
        BY <3>1, <3>2
    <2> QED
      BY <2>1, <2>2, <2>3, SeqEqual
  <1>3. Append(s, Head(t)) = s \o << Head(t) >>
    BY <1>1, AppendIsConcat
  <1>4. (s \o << Head(t) >>) \o Tail(t) = s \o (<< Head(t) >> \o Tail(t))
    BY <1>1, ConcatAssociative
  <1> QED
    BY <1>2, <1>3, <1>4

\* Appending to the last part.
LEMMA ConcatAppend ==
  ASSUME NEW S, NEW s \in Seq(S), NEW t \in Seq(S), NEW e \in S
  PROVE  s \o Append(t, e) = Append(s \o t, e)
  <1>1. << e >> \in Seq(S) /\ s \o t \in Seq(S)
    BY ConcatProperties
  <1>2. (s \o t) \o << e >> = s \o (t \o << e >>)
    BY <1>1, ConcatAssociative
  <1>3. t \o << e >> = Append(t, e) /\ (s \o t) \o << e >> = Append(s \o t, e)
    BY <1>1, AppendIsConcat
  <1> QED
    BY <1>2, <1>3

\* What is where in a concatenation.
Concatenates(S, a, b) ==
  \E u \in Seq(S) : /\ u = a \o b /\ Len(u) = Len(a) + Len(b)
                    /\ DOMAIN u = 1 .. Len(a) + Len(b)
                    /\ \A j \in 1 .. Len(a) : u[j] = a[j]
                    /\ \A j \in 1 .. Len(b) : u[Len(a) + j] = b[j]

LEMMA ConcatAt ==
  ASSUME NEW S, NEW a \in Seq(S), NEW b \in Seq(S)
  PROVE  Concatenates(S, a, b)
  <1>0. Len(a) \in Nat /\ Len(b) \in Nat
    BY LenProperties
  <1> PICK u \in Seq(S) : u = a \o b
    BY ConcatProperties
  <1>1. /\ Len(u) = Len(a) + Len(b)
        /\ \A j \in 1 .. Len(a) + Len(b) :
             u[j] = IF j <= Len(a) THEN a[j] ELSE b[j - Len(a)]
    BY ConcatProperties
  <1>2. DOMAIN u = 1 .. Len(a) + Len(b)
    BY <1>1, LenProperties
  <1>3. ASSUME NEW j \in 1 .. Len(a)
        PROVE  u[j] = a[j]
    <2>1. j \in 1 .. Len(a) + Len(b) /\ j <= Len(a)
      BY <1>0
    <2> QED
      BY <1>1, <2>1
  <1>4. ASSUME NEW j \in 1 .. Len(b)
        PROVE  u[Len(a) + j] = b[j]
    <2>1. /\ Len(a) + j \in 1 .. Len(a) + Len(b)
          /\ ~ (Len(a) + j <= Len(a)) /\ Len(a) + j - Len(a) = j
      BY <1>0
    <2> QED
      BY <1>1, <2>1
  <1> QED
    BY <1>1, <1>2, <1>3, <1>4 DEF Concatenates

\* The element after the first k is removed, and no other.
LEMMA RemoveAfter ==
  ASSUME NEW S, NEW s \in Seq(S), NEW k \in Nat, NEW m \in Nat, Len(s) = k + 1 + m
  PROVE  /\ RemoveAt(s, k + 1) \in Seq(S)
         /\ \A x \in ToSet(s) : x = s[k + 1] \/ x \in ToSet(RemoveAt(s, k + 1))
         /\ k = 0 => RemoveAt(s, k + 1) = Tail(s)
  <1>1. DOMAIN s = 1 .. k + 1 + m /\ \A j \in 1 .. k + 1 + m : s[j] \in S
    BY LenProperties, ElementOfSeq
  <1> PICK a \in Seq(S) : a = SubSeq(s, 1, k) /\ Len(a) = k /\ \A j \in 1 .. k : a[j] = s[j]
    <2>1. /\ 1 \in Int /\ k \in Int
          /\ \A j \in 1 .. k : s[j] \in S
          /\ k - 1 + 1 = k
          /\ \A j \in 1 .. k : 1 + j - 1 = j
          /\ (IF 1 <= k THEN k ELSE 0) = k
      BY <1>1
    <2>2. /\ SubSeq(s, 1, k) \in Seq(S) /\ Len(SubSeq(s, 1, k)) = k
          /\ \A j \in 1 .. k : SubSeq(s, 1, k)[j] = s[j]
      BY <2>1, SubSeqProperties
    <2> QED
      BY <2>2
  <1> PICK b \in Seq(S) : /\ b = SubSeq(s, k + 2, k + 1 + m) /\ Len(b) = m
                          /\ \A j \in 1 .. m : b[j] = s[k + 1 + j]
    <2>1. /\ k + 2 \in Int /\ k + 1 + m \in Int
          /\ \A j \in k + 2 .. k + 1 + m : s[j] \in S
          /\ k + 1 + m - (k + 2) + 1 = m
          /\ \A j \in 1 .. m : k + 2 + j - 1 = k + 1 + j
          /\ (IF k + 2 <= k + 1 + m THEN m ELSE 0) = m
      BY <1>1
    <2>2. /\ SubSeq(s, k + 2, k + 1 + m) \in Seq(S) /\ Len(SubSeq(s, k + 2, k + 1 + m)) = m
          /\ \A j \in 1 .. m : SubSeq(s, k + 2, k + 1 + m)[j] = s[k + 1 + j]
      BY <2>1, SubSeqProperties
    <2> QED
      BY <2>2
  <1>2. RemoveAt(s, k + 1) = a \o b
    <2>1. k + 1 - 1 = k /\ k + 1 + 1 = k + 2
      OBVIOUS
    <2> QED
      BY <2>1 DEF RemoveAt
  <1>3. PICK u \in Seq(S) :
          /\ u = a \o b /\ Len(u) = k + m /\ DOMAIN u = 1 .. k + m
          /\ \A j \in 1 .. k : u[j] = a[j]
          /\ \A j \in 1 .. m : u[k + j] = b[j]
    <2>1. PICK u \in Seq(S) : /\ u = a \o b /\ Len(u) = Len(a) + Len(b)
                              /\ DOMAIN u = 1 .. Len(a) + Len(b)
                              /\ \A j \in 1 .. Len(a) : u[j] = a[j]
                              /\ \A j \in 1 .. Len(b) : u[Len(a) + j] = b[j]
      <3>1. Concatenates(S, a, b)
        BY ConcatAt
      <3> QED
        BY <3>1 DEF Concatenates
    <2>2. /\ Len(u) = k + m /\ DOMAIN u = 1 .. k + m
          /\ \A j \in 1 .. k : u[j] = a[j]
      BY <2>1
    <2>3. \A j \in 1 .. m : u[k + j] = b[j]
      BY <2>1
    <2> QED
      BY <2>1, <2>2, <2>3
  <1>4. ASSUME NEW j \in DOMAIN s, j # k + 1
        PROVE  s[j] \in ToSet(u)
    <2>1. CASE j <= k
      <3>1. j \in 1 .. k /\ j \in 1 .. k + m
        BY <1>1, <2>1
      <3>2. u[j] = s[j] /\ j \in DOMAIN u
        BY <1>3, <3>1
      <3> QED
        BY <3>2 DEF ToSet
    <2>2. CASE ~ (j <= k)
      <3>1. PICK f \in 1 .. m : k + 1 + f = j
        <4>1. j - (k + 1) \in 1 .. m /\ k + 1 + (j - (k + 1)) = j
          BY <1>1, <1>4, <2>2
        <4> QED
          BY <4>1
      <3>2. u[k + f] = s[j] /\ k + f \in DOMAIN u
        BY <1>3, <3>1
      <3> QED
        BY <3>2 DEF ToSet
    <2> QED
      BY <2>1, <2>2
  <1>5. \A x \in ToSet(s) : x = s[k + 1] \/ x \in ToSet(u)
    <2> SUFFICES ASSUME NEW j \in DOMAIN s
                 PROVE  s[j] = s[k + 1] \/ s[j] \in ToSet(u)
      BY DEF ToSet
    <2> QED
      BY <1>4
  <1>6. ASSUME k = 0
        PROVE  u = Tail(s)
    <2>1. s # << >>
      BY <1>1, EmptySeq
    <2>2. /\ Tail(s) \in Seq(S) /\ Len(Tail(s)) = m
          /\ \A j \in 1 .. m : Tail(s)[j] = s[j + 1]
      <3>1. Len(s) - 1 = m
        BY <1>6
      <3> QED
        BY <2>1, <3>1, HeadTailProperties
    <2>3. Len(u) = m
      BY <1>3, <1>6
    <2>4. ASSUME NEW j \in 1 .. m
          PROVE  u[j] = Tail(s)[j]
      <3>1. k + j = j /\ k + 1 + j = j + 1
        BY <1>6
      <3>2. u[k + j] = s[k + 1 + j]
        BY <1>3
      <3> QED
        BY <2>2, <3>1, <3>2
    <2> QED
      BY <2>2, <2>3, <2>4, SeqEqual
  <1> QED
    BY <1>2, <1>3, <1>5, <1>6

\* The same for an index.
LEMMA RemoveAtFacts ==
  ASSUME NEW S, NEW s \in Seq(S), NEW i \in 1 .. Len(s)
  PROVE  /\ RemoveAt(s, i) \in Seq(S)
         /\ \A x \in ToSet(s) : x = s[i] \/ x \in ToSet(RemoveAt(s, i))
         /\ i = 1 => RemoveAt(s, i) = Tail(s)
  <1>1. Len(s) \in Nat
    BY LenProperties
  <1>2. /\ i - 1 \in Nat /\ Len(s) - i \in Nat
        /\ Len(s) = (i - 1) + 1 + (Len(s) - i) /\ i - 1 + 1 = i
    BY <1>1
  <1>3. PICK k \in Nat, m \in Nat : k + 1 = i /\ Len(s) = k + 1 + m
    BY <1>2
  <1>4. /\ RemoveAt(s, k + 1) \in Seq(S)
        /\ \A x \in ToSet(s) : x = s[k + 1] \/ x \in ToSet(RemoveAt(s, k + 1))
        /\ k = 0 => RemoveAt(s, k + 1) = Tail(s)
    BY <1>3, RemoveAfter
  <1> QED
    BY <1>3, <1>4

-----------------------------------------------------------------------------
(***************************************************************************)
(* Types.                                                                  *)
(***************************************************************************)

Dispatchers ==
  [at : {"none", "pop", "asleep", "read", "got"}, func : Req \cup {NoReq},
   token : Req \cup {NoReq}, conn : Conn \cup {NoConn}, answer : Req \cup {NoReq}]

LEMMA TypeInit == Init => TypeOK
  <1> SUFFICES ASSUME Init PROVE TypeOK
    OBVIOUS
  <1>1. 1 \in 1 .. MaxConn + 1 /\ 0 \in 0 .. MaxClose
    BY ChannelAssumption
  <1>2. \A S : << >> \in Seq(S)
    BY EmptySeq
  <1> QED
    BY <1>1, <1>2 DEF Init, TypeOK, NoDispatcher, NoOutcome, NoReq, NoConn, Req, Conn, PC

\* What a task is about and what it was told.
LEMMA GoesType ==
  ASSUME TypeOK, NEW r \in Req, NEW from, NEW to \in PC, Goes(r, from, to)
  PROVE  pc' \in [Req -> PC] /\ outcome' = outcome
  BY DEF TypeOK, Goes

LEMMA CloseSocketType ==
  ASSUME TypeOK, CloseSocket
  PROVE  /\ socket' \in Conn \cup {NoConn}
         /\ conn' \in [Conn -> {"none", "opening", "up", "broken", "down"}]
         /\ buffer' \in [Conn -> Seq(Req)]
  <1>1. << >> \in Seq(Req)
    BY EmptySeq
  <1> QED
    BY <1>1 DEF TypeOK, CloseSocket, NoConn

LEMMA PushType ==
  ASSUME TypeOK, NEW func \in Req \cup {NoReq}, NEW token \in Req \cup {NoReq},
         Push(func, token)
  PROVE  /\ request' \in Seq(Req \cup {NoReq}) /\ thread' \in Seq(Req \cup {NoReq})
         /\ wait_response' \in BOOLEAN
         /\ dispatcher' \in Dispatchers
         /\ wait_response' <=> dispatcher'.at = "asleep"
  <1>1. \A s \in Seq(Req \cup {NoReq}), x \in Req \cup {NoReq} :
          Append(s, x) \in Seq(Req \cup {NoReq})
    BY AppendProperties
  <1>2. CASE by_session
    BY <1>1, <1>2 DEF TypeOK, Push, Dispatchers
  <1>3. CASE ~by_session /\ wait_response
    <2>1. dispatcher' = Popping /\ wait_response' = FALSE
      BY <1>3 DEF Push
    <2>2. Popping.at = "pop" /\ Popping \in Dispatchers
      BY DEF Popping, NoDispatcher, NoConn, Dispatchers
    <2> QED
      BY <1>1, <1>3, <2>1, <2>2, ZenonT(40) DEF TypeOK, Push
  <1>4. CASE ~by_session /\ ~wait_response
    <2>1. dispatcher' = dispatcher /\ wait_response' = FALSE
      BY <1>4 DEF Push
    <2> QED
      BY <1>1, <1>4, <2>1, ZenonT(40) DEF TypeOK, Push, Dispatchers
  <1> QED
    BY <1>2, <1>3, <1>4

LEMMA FailType ==
  ASSUME TypeOK, NEW S, Fail(S)
  PROVE  /\ pc' \in [Req -> PC]
         /\ outcome' \in [Req -> [is : {"none", "ok", "error"}, answer : Req \cup {NoReq}]]
  BY DEF TypeOK, Fail, PC

LEMMA ClearedType ==
  ASSUME TypeOK, Cleared
  PROVE  /\ request' \in Seq(Req \cup {NoReq}) /\ thread' \in Seq(Req \cup {NoReq})
         /\ asserted' \in BOOLEAN /\ wait_response' = wait_response /\ left' = left
  <1>1. \A S : << >> \in Seq(S)
    BY EmptySeq
  <1> QED
    BY <1>1 DEF TypeOK, Cleared
\* Calls and the messages of the core.
LEMMA TypeEnters ==
  ASSUME TypeOK, NEW r \in Req, Enters(r) \/ Messages(r)
  PROVE  TypeOK'
  <1>1. CASE Enter(r)
    <2>1. closed' \in BOOLEAN
      BY <1>1 DEF TypeOK, Enter
    <2>2. pc' \in [Req -> PC] /\ outcome' = outcome
      BY <1>1, GoesType DEF Enter, PC
    <2> QED
      BY <1>1, <2>1, <2>2 DEF TypeOK, Enter, pairVars, connVars, otherVars
  <1>2. CASE Queue(r)
    <2>1. closed' \in BOOLEAN /\ connecting' \in Seq(Req)
      BY <1>2, AppendProperties DEF TypeOK, Queue
    <2>2. pc' \in [Req -> PC] /\ outcome' = outcome
      BY <1>2, GoesType DEF Queue, PC
    <2>3. CloseSocket
      BY <1>2 DEF Queue
    <2> QED
      BY <1>2, <2>1, <2>2, <2>3, CloseSocketType, SMTT(30) DEF TypeOK, Queue, pairVars, otherVars
  <1>3. CASE Open(r)
    <2>1. closed' \in BOOLEAN /\ connecting' \in Seq(Req)
      BY <1>3, EmptySeq DEF TypeOK, Open
    <2>2. pc' \in [Req -> PC] /\ outcome' = outcome
      BY <1>3, GoesType DEF Open, PC
    <2>3. CloseSocket
      BY <1>3 DEF Open
    <2>4. nextConn' \in 1 .. MaxConn + 1
      BY <1>3, ChannelAssumption DEF Open, Conn
    <2> QED
      BY <1>3, <2>1, <2>2, <2>3, <2>4, CloseSocketType DEF TypeOK, Open, pairVars, otherVars
  <1>4. CASE ConnectArrives(r)
    <2>1. pc' \in [Req -> PC] /\ outcome' = outcome
      BY <1>4, GoesType DEF ConnectArrives, PC
    <2>2. conn' \in [Conn -> {"none", "opening", "up", "broken", "down"}]
      BY <1>4 DEF TypeOK, ConnectArrives
    <2> QED
      BY <1>4, <2>1, <2>2 DEF TypeOK, ConnectArrives, pairVars, otherVars
  <1>5. CASE ErrorArrives(r)
    <2>1. pc' \in [Req -> PC] /\ outcome' = outcome
      BY <1>5, GoesType DEF ErrorArrives, PC
    <2> QED
      BY <1>5, <2>1 DEF TypeOK, ErrorArrives, pairVars, connVars, otherVars
  <1>6. CASE TimerArrives(r)
    <2>1. pc' \in [Req -> PC] /\ outcome' = outcome
      BY <1>6, GoesType DEF TimerArrives, PC
    <2> QED
      BY <1>6, <2>1 DEF TypeOK, TimerArrives, pairVars, connVars, otherVars
  <1> QED
    BY <1>1, <1>2, <1>3, <1>4, <1>5, <1>6 DEF Enters, Messages

\* A connection is taken into use.
LEMMA AttachType ==
  ASSUME TypeOK, Opening \in Conn, NEW r \in Req, Attach(r)
  PROVE  /\ socket' \in Conn /\ connector' = NoReq /\ connecting' \in Seq(Req)
         /\ dispatcher' \in Dispatchers /\ dispatcher'.at \in {"pop", "read"}
         /\ pc' \in [Req -> PC] /\ outcome' = outcome
  <1>1. connecting' \in Seq(Req) /\ connector' = NoReq /\ socket' = Opening
    BY EmptySeq DEF Attach, Join
  <1>2. pc' \in [Req -> PC] /\ outcome' = outcome
    BY DEF TypeOK, Attach, Join, PC
  <1>3. CASE by_session
    <2>1. dispatcher' = [NoDispatcher EXCEPT !.at = "read", !.conn = Opening]
      BY <1>3 DEF Attach
    <2> QED
      BY <1>1, <1>2, <2>1 DEF NoDispatcher, Dispatchers
  <1>4. CASE ~by_session
    <2>1. dispatcher' = Popping
      BY <1>4 DEF Attach
    <2> QED
      BY <1>1, <1>2, <2>1 DEF Popping, NoDispatcher, Dispatchers, NoConn
  <1> QED
    BY <1>3, <1>4

LEMMA TermType ==
  ASSUME TypeOK, TermDispatchThread
  PROVE  /\ request' \in Seq(Req \cup {NoReq}) /\ thread' \in Seq(Req \cup {NoReq})
         /\ wait_response' \in BOOLEAN
         /\ dispatcher' \in Dispatchers
         /\ wait_response' <=> dispatcher'.at = "asleep"
  <1>1. CASE ~by_session /\ dispatch_thread
    <2>1. Push(NoReq, NoReq)
      BY <1>1 DEF TermDispatchThread
    <2> QED
      BY <2>1, PushType
  <1>2. CASE ~(~by_session /\ dispatch_thread)
    <2>1. UNCHANGED <<request, thread, wait_response, dispatcher>>
      BY <1>2 DEF TermDispatchThread, pairVars
    <2> QED
      BY <2>1 DEF TypeOK, Dispatchers
  <1> QED
    BY <1>1, <1>2

\* Tasks that go on.
LEMMA TypeContinues ==
  ASSUME TypeOK, Connecting, NEW r \in Req, Continues(r)
  PROVE  TypeOK'
  <1>0. pc[r] \in {"opened", "awake"} => Opening \in Conn
    BY DEF Connecting, Req, NoReq
  <1>1. CASE Opens(r)
    <2>1. CASE ~dispatch_thread
      <3>1. Attach(r) /\ Opening \in Conn
        BY <1>0, <1>1, <2>1 DEF Opens
      <3> QED
        BY <1>1, <2>1, <3>1, AttachType DEF TypeOK, Opens, dispatch_thread, Dispatchers, pairVars,
                                            connVars, otherVars
    <2>2. CASE dispatch_thread
      <3>1. TermDispatchThread /\ UNCHANGED <<socket, connecting, connector>>
        BY <1>1, <2>2 DEF Opens
      <3>2. pc' \in [Req -> PC] /\ outcome' = outcome
        BY <1>1, <2>2, GoesType DEF Opens, PC
      <3> QED
        BY <1>1, <3>1, <3>2, TermType DEF TypeOK, Opens, Dispatchers, connVars, otherVars
    <2> QED
      BY <2>1, <2>2
  <1>2. CASE OpenFails(r)
    <2>1. /\ connecting' \in Seq(Req) /\ connector' = NoReq
          /\ pc' \in [Req -> PC] /\ outcome' = outcome
      BY <1>2, EmptySeq DEF TypeOK, OpenFails, Join, PC
    <2> QED
      BY <1>2, <2>1 DEF TypeOK, OpenFails, pairVars, connVars, otherVars
  <1>3. CASE Drains(r)
    <2>1. CASE ~dispatch_thread
      <3>1. Attach(r) /\ Opening \in Conn
        BY <1>0, <1>3, <2>1 DEF Drains
      <3> QED
        BY <1>3, <2>1, <3>1, AttachType DEF TypeOK, Drains, dispatch_thread, Dispatchers, pairVars,
                                            connVars, otherVars
    <2>2. CASE dispatch_thread
      <3>1. UNCHANGED <<socket, connecting, connector, dispatcher>>
        BY <1>3, <2>2 DEF Drains
      <3>2. pc' \in [Req -> PC] /\ outcome' = outcome
        BY <1>3, <2>2, GoesType DEF Drains, PC
      <3> QED
        BY <1>3, <3>1, <3>2 DEF TypeOK, Drains, pairVars, connVars, otherVars
    <2> QED
      BY <2>1, <2>2
  <1>4. CASE Rejoin(r)
    <2>1. \/ Goes(r, "rejoin", "ready") /\ UNCHANGED <<socket, conn, buffer>>
          \/ Told(r, "error") /\ CloseSocket
      BY <1>4 DEF Rejoin
    <2>2. /\ pc' \in [Req -> PC]
          /\ outcome' \in [Req -> [is : {"none", "ok", "error"}, answer : Req \cup {NoReq}]]
      <3>1. [is |-> "error", answer |-> NoReq]
              \in [is : {"none", "ok", "error"}, answer : Req \cup {NoReq}]
        OBVIOUS
      <3>2. CASE Goes(r, "rejoin", "ready")
        BY <3>2, GoesType DEF TypeOK, PC
      <3>3. CASE Told(r, "error")
        BY <3>1, <3>3 DEF TypeOK, Told, PC
      <3> QED
        BY <2>1, <3>2, <3>3
    <2>3. /\ socket' \in Conn \cup {NoConn}
          /\ conn' \in [Conn -> {"none", "opening", "up", "broken", "down"}]
          /\ buffer' \in [Conn -> Seq(Req)]
      BY <2>1, CloseSocketType DEF TypeOK
    <2> QED
      BY <1>4, <2>2, <2>3 DEF TypeOK, Rejoin, pairVars, otherVars
  <1>5. CASE Write(r)
    <2>1. pc' \in [Req -> PC] /\ outcome' = outcome
      BY <1>5, GoesType DEF Write, PC
    <2>2. wire' \in [Conn -> Seq(Req)]
      BY <1>5, AppendProperties DEF TypeOK, Write, NoConn
    <2>3. Push(r, r)
      BY <1>5 DEF Write
    <2> QED
      BY <1>5, <2>1, <2>2, <2>3, PushType DEF TypeOK, Write, Dispatchers, otherVars
  <1>6. CASE WriteFails(r)
    <2>1. /\ pc' \in [Req -> PC]
          /\ outcome' \in [Req -> [is : {"none", "ok", "error"}, answer : Req \cup {NoReq}]]
      BY <1>6 DEF TypeOK, WriteFails, PC
    <2>2. CloseSocket /\ Cleared
      BY <1>6 DEF WriteFails
    <2>3. /\ socket' \in Conn \cup {NoConn}
          /\ conn' \in [Conn -> {"none", "opening", "up", "broken", "down"}]
          /\ buffer' \in [Conn -> Seq(Req)]
      BY <2>2, CloseSocketType
    <2>4. /\ request' \in Seq(Req \cup {NoReq}) /\ thread' \in Seq(Req \cup {NoReq})
          /\ asserted' \in BOOLEAN /\ wait_response' = wait_response /\ left' = left
      BY <2>2, ClearedType
    <2> QED
      BY <1>6, <2>1, <2>3, <2>4 DEF TypeOK, WriteFails, otherVars
  <1>7. CASE ConnectReturns(r)
    <2>1. pc' \in [Req -> PC] /\ outcome' = outcome
      BY <1>7, GoesType DEF ConnectReturns, PC
    <2> QED
      BY <1>7, <2>1 DEF TypeOK, ConnectReturns, pairVars, connVars, otherVars
  <1>8. CASE Resume(r)
    <2>1. pc' \in [Req -> PC] /\ outcome' = outcome
      BY <1>8, GoesType DEF Resume, PC
    <2> QED
      BY <1>8, <2>1 DEF TypeOK, Resume, pairVars, connVars, otherVars
  <1> QED
    BY <1>1, <1>2, <1>3, <1>4, <1>5, <1>6, <1>7, <1>8 DEF Continues

\* A dispatcher that reads, or waits for a request, or has ended.
LEMMA DispatcherType ==
  ASSUME TypeOK, NEW at \in {"none", "pop", "asleep", "read", "got"},
         NEW func \in Req \cup {NoReq}, NEW token \in Req \cup {NoReq},
         NEW n \in Conn \cup {NoConn}, NEW a \in Req \cup {NoReq}
  PROVE  [at |-> at, func |-> func, token |-> token, conn |-> n, answer |-> a] \in Dispatchers
  BY DEF Dispatchers

LEMMA LoopsType ==
  ASSUME TypeOK, NEW queue, Loops(queue)
  PROVE  /\ dispatcher' \in Dispatchers /\ dispatcher'.at \in {"none", "pop", "read"}
         /\ left' \in BOOLEAN
  <1>1. /\ NoDispatcher \in Dispatchers /\ NoDispatcher.at = "none"
        /\ Popping \in Dispatchers /\ Popping.at = "pop"
    BY DEF NoDispatcher, Popping, Dispatchers, NoConn
  <1>2. PICK d : d = [NoDispatcher EXCEPT !.at = "read", !.conn = socket]
    OBVIOUS
  <1>3. d \in Dispatchers /\ d.at = "read"
    BY <1>2 DEF TypeOK, NoDispatcher, Dispatchers
  <1>4. dispatcher' \in {NoDispatcher, d, Popping}
    BY <1>2 DEF Loops
  <1>5. left' \in BOOLEAN
    BY DEF TypeOK, Loops
  <1> QED
    BY <1>1, <1>3, <1>4, <1>5

LEMMA AnswerType ==
  ASSUME TypeOK, NEW r \in Req \cup {NoReq}, NEW a \in Req \cup {NoReq}, Answer(r, a)
  PROVE  /\ pc' \in [Req -> PC]
         /\ outcome' \in [Req -> [is : {"none", "ok", "error"}, answer : Req \cup {NoReq}]]
  <1>1. [is |-> "ok", answer |-> a] \in [is : {"none", "ok", "error"}, answer : Req \cup {NoReq}]
    OBVIOUS
  <1> QED
    BY <1>1 DEF TypeOK, Answer, PC

LEMMA TypeDispatches ==
  ASSUME TypeOK, Dispatches
  PROVE  TypeOK'
  <1>0. /\ NoDispatcher \in Dispatchers /\ NoDispatcher.at = "none"
        /\ \A s \in Seq(Req \cup {NoReq}) : s # << >> =>
             Head(s) \in Req \cup {NoReq} /\ Tail(s) \in Seq(Req \cup {NoReq})
        /\ \A S : << >> \in Seq(S)
    BY FirstOf, EmptySeq DEF NoDispatcher, Dispatchers, NoConn
  <1>1. CASE Pop
    <2>1. /\ dispatcher' = [at |-> "read", func |-> Head(request), token |-> Head(thread),
                            conn |-> socket, answer |-> NoReq]
          /\ request' = Tail(request) /\ thread' = Tail(thread)
          /\ request # << >> /\ thread # << >> /\ dispatcher.at = "pop"
      BY <1>1 DEF Pop, NoDispatcher
    <2>2. /\ request' \in Seq(Req \cup {NoReq}) /\ thread' \in Seq(Req \cup {NoReq})
          /\ Head(request) \in Req \cup {NoReq} /\ Head(thread) \in Req \cup {NoReq}
      BY <1>0, <2>1 DEF TypeOK
    <2>3. dispatcher' \in Dispatchers /\ dispatcher'.at = "read"
      BY <2>1, <2>2 DEF TypeOK, Dispatchers
    <2> QED
      BY <1>1, <2>1, <2>2, <2>3 DEF TypeOK, Pop, Dispatchers, connVars, otherVars
  <1>2. CASE PopTerm
    <2>1. PICK rest : rest = Tail(thread)
      OBVIOUS
    <2>2. /\ Fail(Reached(rest)) /\ thread # << >>
          /\ request' = << >> /\ thread' \in {<< >>, rest} /\ asserted' \in BOOLEAN
      BY <1>2, <2>1 DEF TypeOK, PopTerm
    <2>3. request' \in Seq(Req \cup {NoReq}) /\ thread' \in Seq(Req \cup {NoReq})
      BY <1>0, <2>1, <2>2 DEF TypeOK
    <2> QED
      BY <1>0, <1>2, <2>2, <2>3, FailType DEF TypeOK, PopTerm, Dispatchers, connVars, otherVars
  <1>3. CASE PopWaits
    <2>1. dispatcher' \in Dispatchers /\ dispatcher'.at = "asleep"
      BY <1>3 DEF TypeOK, PopWaits, Dispatchers
    <2> QED
      BY <1>3, <2>1 DEF TypeOK, PopWaits, Dispatchers, connVars, otherVars
  <1>4. CASE Reads
    <2>1. PICK n \in Conn : n = dispatcher.conn /\ buffer[n] # << >>
      BY <1>4 DEF TypeOK, Reads, Readable
    <2>2. Head(buffer[n]) \in Req /\ Tail(buffer[n]) \in Seq(Req)
      BY <2>1, FirstOf DEF TypeOK
    <2>3. dispatcher' \in Dispatchers /\ dispatcher'.at = "got"
      BY <1>4, <2>1, <2>2 DEF TypeOK, Reads, Dispatchers
    <2>4. buffer' \in [Conn -> Seq(Req)]
      BY <1>4, <2>1, <2>2 DEF TypeOK, Reads
    <2> QED
      BY <1>4, <2>3, <2>4 DEF TypeOK, Reads, Dispatchers, pairVars, otherVars
  <1>5. CASE AnswerByOrder
    <2>1. Loops(thread) /\ Answer(dispatcher.token, dispatcher.answer) /\ dispatcher.at = "got"
      BY <1>5 DEF AnswerByOrder
    <2>2. dispatcher.token \in Req \cup {NoReq} /\ dispatcher.answer \in Req \cup {NoReq}
      BY DEF TypeOK
    <2>3. /\ pc' \in [Req -> PC]
          /\ outcome' \in [Req -> [is : {"none", "ok", "error"}, answer : Req \cup {NoReq}]]
      BY <2>1, <2>2, AnswerType
    <2>4. /\ dispatcher' \in Dispatchers /\ dispatcher'.at \in {"none", "pop", "read"}
          /\ left' \in BOOLEAN
      BY <2>1, LoopsType
    <2> QED
      BY <1>5, <2>1, <2>3, <2>4 DEF TypeOK, AnswerByOrder, Dispatchers, pairVars, connVars, otherVars
  <1>6. CASE AnswerUnawaited
    <2>1. CloseSocket /\ dispatcher' = NoDispatcher /\ asserted' = TRUE /\ dispatcher.at = "got"
      BY <1>6 DEF AnswerUnawaited
    <2>2. /\ socket' \in Conn \cup {NoConn}
          /\ conn' \in [Conn -> {"none", "opening", "up", "broken", "down"}]
          /\ buffer' \in [Conn -> Seq(Req)]
      BY <2>1, CloseSocketType
    <2> QED
      BY <1>0, <1>6, <2>1, <2>2 DEF TypeOK, AnswerUnawaited, Dispatchers, pairVars, otherVars
  <1>7. CASE AnswerBySession
    <2>1. PICK a \in Req \cup {NoReq} : a = dispatcher.answer
      BY DEF TypeOK
    <2>2. /\ Loops(thread') /\ dispatcher.at = "got"
          /\ \/ /\ \E i \in DOMAIN thread : thread[i] = a /\ thread' = RemoveAt(thread, i)
                /\ Answer(a, a)
             \/ a \notin ToSet(thread) /\ UNCHANGED <<thread, pc, outcome>>
      BY <1>7, <2>1 DEF AnswerBySession
    <2>3. /\ pc' \in [Req -> PC]
          /\ outcome' \in [Req -> [is : {"none", "ok", "error"}, answer : Req \cup {NoReq}]]
      BY <2>2, AnswerType DEF TypeOK
    <2>4. thread' \in Seq(Req \cup {NoReq})
      <3>1. thread \in Seq(Req \cup {NoReq}) /\ DOMAIN thread = 1 .. Len(thread)
        BY LenProperties DEF TypeOK
      <3>2. \A i \in 1 .. Len(thread) : RemoveAt(thread, i) \in Seq(Req \cup {NoReq})
        BY <3>1, RemoveAtFacts
      <3> QED
        BY <2>2, <3>1, <3>2
    <2>5. /\ dispatcher' \in Dispatchers /\ dispatcher'.at \in {"none", "pop", "read"}
          /\ left' \in BOOLEAN
      BY <2>2, LoopsType
    <2> QED
      BY <1>7, <2>2, <2>3, <2>4, <2>5 DEF TypeOK, AnswerBySession, Dispatchers, connVars, otherVars
  <1>8. CASE ReadFails
    <2>1. CloseSocket /\ dispatcher' = NoDispatcher /\ dispatcher.at = "read"
      BY <1>8 DEF ReadFails
    <2>2. /\ socket' \in Conn \cup {NoConn}
          /\ conn' \in [Conn -> {"none", "opening", "up", "broken", "down"}]
          /\ buffer' \in [Conn -> Seq(Req)]
      BY <2>1, CloseSocketType
    <2>3. /\ pc' \in [Req -> PC]
          /\ outcome' \in [Req -> [is : {"none", "ok", "error"}, answer : Req \cup {NoReq}]]
      BY <1>8, FailType DEF TypeOK, ReadFails
    <2>4. /\ request' \in Seq(Req \cup {NoReq}) /\ thread' \in Seq(Req \cup {NoReq})
          /\ asserted' \in BOOLEAN /\ wait_response' = wait_response /\ left' = left
      BY <1>8, ClearedType DEF TypeOK, ReadFails, pairVars
    <2> QED
      BY <1>0, <1>8, <2>1, <2>2, <2>3, <2>4 DEF TypeOK, ReadFails, Dispatchers, otherVars
  <1> QED
    BY <1>1, <1>2, <1>3, <1>4, <1>5, <1>6, <1>7, <1>8 DEF Dispatches

LEMMA TypeCloses ==
  ASSUME TypeOK, Close \/ ChangeHost
  PROVE  TypeOK'
  <1>1. CloseSocket /\ closed' \in BOOLEAN /\ closes' \in 0 .. MaxClose
    <2>1. CloseSocket /\ closed' \in BOOLEAN
      BY DEF TypeOK, Close, ChangeHost
    <2>2. closes \in 0 .. MaxClose /\ closes < MaxClose /\ closes' = closes + 1 /\ MaxClose \in Nat
      BY ChannelAssumption DEF TypeOK, Close, ChangeHost
    <2> QED
      BY <2>1, <2>2
  <1>2. /\ socket' \in Conn \cup {NoConn}
        /\ conn' \in [Conn -> {"none", "opening", "up", "broken", "down"}]
        /\ buffer' \in [Conn -> Seq(Req)]
    BY <1>1, CloseSocketType
  <1>3. CASE Close
    <2>1. TermDispatchThread
      BY <1>3 DEF Close
    <2>2. /\ request' \in Seq(Req \cup {NoReq}) /\ thread' \in Seq(Req \cup {NoReq})
          /\ wait_response' \in BOOLEAN
          /\ dispatcher' \in Dispatchers
          /\ wait_response' <=> dispatcher'.at = "asleep"
      BY <2>1, TermType
    <2> QED
      BY <1>1, <1>2, <1>3, <2>2 DEF TypeOK, Close, Dispatchers
  <1>4. CASE ChangeHost
    BY <1>1, <1>2, <1>4 DEF TypeOK, ChangeHost, pairVars
  <1> QED
    BY <1>3, <1>4

\* The peer, the core and the turns.
LEMMA TypeElse ==
  ASSUME TypeOK,
         \/ \E n \in Conn : Serve(n) \/ Breaks(n) \/ DataArrives(n) \/ CloseArrives(n)
         \/ TurnSettles \/ TurnEnds
  PROVE  TypeOK'
  <1>1. ASSUME NEW n \in Conn, Serve(n)
        PROVE  TypeOK'
    <2>1. PICK i \in DOMAIN wire[n] : /\ answers' = [answers EXCEPT ![n] = Append(@, wire[n][i])]
                                      /\ wire' = [wire EXCEPT ![n] = RemoveAt(@, i)]
      BY <1>1 DEF Serve
    <2>2. /\ wire[n] \in Seq(Req) /\ DOMAIN wire[n] = 1 .. Len(wire[n])
          /\ wire[n][i] \in Req
      BY LenProperties, ElementOfSeq DEF TypeOK
    <2>3. RemoveAt(wire[n], i) \in Seq(Req)
      BY <2>1, <2>2, RemoveAtFacts
    <2>4. Append(answers[n], wire[n][i]) \in Seq(Req)
      BY <2>2, AppendProperties DEF TypeOK
    <2>5. answers' \in [Conn -> Seq(Req)] /\ wire' \in [Conn -> Seq(Req)]
      BY <2>1, <2>3, <2>4 DEF TypeOK
    <2> QED
      BY <1>1, <2>5, SMTT(30) DEF TypeOK, Serve, pairVars, otherVars
  <1>2. ASSUME NEW n \in Conn, Breaks(n) \/ CloseArrives(n)
        PROVE  TypeOK'
    <2>1. conn' \in [Conn -> {"none", "opening", "up", "broken", "down"}]
      BY <1>2 DEF TypeOK, Breaks, CloseArrives, ConnGoes
    <2> QED
      BY <1>2, <2>1, SMTT(30) DEF TypeOK, Breaks, CloseArrives, ConnGoes, pairVars, otherVars
  <1>3. ASSUME NEW n \in Conn, DataArrives(n)
        PROVE  TypeOK'
    <2>1. answers[n] \in Seq(Req) /\ answers[n] # << >> /\ buffer[n] \in Seq(Req)
      BY <1>3 DEF TypeOK, DataArrives
    <2>2. Head(answers[n]) \in Req /\ Tail(answers[n]) \in Seq(Req)
      BY <2>1, FirstOf
    <2>3. Append(buffer[n], Head(answers[n])) \in Seq(Req)
      BY <2>1, <2>2, AppendProperties
    <2>4. answers' \in [Conn -> Seq(Req)] /\ buffer' \in [Conn -> Seq(Req)]
      BY <1>3, <2>2, <2>3 DEF TypeOK, DataArrives
    <2> QED
      BY <1>3, <2>4 DEF TypeOK, DataArrives, pairVars, otherVars
  <1>4. CASE TurnSettles
    BY <1>4 DEF TypeOK, TurnSettles, pairVars, connVars
  <1>5. CASE TurnEnds
    <2>1. pc' \in [Req -> PC]
      BY <1>5 DEF TypeOK, TurnEnds, PC
    <2> QED
      BY <1>5, <2>1 DEF TypeOK, TurnEnds, pairVars, connVars
  <1> QED
    BY <1>1, <1>2, <1>3, <1>4, <1>5

LEMMA TypeNext ==
  ASSUME TypeOK, Connecting, Next
  PROVE  TypeOK'
  BY TypeEnters, TypeContinues, TypeDispatches, TypeCloses, TypeElse DEF Next

-----------------------------------------------------------------------------
(***************************************************************************)
(* Who connects.                                                           *)
(***************************************************************************)

\* Where a task is that connects.
Connects == {"asking", "opening", "opened", "refused", "draining", "awake"}

\* Steps that do not begin or end to connect.
LEMMA ConnectingKept ==
  ASSUME Connecting, UNCHANGED <<connector, nextConn>>, socket' \in {socket, NoConn},
         \A r \in Req : pc'[r] \in Connects => pc[r] \in Connects
  PROVE  Connecting'
  <1>1. Opening' = Opening
    BY DEF Opening
  <1> QED
    BY <1>1 DEF Connecting, Connects

LEMMA ConnectingEnters ==
  ASSUME TypeOK, Connecting, NEW r \in Req, Enters(r) \/ Messages(r)
  PROVE  Connecting'
  <1>1. CASE Enter(r)
    <2>1. \A q \in Req : pc'[q] \in Connects => pc[q] \in Connects
      BY <1>1 DEF TypeOK, Enter, Goes, Connects
    <2> QED
      BY <1>1, <2>1, ConnectingKept DEF Enter, connVars
  <1>2. CASE Queue(r)
    <2>1. \A q \in Req : pc'[q] \in Connects => pc[q] \in Connects
      BY <1>2 DEF TypeOK, Queue, Goes, Connects
    <2> QED
      BY <1>2, <2>1, ConnectingKept DEF Queue, CloseSocket
  <1>3. CASE Open(r)
    <2>1. /\ connector = NoReq /\ connector' = r /\ socket' = NoConn
          /\ nextConn \in Conn /\ nextConn' = nextConn + 1
          /\ pc' = [pc EXCEPT ![r] = "asking"]
      BY <1>3 DEF Open, CloseSocket, Goes
    <2>2. Opening' \in Conn
      <3>1. nextConn' - 1 = nextConn
        BY <2>1 DEF Conn
      <3> QED
        BY <2>1, <3>1 DEF Opening
    <2>3. \A q \in Req : pc[q] \notin Connects
      BY <2>1 DEF Connecting, Connects, Req, NoReq
    <2>4. \A q \in Req : pc'[q] \in Connects => q = r
      BY <2>1, <2>3 DEF TypeOK
    <2> QED
      BY <2>1, <2>2, <2>4 DEF Connecting, Connects
  <1>4. CASE Messages(r)
    <2>1. \A q \in Req : pc'[q] \in Connects => pc[q] \in Connects
      BY <1>4 DEF TypeOK, Messages, ConnectArrives, ErrorArrives, TimerArrives, Goes, Connects
    <2> QED
      BY <1>4, <2>1, ConnectingKept
      DEF Messages, ConnectArrives, ErrorArrives, TimerArrives, connVars
  <1> QED
    BY <1>1, <1>2, <1>3, <1>4 DEF Enters

\* The connection is there, or cannot be made.
LEMMA ConnectingJoins ==
  ASSUME TypeOK, Connecting, NEW r \in Req, pc[r] \in Connects, Join(r)
  PROVE  Connecting'
  <1>1. connector = r
    BY DEF Connecting, Connects
  <1>2. \A q \in Req : pc'[q] \in Connects => FALSE
    BY <1>1 DEF TypeOK, Join, Connecting, Connects
  <1> QED
    BY <1>2 DEF Connecting, Connects, Join

LEMMA ConnectingContinues ==
  ASSUME TypeOK, Connecting, NEW r \in Req, Continues(r)
  PROVE  Connecting'
  <1>1. ASSUME Join(r), pc[r] \in Connects
        PROVE  Connecting'
    BY <1>1, ConnectingJoins
  <1>2. CASE Opens(r) \/ Drains(r)
    <2>1. CASE ~dispatch_thread
      <3>1. Join(r) /\ pc[r] \in Connects
        BY <1>2, <2>1 DEF Opens, Drains, Attach, Connects
      <3> QED
        BY <1>1, <3>1
    <2>2. CASE dispatch_thread
      <3>1. /\ UNCHANGED <<socket, connector, nextConn>>
            /\ Goes(r, "opened", "draining") \/ Goes(r, "awake", "draining")
        BY <1>2, <2>2 DEF Opens, Drains, connVars
      <3>2. \A q \in Req : pc'[q] \in Connects => pc[q] \in Connects
        BY <3>1 DEF TypeOK, Goes, Connects
      <3> QED
        BY <3>1, <3>2, ConnectingKept
    <2> QED
      BY <2>1, <2>2
  <1>3. CASE OpenFails(r)
    BY <1>1, <1>3 DEF OpenFails, Connects
  <1>4. CASE Rejoin(r)
    <2>1. \A q \in Req : pc'[q] \in Connects => pc[q] \in Connects
      BY <1>4 DEF TypeOK, Rejoin, Goes, Told, Connects
    <2> QED
      BY <1>4, <2>1, ConnectingKept DEF Rejoin, CloseSocket
  <1>5. CASE Write(r)
    <2>1. \A q \in Req : pc'[q] \in Connects => pc[q] \in Connects
      BY <1>5 DEF TypeOK, Write, Goes, Connects
    <2> QED
      BY <1>5, <2>1, ConnectingKept DEF Write
  <1>6. CASE WriteFails(r)
    <2>1. \A q \in Req : pc'[q] \in Connects => pc[q] \in Connects
      BY <1>6 DEF TypeOK, WriteFails, Connects
    <2> QED
      BY <1>6, <2>1, ConnectingKept DEF WriteFails, CloseSocket
  <1>7. CASE ConnectReturns(r) \/ Resume(r)
    <2>1. \A q \in Req : pc'[q] \in Connects => pc[q] \in Connects
      BY <1>7 DEF TypeOK, ConnectReturns, Resume, Goes, Connects
    <2> QED
      BY <1>7, <2>1, ConnectingKept DEF ConnectReturns, Resume, connVars
  <1> QED
    BY <1>2, <1>3, <1>4, <1>5, <1>6, <1>7 DEF Continues

LEMMA ConnectingElse ==
  ASSUME TypeOK, Connecting,
         \/ Dispatches \/ Close \/ ChangeHost
         \/ \E n \in Conn : Serve(n) \/ Breaks(n) \/ DataArrives(n) \/ CloseArrives(n)
         \/ TurnSettles \/ TurnEnds
  PROVE  Connecting'
  <1>1. CASE Dispatches
    <2>1. UNCHANGED <<connector, nextConn>> /\ socket' \in {socket, NoConn}
      BY <1>1 DEF Dispatches, Pop, PopTerm, PopWaits, Reads, AnswerByOrder, AnswerUnawaited,
                  AnswerBySession, ReadFails, CloseSocket, connVars
    <2>2. \A q \in Req : pc'[q] \in Connects => pc[q] \in Connects
      <3>1. \A S : Fail(S) => \A q \in Req : pc'[q] \in Connects => pc[q] \in Connects
        BY DEF Fail, Connects
      <3>2. \A t, a : Answer(t, a) => \A q \in Req : pc'[q] \in Connects => pc[q] \in Connects
        BY DEF TypeOK, Answer, Connects
      <3>3. \/ pc' = pc \/ \E S : Fail(S) \/ \E t, a : Answer(t, a)
        BY <1>1 DEF Dispatches, Pop, PopTerm, PopWaits, Reads, AnswerByOrder, AnswerUnawaited,
                    AnswerBySession, ReadFails
      <3> QED
        BY <3>1, <3>2, <3>3
    <2> QED
      BY <2>1, <2>2, ConnectingKept
  <1>2. CASE Close \/ ChangeHost
    BY <1>2, ConnectingKept DEF Close, ChangeHost, CloseSocket
  <1>3. CASE \E n \in Conn : Serve(n) \/ Breaks(n) \/ DataArrives(n) \/ CloseArrives(n)
    BY <1>3, ConnectingKept DEF Serve, Breaks, DataArrives, CloseArrives, ConnGoes
  <1>4. CASE TurnSettles
    BY <1>4, ConnectingKept DEF TurnSettles, connVars
  <1>5. CASE TurnEnds
    <2>1. \A q \in Req : pc'[q] \in Connects => pc[q] \in Connects
      BY <1>5 DEF TypeOK, TurnEnds, Connects
    <2> QED
      BY <1>5, <2>1, ConnectingKept DEF TurnEnds, connVars
  <1> QED
    BY <1>1, <1>2, <1>3, <1>4, <1>5

LEMMA ConnectingNext ==
  ASSUME TypeOK, Connecting, Next
  PROVE  Connecting'
  BY ConnectingEnters, ConnectingContinues, ConnectingElse DEF Next

-----------------------------------------------------------------------------
(***************************************************************************)
(* What is on the connections.                                             *)
(***************************************************************************)

\* Connections in use stay in use; the others hold nothing.
ConnsKept ==
  /\ \A n \in Conn : Used(n) => Used(n)'
  /\ \A n \in Conn : ~Used(n)' => Contents(n)' = << >>
  /\ \A n \in Conn : conn'[n] = "down" => answers'[n] = << >>

\* The next answer from a connection remains that.
HeadsKept ==
  \A n \in Conn : \A t \in Req \cup {NoReq} : Used(n) /\ Comes(n, t) => Comes(n, t)'

\* The connection in use holds what it held.
SameContents == \A n \in Conn : n = socket /\ socket' = socket => Contents(n)' = Contents(n)

PairsKept == by_session \/ (HeadsKept /\ SameContents)

LEMMA ContentsType ==
  ASSUME TypeOK, NEW n \in Conn
  PROVE  /\ Contents(n) \in Seq(Req)
         /\ Contents(n) = << >> <=> buffer[n] = << >> /\ answers[n] = << >> /\ wire[n] = << >>
  <1> PICK a \in Seq(Req), b \in Seq(Req), c \in Seq(Req) :
        a = buffer[n] /\ b = answers[n] /\ c = wire[n]
    BY DEF TypeOK
  <1>1. \A x, y \in Seq(Req) : x \o y \in Seq(Req) /\ (x \o y = << >> <=> x = << >> /\ y = << >>)
    <2> SUFFICES ASSUME NEW x \in Seq(Req), NEW y \in Seq(Req)
                 PROVE  x \o y \in Seq(Req) /\ (x \o y = << >> <=> x = << >> /\ y = << >>)
      OBVIOUS
    <2>1. PICK u \in Seq(Req) : u = x \o y /\ Len(u) = Len(x) + Len(y)
      BY ConcatProperties
    <2>2. /\ Len(x) \in Nat /\ Len(y) \in Nat
          /\ u = << >> <=> Len(u) = 0
          /\ x = << >> <=> Len(x) = 0
          /\ y = << >> <=> Len(y) = 0
      BY LenProperties, EmptySeq
    <2> QED
      BY <2>1, <2>2
  <1> QED
    BY <1>1 DEF Contents

\* What is on its way may move on, and the connection go down.
LEMMA MovingKeeps ==
  ASSUME TypeOK, Connections,
         \A n \in Conn : Used(n) => Used(n)',
         \A n \in Conn : Contents(n)' = Contents(n),
         \A n \in Conn : conn'[n] = "down" => answers'[n] = << >>,
         \A n \in Conn : Used(n) /\ conn[n] = "down" => conn'[n] = "down" /\ buffer'[n] = buffer[n]
  PROVE  ConnsKept /\ PairsKept
  <1>1. \A n \in Conn : ~Used(n)' => Contents(n)' = << >>
    BY DEF Connections
  <1>2. ASSUME NEW n \in Conn, NEW t, Used(n), Comes(n, t)
        PROVE  Comes(n, t)'
    BY <1>2 DEF Comes
  <1> QED
    BY <1>1, <1>2 DEF ConnsKept, PairsKept, HeadsKept, SameContents

\* Nothing moves, but that the connection in use may be closed.
LEMMA ClosingKeeps ==
  ASSUME TypeOK, Connections, UNCHANGED <<wire, answers>>,
         CloseSocket \/ UNCHANGED <<conn, buffer>>,
         \A n \in Conn : Used(n) => Used(n)'
  PROVE  ConnsKept /\ PairsKept
  <1>1. ASSUME NEW n \in Conn
        PROVE  /\ conn'[n] = "down" <=> conn[n] = "down"
               /\ \/ buffer'[n] = buffer[n]
                  \/ n = socket /\ conn[n] = "down" /\ buffer'[n] = << >> /\ socket' = NoConn
    BY DEF TypeOK, CloseSocket
  <1>2. ASSUME NEW n \in Conn, ~(n = socket /\ conn[n] = "down" /\ buffer'[n] = << >>)
        PROVE  Contents(n)' = Contents(n)
    BY <1>1, <1>2 DEF Contents
  <1>3. ASSUME NEW n \in Conn, ~Used(n)'
        PROVE  Contents(n)' = << >>
    <2>1. ~Used(n) /\ n # socket
      BY <1>3 DEF Connections, Conn, NoConn
    <2> QED
      BY <1>2, <2>1 DEF Connections
  <1>4. ASSUME NEW n \in Conn, conn'[n] = "down"
        PROVE  answers'[n] = << >>
    BY <1>1, <1>4 DEF Connections
  <1>5. ASSUME NEW n \in Conn, NEW t, Comes(n, t)
        PROVE  Comes(n, t)'
    <2>1. CASE conn[n] = "down" /\ buffer'[n] = << >>
      BY <1>1, <2>1 DEF Comes
    <2>2. CASE ~(conn[n] = "down" /\ buffer'[n] = << >>)
      <3>1. Contents(n)' = Contents(n) /\ buffer'[n] = buffer[n]
        BY <1>1, <1>2, <2>2
      <3> QED
        BY <1>1, <1>5, <2>2, <3>1 DEF Comes
    <2> QED
      BY <2>1, <2>2
  <1>6. ASSUME NEW n \in Conn, n = socket, socket' = socket
        PROVE  Contents(n)' = Contents(n)
    <2>1. socket' # NoConn
      BY <1>6 DEF Conn, NoConn
    <2> QED
      BY <1>1, <2>1 DEF Contents
  <1> QED
    BY <1>3, <1>4, <1>5, <1>6 DEF ConnsKept, PairsKept, HeadsKept, SameContents
\* The core and the peer.
LEMMA PeerKeeps ==
  ASSUME TypeOK, Connections, NEW n \in Conn,
         Serve(n) \/ Breaks(n) \/ DataArrives(n) \/ CloseArrives(n)
  PROVE  ConnsKept /\ PairsKept
  <1>0. \A m \in Conn : Used(m)' = Used(m)
    BY DEF Used, Opening, Serve, Breaks, DataArrives, CloseArrives, ConnGoes
  <1>1. CASE Serve(n)
    <2>1. PICK i \in DOMAIN wire[n] : /\ ~by_session => i = 1
                                      /\ answers' = [answers EXCEPT ![n] = Append(@, wire[n][i])]
                                      /\ wire' = [wire EXCEPT ![n] = RemoveAt(@, i)]
      BY <1>1 DEF Serve
    <2>2. conn[n] = "up" /\ UNCHANGED <<conn, buffer, by_session>>
      BY <1>1 DEF Serve, otherVars
    <2>3. wire[n] \in Seq(Req) /\ wire[n] # << >> /\ answers[n] \in Seq(Req)
      BY <2>1, EmptySeq DEF TypeOK
    <2>4. \A m \in Conn : m # n => Contents(m)' = Contents(m)
      BY <2>1, <2>2 DEF TypeOK, Contents
    <2>5. \A m \in Conn : conn'[m] = "down" => answers'[m] = << >>
      BY <2>1, <2>2 DEF TypeOK, Connections
    <2>6. Used(n)
      BY <2>3, ContentsType DEF Connections
    <2>7. CASE by_session
      <3>1. \A m \in Conn : ~Used(m)' => Contents(m)' = << >>
        BY <1>0, <2>4, <2>6 DEF Connections
      <3> QED
        BY <1>0, <2>5, <2>7, <3>1 DEF ConnsKept, PairsKept
    <2>8. CASE ~by_session
      <3>1. 1 \in 1 .. Len(wire[n]) /\ wire[n][1] = Head(wire[n])
        BY <2>3, FirstOf, LenProperties
      <3>2. RemoveAt(wire[n], 1) = Tail(wire[n])
        BY <2>3, <3>1, RemoveAtFacts
      <3>3. /\ wire'[n] = Tail(wire[n]) /\ answers'[n] = Append(answers[n], Head(wire[n]))
        BY <2>1, <2>8, <3>1, <3>2 DEF TypeOK
      <3>4. answers'[n] \o wire'[n] = answers[n] \o wire[n]
        BY <2>3, <3>3, ConcatMove
      <3>5. Contents(n)' = Contents(n)
        BY <2>2, <3>4 DEF Contents
      <3> QED
        BY <1>0, <2>2, <2>4, <2>5, <3>5, MovingKeeps
    <2> QED
      BY <2>7, <2>8
  <1>2. CASE Breaks(n) \/ CloseArrives(n)
    <2>1. /\ UNCHANGED <<answers, buffer, wire>>
          /\ \/ conn' = [conn EXCEPT ![n] = "broken"] /\ conn[n] = "up"
             \/ conn' = [conn EXCEPT ![n] = "down"] /\ answers[n] = << >>
      BY <1>2 DEF Breaks, CloseArrives, ConnGoes
    <2>2. /\ \A m \in Conn : conn'[m] = "down" => answers'[m] = << >>
          /\ \A m \in Conn : conn[m] = "down" => conn'[m] = "down" /\ buffer'[m] = buffer[m]
      BY <2>1 DEF TypeOK, Connections
    <2>3. \A m \in Conn : Contents(m)' = Contents(m)
      BY <2>1 DEF Contents
    <2> QED
      BY <1>0, <2>2, <2>3, MovingKeeps
  <1>3. CASE DataArrives(n)
    <2>1. /\ answers[n] # << >> /\ UNCHANGED <<conn, wire>>
          /\ answers' = [answers EXCEPT ![n] = Tail(@)]
          /\ buffer' = [buffer EXCEPT ![n] = Append(@, Head(answers[n]))]
      BY <1>3 DEF DataArrives
    <2>2. conn[n] # "down"
      BY <2>1 DEF Connections
    <2>3. PICK a \in Seq(Req), b \in Seq(Req), c \in Seq(Req) :
            a = buffer[n] /\ b = answers[n] /\ c = wire[n]
      BY DEF TypeOK
    <2>4. /\ buffer'[n] = Append(a, Head(b)) /\ answers'[n] = Tail(b) /\ wire'[n] = c
      BY <2>1, <2>3 DEF TypeOK
    <2>5. Contents(n)' = Append(a, Head(b)) \o (Tail(b) \o c)
      BY <2>4 DEF Contents
    <2>6. Append(a, Head(b)) \o (Tail(b) \o c) = (Append(a, Head(b)) \o Tail(b)) \o c
      <3>1. Head(b) \in Req /\ Tail(b) \in Seq(Req)
        BY <2>1, <2>3, FirstOf
      <3>2. Append(a, Head(b)) \in Seq(Req)
        BY <3>1, AppendProperties
      <3> QED
        BY <3>1, <3>2, ConcatAssociative, SMTT(30)
    <2>7. Append(a, Head(b)) \o Tail(b) = a \o b
      BY <2>1, <2>3, ConcatMove
    <2>8. (a \o b) \o c = a \o (b \o c)
      BY ConcatAssociative
    <2>9. Contents(n)' = Contents(n)
      BY <2>3, <2>5, <2>6, <2>7, <2>8 DEF Contents
    <2>10. \A m \in Conn : m # n => Contents(m)' = Contents(m) /\ buffer'[m] = buffer[m]
      BY <2>1 DEF TypeOK, Contents
    <2>11. \A m \in Conn : conn'[m] = "down" => answers'[m] = << >>
      BY <2>1, <2>2 DEF TypeOK, Connections
    <2> QED
      BY <1>0, <2>1, <2>2, <2>9, <2>10, <2>11, MovingKeeps
  <1> QED
    BY <1>1, <1>2, <1>3

-----------------------------------------------------------------------------
(***************************************************************************)
(* The invariant.                                                          *)
(***************************************************************************)

\* No task begins to wait, and none succeeds.
NoneWaits ==
  \A r \in Req : /\ pc'[r] = "waiting" => pc[r] = "waiting"
                 /\ outcome'[r].is = "ok" => outcome'[r] = outcome[r]

LEMMA ConnectionsNext ==
  ASSUME Connections, ConnsKept, NEW n \in Conn \cup {NoConn}, socket' = n, n # NoConn => Used(n)',
         NEW m \in Conn \cup {NoConn}, dispatcher'.conn = m, m # NoConn => Used(m)'
  PROVE  Connections'
  <1>1. socket' # NoConn => Used(socket)'
    <2>1. Used(socket)' <=> Used(n)'
      BY DEF Used, Opening
    <2> QED
      BY <2>1
  <1>2. dispatcher'.conn # NoConn => Used(dispatcher.conn)'
    <2>1. Used(dispatcher.conn)' <=> Used(m)'
      BY DEF Used, Opening
    <2> QED
      BY <2>1
  <1> QED
    BY <1>1, <1>2 DEF ConnsKept, Connections

\* The connection in use may be given up.
LEMMA ConnectionsKept ==
  ASSUME TypeOK, Connections, ConnsKept, socket' \in {socket, NoConn},
         dispatcher'.conn \in {dispatcher.conn, socket, NoConn}
  PROVE  Connections'
  <1>1. PICK n \in Conn \cup {NoConn} : n = socket'
    BY DEF TypeOK
  <1>2. PICK m \in Conn \cup {NoConn} : m = dispatcher'.conn
    BY DEF TypeOK
  <1>3. n # NoConn => Used(n)'
    BY <1>1 DEF Connections, ConnsKept, TypeOK, NoConn, Conn
  <1>4. m # NoConn => Used(m)'
    BY <1>2 DEF Connections, ConnsKept, TypeOK, NoConn, Conn
  <1> QED
    BY <1>1, <1>2, <1>3, <1>4, ConnectionsNext

\* Steps that leave the dispatcher and its queues alone.
LEMMA QuietKeeps ==
  ASSUME IInv, TypeOK', Connecting', ConnsKept, PairsKept, NoneWaits,
         UNCHANGED <<by_session, dispatcher, request, thread, asserted, left>>,
         socket' \in {socket, NoConn}
  PROVE  IInv'
  <1>1. Connections'
    BY ConnectionsKept DEF IInv
  <1>2. Taken' /\ InStep' = InStep
    BY DEF IInv, Taken, InStep
  <1>3. InStep => Attached'
    BY DEF IInv, Attached, dispatch_thread
  <1>4. ASSUME InStep, ~by_session
        PROVE  Paired'
    <2>1. HeadsKept /\ SameContents /\ Paired /\ Connections /\ TypeOK
      BY <1>4 DEF PairsKept, IInv
    <2>2. Pending' = Pending
      BY DEF Pending
    <2>3. ASSUME socket' # NoConn
          PROVE  NoReq \notin ToSet(thread') /\ Contents(socket)' = Pending'
      <3>1. PICK n \in Conn : n = socket /\ n = socket'
        BY <2>1, <2>3 DEF TypeOK
      <3>2. Contents(n)' = Contents(n) /\ Contents(n) = Contents(socket)
        BY <2>1, <3>1 DEF SameContents
      <3>3. Contents(socket)' = Contents(n)'
        BY <3>1 DEF Contents
      <3> QED
        BY <2>1, <2>2, <2>3, <3>1, <3>2, <3>3 DEF Paired
    <2>4. ASSUME dispatcher'.at = "read", dispatcher'.conn # NoConn
          PROVE  Comes(dispatcher.conn, dispatcher.token)'
      <3>1. PICK n \in Conn, t \in Req \cup {NoReq} : n = dispatcher.conn /\ t = dispatcher.token
        BY <2>1, <2>4 DEF TypeOK
      <3>2. Comes(n, t) /\ Used(n)
        BY <2>1, <2>4, <3>1 DEF Paired, Connections
      <3>3. Comes(n, t)'
        BY <2>1, <3>2 DEF HeadsKept
      <3>4. n = dispatcher'.conn /\ t = dispatcher'.token
        BY <3>1
      <3> QED
        BY <3>3, <3>4 DEF Comes, Contents
    <2>5. dispatcher'.at = "got" => dispatcher'.answer = dispatcher'.token
      BY <2>1 DEF Paired
    <2> QED
      BY <2>3, <2>4, <2>5 DEF Paired
  <1>5. AnswerIsOwn'
    BY <1>2 DEF IInv, AnswerIsOwn, NoneWaits
  <1>6. QueuesAligned'
    BY <1>2 DEF IInv, QueuesAligned
  <1>7. WaitingIsHeld'
    BY <1>2 DEF IInv, WaitingIsHeld, NoneWaits, dispatch_thread, ToSet
  <1> QED
    BY <1>1, <1>2, <1>3, <1>4, <1>5, <1>6, <1>7 DEF IInv

-----------------------------------------------------------------------------
(***************************************************************************)
(* Steps that leave the dispatcher alone.                                  *)
(***************************************************************************)

LEMMA GoesQuietly ==
  ASSUME TypeOK, NEW r \in Req, NEW from, NEW to, to # "waiting", Goes(r, from, to)
  PROVE  NoneWaits
  BY DEF TypeOK, Goes, NoneWaits

LEMMA JoinsQuietly ==
  ASSUME TypeOK, NEW r \in Req, Join(r)
  PROVE  NoneWaits
  BY DEF TypeOK, Join, NoneWaits

\* Who connects no longer does: the connection counts as used.
LEMMA UsedKept ==
  ASSUME TypeOK, Connecting, NEW n \in Conn, Used(n),
         \/ UNCHANGED nextConn /\ connector' \in {connector, NoReq}
         \/ nextConn' = nextConn + 1 /\ connector = NoReq
  PROVE  Used(n)'
  BY DEF TypeOK, Used, Opening, Conn

LEMMA EntersKeeps ==
  ASSUME IInv, TypeOK', Connecting', NEW r \in Req, Enters(r) \/ Messages(r)
  PROVE  IInv'
  <1>0. TypeOK /\ Connecting /\ Connections
    BY DEF IInv
  <1>1. CASE Enter(r)
    <2>1. /\ UNCHANGED <<socket, connector, by_session, dispatcher, request, thread, asserted, left,
                         conn, wire, answers, buffer, nextConn>>
          /\ Goes(r, "idle", "ready")
      BY <1>1 DEF Enter, pairVars, connVars, otherVars
    <2>2. ConnsKept /\ PairsKept
      BY <1>0, <2>1, UsedKept, ClosingKeeps
    <2>3. NoneWaits
      BY <1>0, <2>1, GoesQuietly
    <2> QED
      BY <2>1, <2>2, <2>3, QuietKeeps
  <1>2. CASE Queue(r)
    <2>1. /\ UNCHANGED <<connector, by_session, dispatcher, request, thread, asserted, left,
                         wire, answers, nextConn>>
          /\ CloseSocket /\ socket' = NoConn
          /\ Goes(r, "idle", "queued")
      BY <1>2 DEF Queue, CloseSocket, pairVars, otherVars
    <2>2. ConnsKept /\ PairsKept
      BY <1>0, <2>1, UsedKept, ClosingKeeps
    <2>3. NoneWaits
      BY <1>0, <2>1, GoesQuietly
    <2> QED
      BY <2>1, <2>2, <2>3, QuietKeeps
  <1>3. CASE Open(r)
    <2>1. /\ UNCHANGED <<by_session, dispatcher, request, thread, asserted, left, wire, answers>>
          /\ nextConn' = nextConn + 1 /\ connector = NoReq
          /\ CloseSocket /\ socket' = NoConn
          /\ Goes(r, "idle", "asking")
      BY <1>3 DEF Open, CloseSocket, pairVars, otherVars
    <2>2. ConnsKept /\ PairsKept
      BY <1>0, <2>1, UsedKept, ClosingKeeps
    <2>3. NoneWaits
      BY <1>0, <2>1, GoesQuietly
    <2> QED
      BY <2>1, <2>2, <2>3, QuietKeeps
  <1>4. CASE ConnectArrives(r)
    <2>1. /\ UNCHANGED <<socket, connector, by_session, dispatcher, request, thread, asserted, left,
                         wire, answers, buffer, nextConn>>
          /\ conn' = [conn EXCEPT ![Opening] = "up"]
          /\ Goes(r, "opening", "opened")
      BY <1>4 DEF ConnectArrives, pairVars, otherVars
    <2>2. \A n \in Conn : Contents(n)' = Contents(n)
      BY <2>1 DEF Contents
    <2>3. \A n \in Conn : conn'[n] = "down" => answers'[n] = << >>
      BY <1>0, <2>1 DEF TypeOK, Connections
    <2>4. connector = r /\ r # NoReq
      BY <1>0, <2>1 DEF Connecting, Goes, Req, NoReq
    <2>5. \A n \in Conn : Used(n) => n # Opening
      BY <2>4 DEF TypeOK, Used, Opening, Conn, IInv
    <2>6. \A n \in Conn : Used(n) /\ conn[n] = "down" => conn'[n] = "down" /\ buffer'[n] = buffer[n]
      BY <1>0, <2>1, <2>5 DEF TypeOK
    <2>7. ConnsKept /\ PairsKept
      BY <1>0, <2>1, <2>2, <2>3, <2>6, UsedKept, MovingKeeps
    <2>8. NoneWaits
      BY <1>0, <2>1, GoesQuietly
    <2> QED
      BY <2>1, <2>7, <2>8, QuietKeeps
  <1>5. CASE ErrorArrives(r) \/ TimerArrives(r)
    <2>1. /\ UNCHANGED <<socket, connector, by_session, dispatcher, request, thread, asserted, left,
                         conn, wire, answers, buffer, nextConn>>
          /\ Goes(r, "opening", "refused") \/ Goes(r, "draining", "awake")
      BY <1>5 DEF ErrorArrives, TimerArrives, pairVars, connVars, otherVars
    <2>2. ConnsKept /\ PairsKept
      BY <1>0, <2>1, UsedKept, ClosingKeeps
    <2>3. NoneWaits
      BY <1>0, <2>1, GoesQuietly
    <2> QED
      BY <2>1, <2>2, <2>3, QuietKeeps
  <1> QED
    BY <1>1, <1>2, <1>3, <1>4, <1>5 DEF Enters, Messages

\* OpenFails, Rejoin, and what ends without an answer.
LEMMA ReturnsKeeps ==
  ASSUME IInv, TypeOK', Connecting', NEW r \in Req,
         OpenFails(r) \/ Rejoin(r) \/ ConnectReturns(r) \/ Resume(r)
  PROVE  IInv'
  <1>0. TypeOK /\ Connecting /\ Connections
    BY DEF IInv
  <1>1. CASE OpenFails(r)
    <2>1. /\ UNCHANGED <<socket, by_session, dispatcher, request, thread, asserted, left,
                         conn, wire, answers, buffer, nextConn>>
          /\ Join(r) /\ connector' = NoReq
      BY <1>1 DEF OpenFails, Join, pairVars, connVars, otherVars
    <2>2. ConnsKept /\ PairsKept
      BY <1>0, <2>1, UsedKept, ClosingKeeps
    <2>3. NoneWaits
      BY <1>0, <2>1, JoinsQuietly
    <2> QED
      BY <2>1, <2>2, <2>3, QuietKeeps
  <1>2. CASE Rejoin(r)
    <2>1. /\ UNCHANGED <<connector, by_session, dispatcher, request, thread, asserted, left,
                         wire, answers, nextConn>>
          /\ CloseSocket \/ UNCHANGED <<socket, conn, buffer>>
          /\ socket' \in {socket, NoConn}
          /\ Goes(r, "rejoin", "ready") \/ Told(r, "error")
      BY <1>2 DEF Rejoin, CloseSocket, pairVars, otherVars
    <2>2. ConnsKept /\ PairsKept
      BY <1>0, <2>1, UsedKept, ClosingKeeps
    <2>3. NoneWaits
      <3>1. CASE Goes(r, "rejoin", "ready")
        BY <1>0, <3>1, GoesQuietly
      <3>2. CASE Told(r, "error")
        BY <1>0, <3>2 DEF TypeOK, Told, NoneWaits
      <3> QED
        BY <2>1, <3>1, <3>2
    <2> QED
      BY <2>1, <2>2, <2>3, QuietKeeps
  <1>3. CASE ConnectReturns(r) \/ Resume(r)
    <2>1. /\ UNCHANGED <<socket, connector, by_session, dispatcher, request, thread, asserted, left,
                         conn, wire, answers, buffer, nextConn>>
          /\ Goes(r, "ready", "done") \/ Goes(r, "woken", "done")
      BY <1>3 DEF ConnectReturns, Resume, pairVars, connVars, otherVars
    <2>2. ConnsKept /\ PairsKept
      BY <1>0, <2>1, UsedKept, ClosingKeeps
    <2>3. NoneWaits
      BY <1>0, <2>1, GoesQuietly
    <2> QED
      BY <2>1, <2>2, <2>3, QuietKeeps
  <1> QED
    BY <1>1, <1>2, <1>3

\* The connections and the turns.
LEMMA ElseKeeps ==
  ASSUME IInv, TypeOK', Connecting',
         \/ ChangeHost
         \/ \E n \in Conn : Serve(n) \/ Breaks(n) \/ DataArrives(n) \/ CloseArrives(n)
         \/ TurnSettles \/ TurnEnds
  PROVE  IInv'
  <1>0. TypeOK /\ Connecting /\ Connections
    BY DEF IInv
  <1>1. CASE ChangeHost
    <2>1. /\ UNCHANGED <<connector, by_session, dispatcher, request, thread, asserted, left,
                         wire, answers, nextConn, pc, outcome>>
          /\ CloseSocket /\ socket' = NoConn
      BY <1>1 DEF ChangeHost, CloseSocket, pairVars
    <2>2. ConnsKept /\ PairsKept
      BY <1>0, <2>1, UsedKept, ClosingKeeps
    <2>3. NoneWaits
      BY <2>1 DEF NoneWaits
    <2> QED
      BY <2>1, <2>2, <2>3, QuietKeeps
  <1>2. CASE \E n \in Conn : Serve(n) \/ Breaks(n) \/ DataArrives(n) \/ CloseArrives(n)
    <2>1. UNCHANGED <<socket, by_session, dispatcher, request, thread, asserted, left, pc, outcome>>
      BY <1>2 DEF Serve, Breaks, DataArrives, CloseArrives, ConnGoes, pairVars, otherVars
    <2>2. ConnsKept /\ PairsKept
      BY <1>0, <1>2, PeerKeeps
    <2>3. NoneWaits
      BY <2>1 DEF NoneWaits
    <2> QED
      BY <2>1, <2>2, <2>3, QuietKeeps
  <1>3. CASE TurnSettles \/ TurnEnds
    <2>1. UNCHANGED <<socket, connector, by_session, dispatcher, request, thread, asserted, left,
                      conn, wire, answers, buffer, nextConn>>
      BY <1>3 DEF TurnSettles, TurnEnds, pairVars, connVars
    <2>2. ConnsKept /\ PairsKept
      BY <1>0, <2>1, UsedKept, ClosingKeeps
    <2>3. NoneWaits
      BY <1>0, <1>3 DEF TypeOK, TurnSettles, TurnEnds, NoneWaits
    <2> QED
      BY <2>1, <2>2, <2>3, QuietKeeps
  <1> QED
    BY <1>1, <1>2, <1>3

-----------------------------------------------------------------------------
(***************************************************************************)
(* A dispatcher is told to end, and the next begins.                       *)
(***************************************************************************)

\* What push_response does to the queues, and to a dispatcher that sleeps.
LEMMA PushFacts ==
  ASSUME TypeOK, Taken, ~by_session, NEW token \in Req \cup {NoReq}, Push(token, token)
  PROVE  /\ request' = Append(request, token) /\ thread' = Append(thread, token)
         /\ ToSet(thread') = ToSet(thread) \cup {token}
         /\ dispatcher'.token = dispatcher.token /\ dispatcher'.func = dispatcher.func
         /\ dispatcher'.at \in {"none", "pop", "asleep"} <=> dispatcher.at \in {"none", "pop", "asleep"}
         /\ dispatcher'.at = "none" <=> dispatcher.at = "none"
         /\ \/ dispatcher' = dispatcher
            \/ dispatcher'.at = "pop" /\ dispatcher.at = "asleep" /\ dispatcher'.conn = NoConn
  <1>1. request' = Append(request, token) /\ thread' = Append(thread, token)
    BY DEF Push
  <1>2. ToSet(thread') = ToSet(thread) \cup {token}
    <2>1. thread \in Seq(Req \cup {NoReq})
      BY DEF TypeOK
    <2>2. ToSet(Append(thread, token)) = ToSet(thread) \cup {token}
      BY <2>1, AppendSet
    <2> QED
      BY <1>1, <2>2
  <1>3. CASE wait_response
    <2>1. dispatcher.at = "asleep" /\ dispatcher' = Popping
      BY <1>3 DEF TypeOK, Push
    <2>2. /\ Popping.at = "pop" /\ Popping.conn = NoConn
          /\ Popping.token = NoReq /\ Popping.func = NoReq
      BY DEF Popping, NoDispatcher
    <2>3. dispatcher.token = NoReq /\ dispatcher.func = NoReq
      BY <2>1 DEF Taken
    <2> QED
      BY <1>1, <1>2, <2>1, <2>2, <2>3
  <1>4. CASE ~wait_response
    BY <1>1, <1>2, <1>4 DEF Push
  <1> QED
    BY <1>3, <1>4

\* The next answer from the connection of the dispatcher is still for the
\* request for which it reads.
LEMMA ReadingKept ==
  ASSUME TypeOK, Connections, HeadsKept, dispatcher' = dispatcher,
         dispatcher.at = "read", dispatcher.conn # NoConn,
         Comes(dispatcher.conn, dispatcher.token)
  PROVE  Comes(dispatcher.conn, dispatcher.token)'
  <1>1. PICK n \in Conn, t \in Req \cup {NoReq} : n = dispatcher.conn /\ t = dispatcher.token
    BY DEF TypeOK
  <1>2. Comes(n, t) /\ Used(n)
    BY <1>1 DEF Connections
  <1>3. Comes(n, t)' /\ n = dispatcher'.conn /\ t = dispatcher'.token
    BY <1>1, <1>2 DEF HeadsKept
  <1> QED
    BY <1>3 DEF Comes, Contents

LEMMA TermKeeps ==
  ASSUME IInv, TypeOK', Connecting', TermDispatchThread, ConnsKept, PairsKept, NoneWaits,
         UNCHANGED <<by_session, asserted, left>>, socket' = NoConn
  PROVE  IInv'
  <1>0. TypeOK /\ Connections /\ Taken
    BY DEF IInv
  <1>1. CASE by_session \/ ~dispatch_thread
    <2>1. UNCHANGED <<dispatcher, request, thread>>
      BY <1>1 DEF TermDispatchThread, pairVars
    <2> QED
      BY <2>1, QuietKeeps
  <1>2. CASE ~by_session /\ dispatch_thread
    <2>1. Push(NoReq, NoReq)
      BY <1>2 DEF TermDispatchThread
    <2>2. /\ request' = Append(request, NoReq) /\ thread' = Append(thread, NoReq)
          /\ ToSet(thread') = ToSet(thread) \cup {NoReq}
          /\ dispatcher'.token = dispatcher.token /\ dispatcher'.func = dispatcher.func
          /\ dispatcher'.at \in {"none", "pop", "asleep"} <=>
               dispatcher.at \in {"none", "pop", "asleep"}
          /\ dispatcher'.at = "none" <=> dispatcher.at = "none"
          /\ \/ dispatcher' = dispatcher
             \/ dispatcher'.at = "pop" /\ dispatcher.at = "asleep" /\ dispatcher'.conn = NoConn
      BY <1>0, <1>2, <2>1, PushFacts
    <2>3. Connections'
      BY <1>0, <2>2, ConnectionsKept
    <2>4. Taken' /\ InStep' = InStep /\ dispatch_thread'
      BY <1>0, <1>2, <2>2 DEF Taken, InStep, dispatch_thread
    <2>5. Attached'
      BY <2>4 DEF Attached
    <2>6. ASSUME InStep
          PROVE  Paired'
      <3>1. HeadsKept /\ Paired
        BY <1>2, <2>6 DEF PairsKept, IInv
      <3>2. ASSUME dispatcher'.at = "read", dispatcher'.conn # NoConn
            PROVE  Comes(dispatcher.conn, dispatcher.token)'
        BY <1>0, <2>2, <3>1, <3>2, ReadingKept DEF Paired
      <3>3. dispatcher'.at = "got" => dispatcher'.answer = dispatcher'.token
        BY <2>2, <3>1 DEF Paired
      <3> QED
        BY <3>2, <3>3 DEF Paired
    <2>7. AnswerIsOwn'
      BY <2>4 DEF IInv, AnswerIsOwn, NoneWaits
    <2>8. QueuesAligned'
      BY <2>2, <2>4 DEF IInv, QueuesAligned
    <2>9. WaitingIsHeld'
      BY <2>2, <2>4 DEF IInv, WaitingIsHeld, NoneWaits
    <2> QED
      BY <2>3, <2>4, <2>5, <2>6, <2>7, <2>8, <2>9 DEF IInv
  <1> QED
    BY <1>1, <1>2

LEMMA CloseKeeps ==
  ASSUME IInv, TypeOK', Connecting', Close
  PROVE  IInv'
  <1>1. /\ UNCHANGED <<connector, by_session, asserted, left, wire, answers, nextConn, pc, outcome>>
        /\ CloseSocket /\ socket' = NoConn /\ TermDispatchThread
    BY DEF Close, CloseSocket
  <1>2. ConnsKept /\ PairsKept
    BY <1>1, UsedKept, ClosingKeeps DEF IInv
  <1>3. NoneWaits
    BY <1>1 DEF NoneWaits
  <1> QED
    BY <1>1, <1>2, <1>3, TermKeeps

LEMMA AttachKeeps ==
  ASSUME IInv, TypeOK', Connecting', NEW r \in Req, pc[r] \in Connects, Attach(r), ~dispatch_thread,
         UNCHANGED <<by_session, request, thread, asserted, left, conn, wire, answers, buffer, nextConn>>
  PROVE  IInv'
  <1>0. TypeOK /\ Connecting /\ Connections
    BY DEF IInv
  <1>1. connector = r /\ r # NoReq
    BY <1>0 DEF Connecting, Connects, Req, NoReq
  <1>2. socket = NoConn /\ connector' = NoReq /\ socket' = Opening
    BY <1>0, <1>1 DEF Connecting, Attach, Join
  <1>3. PICK n \in Conn : n = Opening
    BY <1>0, <1>1 DEF Connecting
  <1>4. NoneWaits
    BY <1>0, JoinsQuietly DEF Attach
  <1>5. ~Used(n) /\ Used(n)'
    BY <1>0, <1>1, <1>2, <1>3 DEF TypeOK, Used, Opening, Conn
  <1>6. ConnsKept
    BY <1>0, <1>2, UsedKept, ClosingKeeps
  <1>7. /\ dispatcher'.at = IF by_session THEN "read" ELSE "pop"
        /\ dispatcher'.conn = IF by_session THEN n ELSE NoConn
        /\ dispatcher'.token = NoReq /\ dispatcher'.func = NoReq
    BY <1>3 DEF Attach, Popping, NoDispatcher
  <1>8. Connections'
    <2>1. n \in Conn \cup {NoConn} /\ socket' = n
      BY <1>2, <1>3
    <2>2. dispatcher'.conn \in {n, NoConn}
      BY <1>7
    <2> QED
      BY <1>0, <1>5, <1>6, <2>1, <2>2, ConnectionsNext
  <1>9. Taken' /\ InStep' = InStep /\ dispatch_thread'
    BY <1>7 DEF Taken, InStep, dispatch_thread
  <1>10. Attached'
    BY <1>2, <1>3, <1>7, <1>9 DEF Attached
  <1>11. ASSUME InStep, ~by_session
         PROVE  Paired'
    <2>1. thread' = << >> /\ NoReq \notin ToSet(thread')
      BY <1>11, EmptySeq DEF IInv, Attached, ToSet
    <2>2. Contents(n)' = << >>
      BY <1>0, <1>5 DEF Connections, Contents
    <2>3. Contents(socket)' = Contents(n)'
      BY <1>2, <1>3 DEF Contents
    <2>4. dispatcher'.at = "pop"
      BY <1>7, <1>11
    <2> QED
      BY <2>1, <2>2, <2>3, <2>4 DEF Paired, Pending
  <1>12. AnswerIsOwn'
    BY <1>4, <1>9 DEF IInv, AnswerIsOwn, NoneWaits
  <1>13. QueuesAligned'
    BY <1>7, <1>9 DEF IInv, QueuesAligned
  <1>14. WaitingIsHeld'
    BY <1>4, <1>9 DEF IInv, WaitingIsHeld, NoneWaits
  <1> QED
    BY <1>8, <1>9, <1>10, <1>11, <1>12, <1>13, <1>14 DEF IInv

LEMMA OpensKeeps ==
  ASSUME IInv, TypeOK', Connecting', NEW r \in Req, Opens(r) \/ Drains(r)
  PROVE  IInv'
  <1>0. TypeOK /\ Connecting /\ Connections
    BY DEF IInv
  <1>1. /\ pc[r] \in Connects /\ pc[r] \in {"opened", "awake"}
        /\ UNCHANGED <<by_session, asserted, left, conn, wire, answers, buffer, nextConn>>
    BY DEF Opens, Drains, Connects, connVars, otherVars
  <1>2. CASE ~dispatch_thread
    <2>1. Attach(r) /\ UNCHANGED <<request, thread>>
      BY <1>2 DEF Opens, Drains, pairVars
    <2> QED
      BY <1>1, <1>2, <2>1, AttachKeeps
  <1>3. CASE dispatch_thread
    <2>1. /\ UNCHANGED <<socket, connector>>
          /\ Goes(r, "opened", "draining") \/ Goes(r, "awake", "draining")
          /\ TermDispatchThread \/ UNCHANGED <<dispatcher, request, thread>>
      BY <1>3 DEF Opens, Drains, pairVars
    <2>2. NoneWaits
      BY <1>0, <2>1, GoesQuietly
    <2>3. ConnsKept /\ PairsKept
      BY <1>0, <1>1, <2>1, UsedKept, ClosingKeeps
    <2>4. socket' = NoConn
      BY <1>0, <1>1, <2>1 DEF Connecting, Req, NoReq
    <2> QED
      BY <1>1, <2>1, <2>2, <2>3, <2>4, TermKeeps, QuietKeeps
  <1> QED
    BY <1>2, <1>3
-----------------------------------------------------------------------------
(***************************************************************************)
(* Requests are written, and fail.                                         *)
(***************************************************************************)

\* A request that is written is the last on its connection.
LEMMA WriteConns ==
  ASSUME TypeOK, Connecting, Connections, NEW r \in Req, Write(r)
  PROVE  /\ ConnsKept /\ HeadsKept
         /\ \A n \in Conn : n = socket => Contents(n)' = Append(Contents(n), r)
  <1>1. PICK n \in Conn : n = socket
    BY DEF TypeOK, Write
  <1>2. /\ wire' = [wire EXCEPT ![n] = Append(@, r)] /\ conn[n] = "up"
        /\ UNCHANGED <<socket, connector, conn, answers, buffer, nextConn>>
    BY <1>1 DEF Write
  <1>3. \A m \in Conn : Used(m)' = Used(m)
    BY <1>2 DEF Used, Opening
  <1>4. Used(n)
    BY <1>1 DEF Connections, Conn, NoConn
  <1>5. \A m \in Conn : m # n => Contents(m)' = Contents(m)
    BY <1>2 DEF TypeOK, Contents
  <1>6. Contents(n)' = Append(Contents(n), r)
    <2>1. PICK a \in Seq(Req), b \in Seq(Req), c \in Seq(Req) :
            a = buffer[n] /\ b = answers[n] /\ c = wire[n]
      BY DEF TypeOK
    <2>2. buffer'[n] = a /\ answers'[n] = b /\ wire'[n] = Append(c, r)
      BY <1>2, <2>1 DEF TypeOK
    <2>3. b \o Append(c, r) = Append(b \o c, r)
      BY ConcatAppend
    <2>4. b \o c \in Seq(Req)
      BY ConcatProperties
    <2>5. a \o Append(b \o c, r) = Append(a \o (b \o c), r)
      BY <2>4, ConcatAppend
    <2> QED
      BY <2>1, <2>2, <2>3, <2>5 DEF Contents
  <1>7. ConnsKept
    BY <1>2, <1>3, <1>4, <1>5 DEF ConnsKept, Connections
  <1>8. ASSUME NEW m \in Conn, NEW t \in Req \cup {NoReq}, Comes(m, t)
        PROVE  Comes(m, t)'
    <2>1. CASE m # n
      BY <1>2, <1>5, <1>8, <2>1 DEF Comes
    <2>2. CASE m = n
      <3>1. PICK s \in Seq(Req) : s = Contents(n) /\ s # << >> /\ Head(s) = t
        BY <1>2, <1>8, <2>2, ContentsType DEF Comes
      <3>2. /\ Len(s) \in Nat \ {0} /\ Append(s, r) \in Seq(Req)
            /\ Len(Append(s, r)) = Len(s) + 1
            /\ Append(s, r)[1] = s[1] /\ Head(s) = s[1]
        BY <3>1, FirstOf, AppendProperties
      <3>3. Append(s, r) # << >>
        BY <3>2, EmptySeq
      <3>4. Head(Append(s, r)) = Append(s, r)[1]
        BY <3>2, <3>3, HeadTailProperties
      <3> QED
        BY <1>6, <2>2, <3>1, <3>2, <3>3, <3>4 DEF Comes
    <2> QED
      BY <2>1, <2>2
  <1> QED
    BY <1>1, <1>6, <1>7, <1>8 DEF HeadsKept

LEMMA WriteKeeps ==
  ASSUME IInv, TypeOK', Connecting', NEW r \in Req, Write(r)
  PROVE  IInv'
  <1>0. TypeOK /\ Connecting /\ Connections /\ Taken
    BY DEF IInv
  <1>1. /\ UNCHANGED <<by_session, asserted, left, socket, outcome>>
        /\ pc' = [pc EXCEPT ![r] = "waiting"]
        /\ Push(r, r) /\ socket # NoConn
    BY DEF Write, Goes, otherVars
  <1>2. /\ ConnsKept /\ HeadsKept
        /\ \A n \in Conn : n = socket => Contents(n)' = Append(Contents(n), r)
    BY <1>0, WriteConns
  <1>3. InStep' = InStep
    BY <1>1 DEF InStep
  <1>4. \A q \in Req : pc'[q] = "waiting" => q = r \/ pc[q] = "waiting"
    BY <1>0, <1>1 DEF TypeOK
  <1>5. thread' = Append(thread, r) /\ ToSet(thread') = ToSet(thread) \cup {r}
    <2>1. thread \in Seq(Req \cup {NoReq}) /\ thread' = Append(thread, r)
      BY <1>0, <1>1 DEF TypeOK, Push
    <2>2. ToSet(Append(thread, r)) = ToSet(thread) \cup {r}
      BY <2>1, AppendSet
    <2> QED
      BY <2>1, <2>2
  <1>6. AnswerIsOwn'
    BY <1>1, <1>3 DEF IInv, AnswerIsOwn
  <1>7. CASE by_session
    <2>1. UNCHANGED <<request, wait_response, dispatcher>>
      BY <1>1, <1>7 DEF Push
    <2>2. Connections'
      BY <1>0, <1>1, <1>2, <2>1, ConnectionsKept
    <2>3. Taken' /\ (InStep => Attached')
      BY <1>0, <1>1, <2>1 DEF Taken, Attached, dispatch_thread, IInv
    <2>4. WaitingIsHeld'
      BY <1>1, <1>3, <1>4, <1>5, <2>1, <2>3 DEF IInv, WaitingIsHeld, dispatch_thread, Attached
    <2> QED
      BY <1>1, <1>3, <1>6, <1>7, <2>2, <2>3, <2>4 DEF IInv, QueuesAligned
  <1>8. CASE ~by_session
    <2>1. /\ request' = Append(request, r)
          /\ dispatcher'.token = dispatcher.token /\ dispatcher'.func = dispatcher.func
          /\ dispatcher'.at \in {"none", "pop", "asleep"} <=>
               dispatcher.at \in {"none", "pop", "asleep"}
          /\ dispatcher'.at = "none" <=> dispatcher.at = "none"
          /\ \/ dispatcher' = dispatcher
             \/ dispatcher'.at = "pop" /\ dispatcher.at = "asleep" /\ dispatcher'.conn = NoConn
      BY <1>0, <1>1, <1>8, PushFacts
    <2>2. Connections'
      BY <1>0, <1>1, <1>2, <2>1, ConnectionsKept
    <2>3. Taken'
      BY <1>0, <1>1, <1>8, <2>1 DEF Taken
    <2>4. ASSUME InStep
          PROVE  Attached' /\ dispatch_thread'
      BY <1>1, <2>1, <2>4 DEF IInv, Attached, dispatch_thread
    <2>5. ASSUME InStep
          PROVE  Paired'
      <3>1. Paired /\ NoReq \notin ToSet(thread) /\ Contents(socket) = Pending
        BY <1>1, <1>8, <2>5 DEF IInv, Paired
      <3>2. NoReq \notin ToSet(thread')
        BY <1>5, <3>1 DEF Req, NoReq
      <3>3. Contents(socket)' = Append(Pending, r)
        <4>1. PICK n \in Conn : n = socket
          BY <1>0, <1>1 DEF TypeOK
        <4>2. Contents(socket)' = Contents(n)' /\ Contents(socket) = Contents(n)
          BY <1>1, <4>1 DEF Contents
        <4> QED
          BY <1>2, <3>1, <4>1, <4>2
      <3>4. Pending' = Append(Pending, r)
        <4>1. CASE dispatcher.at = "read"
          <5>1. dispatcher' = dispatcher
            BY <2>1, <4>1
          <5>2. PICK t \in Req \cup {NoReq}, s \in Seq(Req \cup {NoReq}) :
                  t = dispatcher.token /\ s = thread
            BY <1>0 DEF TypeOK
          <5>3. << t >> \in Seq(Req \cup {NoReq})
            OBVIOUS
          <5>4. << t >> \o Append(s, r) = Append(<< t >> \o s, r)
            BY <5>3, ConcatAppend
          <5> QED
            BY <1>5, <4>1, <5>1, <5>2, <5>4 DEF Pending
        <4>2. CASE dispatcher.at # "read"
          <5>1. dispatcher'.at # "read"
            BY <2>1, <4>2
          <5> QED
            BY <1>5, <4>2, <5>1 DEF Pending
        <4> QED
          BY <4>1, <4>2
      <3>5. ASSUME dispatcher'.at = "read", dispatcher'.conn # NoConn
            PROVE  Comes(dispatcher.conn, dispatcher.token)'
        BY <1>0, <1>2, <2>1, <3>1, <3>5, ReadingKept DEF Paired
      <3>6. dispatcher'.at = "got" => dispatcher'.answer = dispatcher'.token
        BY <2>1, <3>1 DEF Paired
      <3> QED
        BY <3>2, <3>3, <3>4, <3>5, <3>6 DEF Paired
    <2>6. QueuesAligned'
      BY <1>1, <1>3, <1>5, <2>1 DEF IInv, QueuesAligned
    <2>7. WaitingIsHeld'
      BY <1>3, <1>4, <1>5, <2>1, <2>4 DEF IInv, WaitingIsHeld
    <2> QED
      BY <1>1, <1>3, <1>6, <2>2, <2>3, <2>4, <2>5, <2>6, <2>7 DEF IInv
  <1> QED
    BY <1>7, <1>8

\* wakeup_all reaches every token when all of them are awaited.
LEMMA ReachedAll ==
  ASSUME NEW S, NEW queue \in Seq(S), \A i \in DOMAIN queue : Awaited(queue[i])
  PROVE  Reached(queue) = ToSet(queue)
  <1>1. DOMAIN queue = 1 .. Len(queue) /\ Len(queue) \in Nat
    BY LenProperties
  <1>2. \A j \in DOMAIN queue : \A k \in 1 .. j : k \in DOMAIN queue
    BY <1>1
  <1> QED
    BY <1>2 DEF Reached, ToSet

\* What wakeup_all leaves behind, if it does not fail.
LEMMA ClearedFacts ==
  ASSUME TypeOK, Cleared, ~asserted'
  PROVE  /\ ~asserted /\ thread' = << >> /\ Reached(thread) = ToSet(thread)
         /\ ~by_session => request' = << >>
  <1>1. \A i \in DOMAIN thread : Awaited(thread[i])
    BY DEF Cleared
  <1>2. Reached(thread) = ToSet(thread)
    BY <1>1, ReachedAll DEF TypeOK
  <1> QED
    BY <1>1, <1>2 DEF Cleared

LEMMA WriteFailsKeeps ==
  ASSUME IInv, TypeOK', Connecting', NEW r \in Req, WriteFails(r)
  PROVE  IInv'
  <1>0. TypeOK /\ Connecting /\ Connections /\ Taken
    BY DEF IInv
  <1>1. /\ CloseSocket /\ Cleared /\ socket' = NoConn
        /\ UNCHANGED <<by_session, connector, dispatcher, wire, answers, nextConn, left>>
    BY DEF WriteFails, CloseSocket, Cleared, otherVars
  <1>2. ConnsKept /\ PairsKept
    BY <1>0, <1>1, UsedKept, ClosingKeeps
  <1>3. /\ NoneWaits
        /\ \A q \in Req : pc'[q] = "waiting" => q \notin Reached(thread)
    BY <1>0 DEF TypeOK, WriteFails, NoneWaits
  <1>4. Connections'
    BY <1>0, <1>1, <1>2, ConnectionsKept
  <1>5. Taken'
    BY <1>0, <1>1 DEF Taken
  <1>6. ASSUME InStep'
        PROVE  /\ InStep /\ thread' = << >> /\ Reached(thread) = ToSet(thread)
               /\ ~by_session => request' = << >>
    BY <1>0, <1>1, <1>6, ClearedFacts DEF InStep
  <1>7. InStep' => Attached'
    BY <1>1, <1>6 DEF Attached
  <1>8. ASSUME InStep', ~by_session'
        PROVE  Paired'
    <2>1. Paired /\ HeadsKept
      BY <1>1, <1>2, <1>6, <1>8 DEF IInv, PairsKept
    <2>2. ASSUME dispatcher'.at = "read", dispatcher'.conn # NoConn
          PROVE  Comes(dispatcher.conn, dispatcher.token)'
      BY <1>0, <1>1, <2>1, <2>2, ReadingKept DEF Paired
    <2>3. dispatcher'.at = "got" => dispatcher'.answer = dispatcher'.token
      BY <1>1, <2>1 DEF Paired
    <2> QED
      BY <1>1, <2>2, <2>3 DEF Paired
  <1>9. AnswerIsOwn'
    BY <1>3, <1>6 DEF IInv, AnswerIsOwn, NoneWaits
  <1>10. QueuesAligned'
    BY <1>1, <1>6 DEF IInv, QueuesAligned
  <1>11. WaitingIsHeld'
    BY <1>1, <1>3, <1>6 DEF IInv, WaitingIsHeld, NoneWaits, dispatch_thread
  <1> QED
    BY <1>4, <1>5, <1>7, <1>8, <1>9, <1>10, <1>11 DEF IInv

-----------------------------------------------------------------------------
(***************************************************************************)
(* The dispatcher.                                                         *)
(***************************************************************************)

\* A dispatcher that has ended waits for nothing; the steps that end it.
LEMMA EndKeeps ==
  ASSUME IInv, TypeOK', Connecting', dispatcher' = NoDispatcher, ConnsKept, NoneWaits,
         UNCHANGED <<by_session, left>>, socket' \in {socket, NoConn},
         ~asserted' => /\ ~asserted /\ socket' = NoConn
                       /\ thread' = << >> /\ (~by_session => request' = << >>)
                       /\ InStep => \A q \in Req : pc'[q] # "waiting"
  PROVE  IInv'
  <1>0. TypeOK /\ Connections
    BY DEF IInv
  <1>1. /\ dispatcher'.at = "none" /\ dispatcher'.conn = NoConn
        /\ dispatcher'.token = NoReq /\ dispatcher'.func = NoReq
    BY DEF NoDispatcher
  <1>2. Connections'
    BY <1>0, <1>1, ConnectionsKept
  <1>3. Taken'
    BY <1>1 DEF Taken
  <1>4. ASSUME InStep'
        PROVE  /\ InStep /\ socket' = NoConn /\ thread' = << >>
               /\ ~by_session => request' = << >>
               /\ \A q \in Req : pc'[q] # "waiting"
    BY <1>4 DEF InStep
  <1>5. InStep' => Attached'
    BY <1>4 DEF Attached
  <1>6. InStep' => Paired'
    BY <1>1, <1>4 DEF Paired
  <1>7. AnswerIsOwn'
    BY <1>4 DEF IInv, AnswerIsOwn, NoneWaits
  <1>8. QueuesAligned'
    BY <1>1, <1>4 DEF QueuesAligned
  <1>9. WaitingIsHeld'
    BY <1>4 DEF WaitingIsHeld
  <1> QED
    BY <1>2, <1>3, <1>5, <1>6, <1>7, <1>8, <1>9 DEF IInv

LEMMA FailsQuietly ==
  ASSUME TypeOK, NEW S, Fail(S)
  PROVE  NoneWaits /\ \A q \in Req : pc'[q] = "waiting" => pc[q] = "waiting" /\ q \notin S
  BY DEF TypeOK, Fail, NoneWaits

LEMMA ReadFailsKeeps ==
  ASSUME IInv, TypeOK', Connecting', ReadFails
  PROVE  IInv'
  <1>0. TypeOK /\ Connecting /\ Connections
    BY DEF IInv
  <1>1. /\ CloseSocket /\ socket' = NoConn /\ dispatcher' = NoDispatcher
        /\ UNCHANGED <<by_session, connector, wire, answers, nextConn, left>>
    BY DEF ReadFails, CloseSocket, Cleared, otherVars
  <1>2. ConnsKept
    BY <1>0, <1>1, UsedKept, ClosingKeeps
  <1>3. CASE by_session \/ Awaited(dispatcher.token)
    <2>1. Fail(Reached(thread) \cup ({dispatcher.token} \ {NoReq})) /\ Cleared
      BY <1>3 DEF ReadFails
    <2>2. /\ NoneWaits
          /\ \A q \in Req : pc'[q] = "waiting" =>
               pc[q] = "waiting" /\ q \notin Reached(thread) \cup ({dispatcher.token} \ {NoReq})
      BY <1>0, <2>1, FailsQuietly
    <2>3. ASSUME ~asserted'
          PROVE  /\ ~asserted /\ thread' = << >> /\ (~by_session => request' = << >>)
                 /\ Reached(thread) = ToSet(thread)
      BY <1>0, <2>1, <2>3, ClearedFacts
    <2>4. ASSUME ~asserted', InStep, NEW q \in Req
          PROVE  pc'[q] # "waiting"
      <3>1. pc[q] = "waiting" => q \in ToSet(thread) \/ q = dispatcher.token
        BY <2>4 DEF IInv, WaitingIsHeld
      <3> QED
        BY <2>2, <2>3, <2>4, <3>1 DEF Req, NoReq
    <2> QED
      BY <1>1, <1>2, <2>2, <2>3, <2>4, EndKeeps
  <1>4. CASE ~(by_session \/ Awaited(dispatcher.token))
    <2>1. asserted' = TRUE /\ UNCHANGED <<pc, outcome>>
      BY <1>4 DEF ReadFails
    <2>2. NoneWaits
      BY <2>1 DEF NoneWaits
    <2> QED
      BY <1>1, <1>2, <2>1, <2>2, EndKeeps
  <1> QED
    BY <1>3, <1>4

LEMMA PopTermKeeps ==
  ASSUME IInv, TypeOK', Connecting', PopTerm
  PROVE  IInv'
  <1>0. TypeOK /\ Connecting /\ Connections /\ Taken
    BY DEF IInv
  <1>1. PICK rest : rest = Tail(thread)
    OBVIOUS
  <1>2. /\ dispatcher' = NoDispatcher /\ dispatcher.at = "pop"
        /\ thread # << >> /\ Head(thread) = NoReq
        /\ Fail(Reached(rest)) /\ request' = << >>
        /\ thread' = IF \A i \in DOMAIN rest : Awaited(rest[i]) THEN << >> ELSE rest
        /\ asserted' = (asserted \/ \E i \in DOMAIN rest : ~Awaited(rest[i]))
        /\ UNCHANGED <<by_session, left, socket, connector, conn, wire, answers, buffer, nextConn>>
    BY <1>1 DEF PopTerm, connVars, otherVars
  <1>3. ~by_session /\ dispatcher.token = NoReq
    BY <1>0, <1>2 DEF Taken
  <1>4. /\ rest \in Seq(Req \cup {NoReq}) /\ NoReq \in ToSet(thread)
        /\ \A x \in ToSet(thread) : x = NoReq \/ x \in ToSet(rest)
    BY <1>0, <1>1, <1>2, FirstOf DEF TypeOK
  <1>5. ConnsKept
    BY <1>0, <1>2, UsedKept, ClosingKeeps
  <1>6. /\ NoneWaits
        /\ \A q \in Req : pc'[q] = "waiting" => pc[q] = "waiting" /\ q \notin Reached(rest)
    BY <1>0, <1>2, FailsQuietly
  <1>7. ASSUME ~asserted'
        PROVE  ~asserted /\ thread' = << >> /\ Reached(rest) = ToSet(rest)
    <2>1. \A i \in DOMAIN rest : Awaited(rest[i])
      BY <1>2, <1>7
    <2> QED
      BY <1>2, <1>4, <1>7, <2>1, ReachedAll
  <1>8. ASSUME ~asserted', InStep, NEW q \in Req
        PROVE  pc'[q] # "waiting"
    <2>1. pc[q] = "waiting" => q \in ToSet(thread) \/ q = dispatcher.token
      BY <1>8 DEF IInv, WaitingIsHeld
    <2> QED
      BY <1>3, <1>4, <1>6, <1>7, <1>8, <2>1 DEF Req, NoReq
  <1>9. InStep => socket = NoConn
    BY <1>3, <1>4 DEF IInv, Paired
  <1> QED
    <2>1. CASE InStep
      BY <1>2, <1>5, <1>6, <1>7, <1>8, <1>9, <2>1, EndKeeps
    <2>2. CASE ~InStep
      <3>1. ~InStep'
        BY <1>2, <2>2 DEF InStep
      <3>2. Connections'
        <4>1. dispatcher'.conn = NoConn
          BY <1>2 DEF NoDispatcher
        <4> QED
          BY <1>0, <1>2, <1>5, <4>1, ConnectionsKept
      <3>3. Taken'
        BY <1>2 DEF Taken, NoDispatcher
      <3> QED
        BY <3>1, <3>2, <3>3 DEF IInv, AnswerIsOwn, QueuesAligned, WaitingIsHeld
    <2> QED
      BY <2>1, <2>2

LEMMA AnswerUnawaitedKeeps ==
  ASSUME IInv, TypeOK', Connecting', AnswerUnawaited
  PROVE  IInv'
  <1>0. TypeOK /\ Connecting /\ Connections
    BY DEF IInv
  <1>1. /\ CloseSocket /\ socket' = NoConn /\ dispatcher' = NoDispatcher /\ asserted' = TRUE
        /\ UNCHANGED <<by_session, connector, pc, outcome, wire, answers, nextConn, left>>
    BY DEF AnswerUnawaited, CloseSocket, otherVars
  <1>2. ConnsKept
    BY <1>0, <1>1, UsedKept, ClosingKeeps
  <1>3. NoneWaits
    BY <1>1 DEF NoneWaits
  <1> QED
    BY <1>1, <1>2, <1>3, EndKeeps

\* A sequence is its head and its tail.
LEMMA HeadAndTail ==
  ASSUME NEW S, NEW s \in Seq(S), s # << >>
  PROVE  << Head(s) >> \o Tail(s) = s
  <1>1. << >> \in Seq(S) /\ Append(<< >>, Head(s)) = << Head(s) >> /\ << >> \o s = s
    BY EmptySeq, ConcatEmptySeq
  <1> QED
    BY <1>1, ConcatMove

LEMMA PopKeeps ==
  ASSUME IInv, TypeOK', Connecting', Pop
  PROVE  IInv'
  <1>0. TypeOK /\ Connecting /\ Connections /\ Taken
    BY DEF IInv
  <1>1. /\ dispatcher.at = "pop" /\ thread # << >> /\ Head(thread) # NoReq
        /\ request' = Tail(request) /\ thread' = Tail(thread)
        /\ dispatcher'.at = "read" /\ dispatcher'.conn = socket
        /\ dispatcher'.func = Head(request) /\ dispatcher'.token = Head(thread)
        /\ UNCHANGED <<by_session, socket, connector, pc, outcome, asserted, left,
                       conn, wire, answers, buffer, nextConn>>
    BY DEF Pop, NoDispatcher, connVars, otherVars
  <1>2. ~by_session /\ dispatcher.token = NoReq
    BY <1>0, <1>1 DEF Taken
  <1>3. /\ thread \in Seq(Req \cup {NoReq})
        /\ \A x \in ToSet(thread) : x = Head(thread) \/ x \in ToSet(thread')
        /\ ToSet(thread') \subseteq ToSet(thread)
        /\ << Head(thread) >> \o Tail(thread) = thread
    BY <1>0, <1>1, FirstOf, HeadAndTail DEF TypeOK
  <1>4. ConnsKept
    BY <1>0, <1>1, UsedKept, ClosingKeeps
  <1>5. Connections'
    BY <1>0, <1>1, <1>4, ConnectionsKept
  <1>6. Taken'
    BY <1>1, <1>2 DEF Taken
  <1>7. InStep' = InStep /\ dispatch_thread'
    BY <1>1 DEF InStep, dispatch_thread
  <1>8. Attached'
    BY <1>1, <1>7 DEF Attached
  <1>9. ASSUME InStep
        PROVE  Paired'
    <2>1. CASE socket = NoConn
      BY <1>1, <2>1 DEF Paired
    <2>2. CASE socket # NoConn
      <3>1. NoReq \notin ToSet(thread) /\ Contents(socket) = thread
        BY <1>1, <1>2, <1>9, <2>2 DEF IInv, Paired, Pending
      <3>2. Contents(socket)' = thread
        BY <1>1, <3>1 DEF Contents
      <3>3. Pending' = thread
        BY <1>1, <1>3 DEF Pending
      <3>4. Comes(dispatcher.conn, dispatcher.token)'
        BY <1>1, <3>2 DEF Comes, Contents
      <3> QED
        BY <1>1, <1>3, <3>1, <3>2, <3>3, <3>4 DEF Paired
    <2> QED
      BY <2>1, <2>2
  <1>10. AnswerIsOwn'
    BY <1>1, <1>7 DEF IInv, AnswerIsOwn
  <1>11. QueuesAligned'
    BY <1>1, <1>7 DEF IInv, QueuesAligned
  <1>12. WaitingIsHeld'
    BY <1>1, <1>2, <1>3, <1>7 DEF IInv, WaitingIsHeld, Req, NoReq
  <1> QED
    BY <1>5, <1>6, <1>7, <1>8, <1>9, <1>10, <1>11, <1>12 DEF IInv

LEMMA PopWaitsKeeps ==
  ASSUME IInv, TypeOK', Connecting', PopWaits
  PROVE  IInv'
  <1>0. TypeOK /\ Connecting /\ Connections /\ Taken
    BY DEF IInv
  <1>1. /\ dispatcher.at = "pop" /\ dispatcher'.at = "asleep"
        /\ dispatcher'.conn = dispatcher.conn
        /\ dispatcher'.func = dispatcher.func /\ dispatcher'.token = dispatcher.token
        /\ UNCHANGED <<by_session, socket, connector, request, thread, pc, outcome, asserted, left,
                       conn, wire, answers, buffer, nextConn>>
    BY <1>0 DEF TypeOK, PopWaits, connVars, otherVars
  <1>2. ConnsKept
    BY <1>0, <1>1, UsedKept, ClosingKeeps
  <1>3. Connections'
    BY <1>0, <1>1, <1>2, ConnectionsKept
  <1>4. Taken' /\ InStep' = InStep /\ dispatch_thread' /\ dispatch_thread
    BY <1>0, <1>1 DEF Taken, InStep, dispatch_thread
  <1>5. Attached'
    BY <1>1, <1>4 DEF Attached
  <1>6. ASSUME InStep, ~by_session
        PROVE  Paired'
    <2>1. Pending' = Pending /\ Contents(socket)' = Contents(socket)
      BY <1>1 DEF Pending, Contents
    <2> QED
      BY <1>1, <1>6, <2>1 DEF IInv, Paired
  <1>7. AnswerIsOwn' /\ QueuesAligned'
    BY <1>1, <1>4 DEF IInv, AnswerIsOwn, QueuesAligned
  <1>8. WaitingIsHeld'
    BY <1>1, <1>4 DEF IInv, WaitingIsHeld
  <1> QED
    BY <1>1, <1>3, <1>4, <1>5, <1>6, <1>7, <1>8 DEF IInv

LEMMA ReadsKeeps ==
  ASSUME IInv, TypeOK', Connecting', Reads
  PROVE  IInv'
  <1>0. TypeOK /\ Connecting /\ Connections /\ Taken
    BY DEF IInv
  <1>1. PICK n \in Conn : n = dispatcher.conn /\ buffer[n] # << >>
    BY <1>0 DEF TypeOK, Reads, Readable
  <1>2. /\ dispatcher.at = "read" /\ dispatcher'.at = "got"
        /\ dispatcher'.conn = n /\ dispatcher'.answer = Head(buffer[n])
        /\ dispatcher'.func = dispatcher.func /\ dispatcher'.token = dispatcher.token
        /\ buffer' = [buffer EXCEPT ![n] = Tail(@)]
        /\ UNCHANGED <<by_session, socket, connector, request, thread, pc, outcome, asserted, left,
                       conn, wire, answers, nextConn>>
    BY <1>0, <1>1 DEF TypeOK, Reads, pairVars, otherVars
  <1>3. \A m \in Conn : Used(m)' = Used(m)
    BY <1>2 DEF Used, Opening
  <1>4. \A m \in Conn : m # n => Contents(m)' = Contents(m)
    BY <1>0, <1>2 DEF TypeOK, Contents
  <1>5. Used(n)
    BY <1>0, <1>1 DEF Connections, Conn, NoConn
  <1>6. Contents(n) # << >> /\ Head(Contents(n)) = Head(buffer[n]) /\ Contents(n)' = Tail(Contents(n))
    <2>1. PICK a \in Seq(Req), b \in Seq(Req), c \in Seq(Req) :
            a = buffer[n] /\ b = answers[n] /\ c = wire[n]
      BY <1>0 DEF TypeOK
    <2>2. buffer'[n] = Tail(a)
      BY <1>0, <1>2, <2>1 DEF TypeOK
    <2>3. PICK d \in Seq(Req) : d = b \o c
      BY ConcatProperties
    <2>4. a # << >>
      BY <1>1, <2>1
    <2>5. a \o d # << >> /\ Head(a \o d) = Head(a) /\ Tail(a \o d) = Tail(a) \o d
      BY <2>4, ConcatHead
    <2>6. Contents(n) = a \o d /\ Contents(n)' = Tail(a) \o d
      BY <1>2, <2>1, <2>2, <2>3 DEF Contents
    <2> QED
      BY <2>1, <2>5, <2>6
  <1>7. ConnsKept
    BY <1>0, <1>2, <1>3, <1>4, <1>5 DEF ConnsKept, Connections
  <1>8. Connections'
    BY <1>0, <1>1, <1>2, <1>7, ConnectionsKept
  <1>9. Taken' /\ InStep' = InStep /\ dispatch_thread'
    BY <1>0, <1>2 DEF Taken, InStep, dispatch_thread
  <1>10. InStep => Attached'
    BY <1>1, <1>2, <1>9 DEF IInv, Attached
  <1>11. ASSUME InStep, ~by_session
         PROVE  Paired'
    <2>1. Paired /\ Attached
      BY <1>11 DEF IInv
    <2>2. ASSUME socket # NoConn
          PROVE  NoReq \notin ToSet(thread') /\ Contents(socket)' = Pending'
      <3>1. n = socket /\ n = socket'
        BY <1>1, <1>2, <2>1, <2>2 DEF Attached
      <3>2. Contents(n) = << dispatcher.token >> \o thread /\ NoReq \notin ToSet(thread)
        BY <1>2, <2>1, <2>2, <3>1 DEF Paired, Pending, Contents
      <3>3. Tail(<< dispatcher.token >> \o thread) = thread
        <4>1. PICK t \in Req \cup {NoReq}, s \in Seq(Req \cup {NoReq}) :
                t = dispatcher.token /\ s = thread
          BY <1>0 DEF TypeOK
        <4>2. /\ << t >> \in Seq(Req \cup {NoReq}) /\ << t >> # << >>
              /\ Tail(<< t >>) = << >> /\ << >> \o s = s
          BY ConcatEmptySeq
        <4>3. Tail(<< t >> \o s) = Tail(<< t >>) \o s
          BY <4>2, ConcatHead
        <4> QED
          BY <4>1, <4>2, <4>3
      <3>4. Contents(socket)' = Contents(n)'
        BY <3>1 DEF Contents
      <3>5. Pending' = thread
        BY <1>2 DEF Pending
      <3>6. Contents(n)' = thread
        BY <1>6, <3>2, <3>3
      <3>7. NoReq \notin ToSet(thread')
        BY <1>2, <3>2
      <3> QED
        BY <3>4, <3>5, <3>6, <3>7
    <2>3. dispatcher'.answer = dispatcher'.token
      <3>1. Comes(dispatcher.conn, dispatcher.token)
        BY <1>1, <1>2, <2>1 DEF Paired, Conn, NoConn
      <3> QED
        BY <1>1, <1>2, <1>6, <3>1 DEF Comes, Contents
    <2> QED
      BY <1>2, <2>2, <2>3 DEF Paired
  <1>12. AnswerIsOwn' /\ QueuesAligned'
    BY <1>2, <1>9 DEF IInv, AnswerIsOwn, QueuesAligned
  <1>13. WaitingIsHeld'
    BY <1>2, <1>9 DEF IInv, WaitingIsHeld
  <1> QED
    BY <1>2, <1>8, <1>9, <1>10, <1>11, <1>12, <1>13 DEF IInv

\* The dispatcher goes on, or ends with the connection.
LEMMA LoopsFacts ==
  ASSUME NEW queue, Loops(queue)
  PROVE  /\ dispatcher'.token = NoReq /\ dispatcher'.func = NoReq
         /\ socket = NoConn => dispatcher'.at = "none" /\ dispatcher'.conn = NoConn
         /\ socket # NoConn /\ by_session => dispatcher'.at = "read" /\ dispatcher'.conn = socket
         /\ socket # NoConn /\ ~by_session => dispatcher'.at = "pop" /\ dispatcher'.conn = NoConn
         /\ ~left' => ~left /\ (socket = NoConn => queue = << >>)
  BY DEF Loops, NoDispatcher, Popping

LEMMA AnswerByOrderKeeps ==
  ASSUME IInv, TypeOK', Connecting', AnswerByOrder
  PROVE  IInv'
  <1>0. TypeOK /\ Connecting /\ Connections /\ Taken
    BY DEF IInv
  <1>1. /\ dispatcher.at = "got" /\ ~by_session /\ Loops(thread)
        /\ Answer(dispatcher.token, dispatcher.answer)
        /\ UNCHANGED <<by_session, socket, connector, request, thread, asserted,
                       conn, wire, answers, buffer, nextConn>>
    BY DEF AnswerByOrder, pairVars, connVars, otherVars
  <1>2. /\ dispatcher'.token = NoReq /\ dispatcher'.func = NoReq
        /\ socket = NoConn => dispatcher'.at = "none" /\ dispatcher'.conn = NoConn
        /\ socket # NoConn => dispatcher'.at = "pop" /\ dispatcher'.conn = NoConn
        /\ ~left' => ~left /\ (socket = NoConn => thread = << >>)
    BY <1>1, LoopsFacts
  <1>3. ConnsKept
    BY <1>0, <1>1, UsedKept, ClosingKeeps
  <1>4. Connections'
    BY <1>0, <1>1, <1>2, <1>3, ConnectionsKept
  <1>5. Taken'
    BY <1>1, <1>2 DEF Taken
  <1>6. ASSUME InStep'
        PROVE  InStep /\ (socket = NoConn => thread = << >>) /\ Paired
    BY <1>1, <1>2, <1>6 DEF IInv, InStep
  <1>7. InStep' => Attached'
    BY <1>1, <1>2, <1>6 DEF Attached, dispatch_thread
  <1>8. ASSUME InStep'
        PROVE  Paired'
    <2>1. Pending = thread /\ Pending' = thread /\ Contents(socket)' = Contents(socket)
      BY <1>1, <1>2 DEF Pending, Contents
    <2> QED
      BY <1>1, <1>2, <1>6, <1>8, <2>1 DEF Paired
  <1>9. PICK t \in Req \cup {NoReq} : t = dispatcher.token
    BY <1>0 DEF TypeOK
  <1>10. \A q \in Req : /\ pc'[q] = "waiting" => pc[q] = "waiting" /\ q # t
                        /\ q # t => outcome'[q] = outcome[q]
                        /\ q = t => outcome'[q].answer = dispatcher.answer
    BY <1>0, <1>1, <1>9 DEF TypeOK, Answer
  <1>11. AnswerIsOwn'
    <2> SUFFICES ASSUME InStep', NEW q \in Req, outcome'[q].is = "ok"
                 PROVE  outcome'[q].answer = q
      BY DEF AnswerIsOwn
    <2>1. dispatcher.answer = t
      BY <1>1, <1>6, <1>9 DEF Paired
    <2>2. CASE q = t
      BY <1>10, <2>1, <2>2
    <2>3. CASE q # t
      BY <1>6, <1>10, <2>3 DEF IInv, AnswerIsOwn
    <2> QED
      BY <2>2, <2>3
  <1>12. QueuesAligned'
    BY <1>1, <1>2, <1>6 DEF IInv, QueuesAligned
  <1>13. WaitingIsHeld'
    <2> SUFFICES ASSUME InStep', NEW q \in Req, pc'[q] = "waiting"
                 PROVE  dispatch_thread' /\ q \in ToSet(thread')
      BY DEF WaitingIsHeld
    <2>1. q \in ToSet(thread)
      BY <1>6, <1>9, <1>10 DEF IInv, WaitingIsHeld
    <2>2. thread # << >>
      BY <2>1 DEF ToSet
    <2> QED
      BY <1>1, <1>2, <1>6, <2>1, <2>2 DEF dispatch_thread
  <1> QED
    BY <1>1, <1>4, <1>5, <1>7, <1>8, <1>11, <1>12, <1>13 DEF IInv

LEMMA AnswerBySessionKeeps ==
  ASSUME IInv, TypeOK', Connecting', AnswerBySession
  PROVE  IInv'
  <1>0. TypeOK /\ Connecting /\ Connections /\ Taken
    BY DEF IInv
  <1>1. PICK a \in Req \cup {NoReq} : a = dispatcher.answer
    BY <1>0 DEF TypeOK
  <1>2. /\ by_session /\ Loops(thread') /\ dispatcher.token = NoReq
        /\ UNCHANGED <<by_session, socket, connector, asserted,
                       conn, wire, answers, buffer, nextConn>>
    BY <1>0 DEF AnswerBySession, Taken, connVars, otherVars
  <1>3. \/ /\ \E i \in DOMAIN thread : thread[i] = a /\ thread' = RemoveAt(thread, i)
           /\ Answer(a, a)
        \/ UNCHANGED <<thread, pc, outcome>>
    BY <1>1 DEF AnswerBySession
  <1>4. /\ dispatcher'.token = NoReq /\ dispatcher'.func = NoReq
        /\ socket = NoConn => dispatcher'.at = "none" /\ dispatcher'.conn = NoConn
        /\ socket # NoConn => dispatcher'.at = "read" /\ dispatcher'.conn = socket
        /\ ~left' => ~left /\ (socket = NoConn => thread' = << >>)
    BY <1>2, LoopsFacts
  <1>5. ConnsKept
    BY <1>0, <1>2, UsedKept, ClosingKeeps
  <1>6. Connections'
    BY <1>0, <1>2, <1>4, <1>5, ConnectionsKept
  <1>7. Taken'
    BY <1>4 DEF Taken
  <1>8. InStep' => InStep /\ (socket = NoConn => thread' = << >>)
    BY <1>2, <1>4 DEF InStep
  <1>9. InStep' => Attached'
    BY <1>2, <1>4, <1>8 DEF Attached, dispatch_thread
  <1>10. \A q \in Req :
           /\ pc'[q] = "waiting" => pc[q] = "waiting" /\ (q \in ToSet(thread) => q \in ToSet(thread'))
           /\ outcome'[q] = outcome[q] \/ outcome'[q].answer = q
    <2>1. CASE UNCHANGED <<thread, pc, outcome>>
      BY <2>1
    <2>2. ASSUME NEW i \in DOMAIN thread, thread[i] = a, thread' = RemoveAt(thread, i), Answer(a, a),
                 NEW q \in Req
          PROVE  /\ pc'[q] = "waiting" =>
                      pc[q] = "waiting" /\ (q \in ToSet(thread) => q \in ToSet(thread'))
                 /\ outcome'[q] = outcome[q] \/ outcome'[q].answer = q
      <3>1. thread \in Seq(Req \cup {NoReq}) /\ i \in 1 .. Len(thread)
        BY <1>0, LenProperties DEF TypeOK
      <3>2. \A x \in ToSet(thread) : x = a \/ x \in ToSet(thread')
        BY <2>2, <3>1, RemoveAtFacts
      <3>3. /\ pc'[q] = "waiting" => pc[q] = "waiting" /\ q # a
            /\ outcome'[q] = outcome[q] \/ outcome'[q].answer = q
        BY <1>0, <2>2 DEF TypeOK, Answer
      <3> QED
        BY <3>2, <3>3
    <2> QED
      BY <1>3, <2>1, <2>2
  <1>11. AnswerIsOwn'
    BY <1>8, <1>10 DEF IInv, AnswerIsOwn
  <1>12. QueuesAligned' /\ ~(~by_session')
    BY <1>2 DEF QueuesAligned
  <1>13. WaitingIsHeld'
    <2> SUFFICES ASSUME InStep', NEW q \in Req, pc'[q] = "waiting"
                 PROVE  dispatch_thread' /\ q \in ToSet(thread')
      BY DEF WaitingIsHeld
    <2>1. q \in ToSet(thread)
      BY <1>2, <1>8, <1>10 DEF IInv, WaitingIsHeld, Req, NoReq
    <2>2. q \in ToSet(thread') /\ thread' # << >>
      BY <1>10, <2>1 DEF ToSet
    <2> QED
      BY <1>4, <1>8, <2>2 DEF dispatch_thread
  <1> QED
    BY <1>6, <1>7, <1>9, <1>11, <1>12, <1>13 DEF IInv

-----------------------------------------------------------------------------
(***************************************************************************)
(* The theorems.                                                           *)
(***************************************************************************)

LEMMA InvInit == Init => IInv
  <1> SUFFICES ASSUME Init PROVE IInv
    OBVIOUS
  <1>1. TypeOK
    BY TypeInit
  <1>2. Connecting
    BY DEF Init, Connecting
  <1>3. \A n \in Conn : Contents(n) = << >>
    BY <1>1, ContentsType DEF Init
  <1>4. Connections
    BY <1>3 DEF Init, Connections, NoDispatcher
  <1>5. Taken
    BY DEF Init, Taken, NoDispatcher
  <1>6. Attached
    BY DEF Init, Attached, dispatch_thread, NoDispatcher
  <1>7. Paired
    BY DEF Init, Paired, NoDispatcher
  <1>8. AnswerIsOwn
    BY DEF Init, AnswerIsOwn, NoOutcome
  <1>9. QueuesAligned
    BY DEF Init, QueuesAligned, NoDispatcher
  <1>10. WaitingIsHeld
    BY DEF Init, WaitingIsHeld
  <1> QED
    BY <1>1, <1>2, <1>4, <1>5, <1>6, <1>7, <1>8, <1>9, <1>10 DEF IInv

LEMMA InvNext == IInv /\ [Next]_vars => IInv'
  <1> SUFFICES ASSUME IInv, [Next]_vars PROVE IInv'
    OBVIOUS
  <1>1. CASE Next
    <2>1. TypeOK' /\ Connecting'
      BY <1>1, TypeNext, ConnectingNext DEF IInv
    <2>2. ASSUME NEW r \in Req, Enters(r) \/ Messages(r)
          PROVE  IInv'
      BY <2>1, <2>2, EntersKeeps
    <2>3. ASSUME NEW r \in Req, Continues(r)
          PROVE  IInv'
      BY <2>1, <2>3, OpensKeeps, ReturnsKeeps, WriteKeeps, WriteFailsKeeps DEF Continues
    <2>4. CASE Dispatches
      BY <2>1, <2>4, PopKeeps, PopTermKeeps, PopWaitsKeeps, ReadsKeeps, AnswerByOrderKeeps,
         AnswerUnawaitedKeeps, AnswerBySessionKeeps, ReadFailsKeeps DEF Dispatches
    <2>5. CASE Close
      BY <2>1, <2>5, CloseKeeps
    <2>6. CASE \/ ChangeHost
               \/ \E n \in Conn : Serve(n) \/ Breaks(n) \/ DataArrives(n) \/ CloseArrives(n)
               \/ TurnSettles \/ TurnEnds
      BY <2>1, <2>6, ElseKeeps
    <2> QED
      BY <1>1, <2>2, <2>3, <2>4, <2>5, <2>6 DEF Next
  <1>2. CASE UNCHANGED vars
    <2>1. UNCHANGED <<closed, socket, connecting, connector, dispatcher, request, thread,
                      wait_response, pc, outcome, conn, wire, answers, buffer, nextConn,
                      by_session, closes, turn, asserted, left>>
      BY <1>2 DEF vars, pairVars, connVars, otherVars
    <2>2. TypeOK' /\ Connecting'
      BY <2>1 DEF IInv, TypeOK, Connecting, Opening
    <2>3. ConnsKept /\ PairsKept
      BY <2>1, UsedKept, ClosingKeeps DEF IInv
    <2>4. NoneWaits
      BY <2>1 DEF NoneWaits
    <2> QED
      BY <2>1, <2>2, <2>3, <2>4, QuietKeeps
  <1> QED
    BY <1>1, <1>2

\* The queues of the channel are in step, and everyone who waits for an answer
\* is known to a dispatcher, however many requests there are and however often
\* the connection is lost (push_response, pop_response, wakeup_all).
THEOREM ChannelCorrect == Spec => []ChannelInv
  <1>1. IInv => ChannelInv
    BY DEF IInv, ChannelInv
  <1> QED
    BY <1>1, InvInit, InvNext, PTL DEF Spec

\* A request that succeeds gets its own answer, over whatever connections
\* (dispatch_by_order, dispatch_by_session).
THEOREM AnswersAreOwn == Spec => []AnswerIsOwn
  <1>1. IInv => AnswerIsOwn
    BY DEF IInv
  <1> QED
    BY <1>1, InvInit, InvNext, PTL DEF Spec
=============================================================================
