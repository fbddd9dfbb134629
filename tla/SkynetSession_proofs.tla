------------------------ MODULE SkynetSession_proofs ------------------------
(***************************************************************************)
(* Proofs about SkynetSession, for any services, sessions and bounds.      *)
(*                                                                         *)
(* A promise is settled by a session alone.  That no call is settled by    *)
(* the answer to another one rests on where sessions come from: the core   *)
(* never allocates one twice to a service (Allocation), the caller's maps  *)
(* follow its calls (Books), and whatever carries a session - a message,   *)
(* a handler, an entry of the callee's maps - stems from a call with that  *)
(* session to that callee (Origins).                                       *)
(*                                                                         *)
(* The last part proves that SkynetSession implements RpcCall.             *)
(***************************************************************************)
EXTENDS SkynetSessionRefinement, SequenceTheorems, WellFoundedInduction, TLAPS

\* c has called d with session n.
Called(c, n, d) ==
  \E i \in CallId : call[c][i].session = n /\ call[c][i].addr = d

\* The messages that may be in the mailbox of s.
Good(s) ==
  {m \in Message :
     /\ m.session = 0 => m.type = "ERROR"
     /\ m.session # 0 /\ m.type = "REQUEST" => Called(m.source, m.session, s)
     /\ m.session # 0 /\ m.type # "REQUEST" => Called(s, m.session, m.source)}

\* The calls of a service are made in order, each with the next session.
Allocation ==
  \A c \in Service, i \in CallId :
    /\ Idle(c, i) => nextSession[c] = FirstSession[c] + i - 1
    /\ call[c][i].state = "idle" =>
         /\ call[c][i].session = 0
         /\ \A j \in CallId : i < j => call[c][j].state = "idle"
    /\ call[c][i].session \in {0, FirstSession[c] + i - 1}

\* session_id_callback names the waiting calls and no others.
Registered ==
  /\ \A c \in Service, n \in Key :
       session_id_callback[c][n] # NoCall =>
         /\ call[c][session_id_callback[c][n]].state = "waiting"
         /\ call[c][session_id_callback[c][n]].session = n
  /\ \A c \in Service, i \in CallId :
       call[c][i].state = "waiting" /\ call[c][i].session # 0 =>
         session_id_callback[c][call[c][i].session] = i

\* watching_request has the callee of a waiting call, and none of a finished.
Watches ==
  \A c \in Service, i \in CallId :
    /\ Waiting(c, i) => watching_request[c][call[c][i].session] = call[c][i].addr
    /\ call[c][i].session # 0 /\ call[c][i].state \in {"returned", "failed"} =>
         watching_request[c][call[c][i].session] = NoAddr

\* Everything that carries a session stems from a call.
Origins ==
  /\ \A s \in Service : mailbox[s] \in Seq(Good(s))
  /\ \A s \in Service, r \in Request : handler[s][r] # "none" => Called(r[1], r[2], s)
  /\ \A s \in Service, n \in Session :
       watching_response[s][n] # NoAddr => Called(watching_response[s][n], n, s)
  /\ \A s \in Service : \A r \in unresponse[s] : Called(r[1], r[2], s)

IInv == TypeOK /\ Allocation /\ Registered /\ Watches /\ Origins

-----------------------------------------------------------------------------
(***************************************************************************)
(* Mailboxes.                                                              *)
(***************************************************************************)

\* A message that is posted is the only new one (Posted).
LEMMA PostedFacts ==
  ASSUME NEW box \in [Service -> Seq(Message)], NEW G, NEW x \in Service,
         NEW m \in Message, m \in G[x],
         \A s \in Service : box[s] \in Seq(G[s])
  PROVE  /\ Posted(box, x, m) \in [Service -> Seq(Message)]
         /\ \A s \in Service : Posted(box, x, m)[s] \in Seq(G[s])
  <1>1. CASE Accepts(x)
    <2>1. Append(box[x], m) \in Seq(Message) /\ Append(box[x], m) \in Seq(G[x])
      BY AppendProperties
    <2>2. Posted(box, x, m) = [box EXCEPT ![x] = Append(box[x], m)]
      BY <1>1 DEF Posted
    <2> QED
      BY <2>1, <2>2
  <1>2. CASE ~Accepts(x)
    BY <1>2 DEF Posted
  <1> QED
    BY <1>1, <1>2

\* What is taken from a mailbox comes from it (Popped, Head).
LEMMA PoppedFacts ==
  ASSUME NEW G, NEW s \in Service, mailbox[s] # << >>,
         mailbox \in [Service -> Seq(Message)],
         \A x \in Service : mailbox[x] \in Seq(G[x])
  PROVE  /\ Popped(s) \in [Service -> Seq(Message)]
         /\ \A x \in Service : Popped(s)[x] \in Seq(G[x])
         /\ Head(mailbox[s]) \in G[s]
         /\ Head(mailbox[s]) \in Message
  <1>1. /\ Head(mailbox[s]) \in G[s] /\ Tail(mailbox[s]) \in Seq(G[s])
        /\ Head(mailbox[s]) \in Message /\ Tail(mailbox[s]) \in Seq(Message)
    BY HeadTailProperties
  <1>2. Popped(s) = [mailbox EXCEPT ![s] = Tail(mailbox[s])]
    BY DEF Popped
  <1> QED
    BY <1>1, <1>2

-----------------------------------------------------------------------------
(***************************************************************************)
(* What is called stays called.                                            *)
(***************************************************************************)

\* A step after which every call has the session and the callee it had.
CallsStay ==
  \A c \in Service, i \in CallId :
    call[c][i].session # 0 =>
      call'[c][i].session = call[c][i].session /\ call'[c][i].addr = call[c][i].addr

\* A call that was made stays made.
LEMMA CalledStays ==
  ASSUME CallsStay, NEW c \in Service, NEW n, n # 0, NEW d, Called(c, n, d)
  PROVE  Called(c, n, d)'
  BY DEF CallsStay, Called

\* A message that was in order stays in order.
LEMMA GoodStays ==
  ASSUME CallsStay, NEW s \in Service
  PROVE  Good(s) \subseteq Good(s)'
  <1> SUFFICES ASSUME NEW m \in Good(s)
               PROVE  m \in Good(s)'
    OBVIOUS
  <1>1. m \in Message /\ m.source \in Service
    BY DEF Good, Message
  <1>2. m.session # 0 /\ m.type = "REQUEST" => Called(m.source, m.session, s)'
    BY <1>1, CalledStays DEF Good
  <1>3. m.session # 0 /\ m.type # "REQUEST" => Called(s, m.session, m.source)'
    BY CalledStays DEF Good
  <1>4. m.session = 0 => m.type = "ERROR"
    BY DEF Good
  <1> QED
    BY <1>1, <1>2, <1>3, <1>4 DEF Good

\* The messages that were in order stay so.
LEMMA MailStays ==
  ASSUME CallsStay, NEW s \in Service, NEW q \in Seq(Good(s))
  PROVE  q \in Seq(Good(s)')
  BY GoodStays, SeqMonotonic

\* A step of a service as a callee, or of the core, leaves its calls alone.
LEMMA CallerKept ==
  ASSUME IInv, UNCHANGED callerVars,
         \A s \in Service : status'[s] = "up" => status[s] = "up"
  PROVE  CallsStay /\ Allocation' /\ Registered' /\ Watches'
  <1> USE DEF callerVars
  <1>1. CallsStay
    BY DEF CallsStay
  <1>2. Allocation'
    BY DEF IInv, Allocation, Idle
  <1>3. Registered'
    BY DEF IInv, Registered
  <1>4. Watches'
    BY DEF IInv, Watches, Waiting
  <1> QED
    BY <1>1, <1>2, <1>3, <1>4

\* What the callees have on their books still stems from calls.
LEMMA OriginsKept ==
  ASSUME IInv, TypeOK', CallsStay,
         \A s \in Service : mailbox'[s] \in Seq(Good(s)'),
         \A s \in Service, r \in Request :
           handler'[s][r] # "none" => handler[s][r] # "none" \/ Called(r[1], r[2], s),
         \A s \in Service, n \in Session :
           watching_response'[s][n] # NoAddr =>
             \/ watching_response'[s][n] = watching_response[s][n]
             \/ Called(watching_response'[s][n], n, s),
         \A s \in Service : \A r \in unresponse'[s] :
           r \in unresponse[s] \/ Called(r[1], r[2], s)
  PROVE  Origins'
  <1> USE DEF IInv
  <1>1. ASSUME NEW s \in Service, NEW r \in Request, handler'[s][r] # "none"
        PROVE  Called(r[1], r[2], s)'
    <2>1. Called(r[1], r[2], s) /\ r[1] \in Service /\ r[2] # 0
      BY <1>1 DEF Origins, Session, Request
    <2> QED
      BY <2>1, CalledStays
  <1>2. ASSUME NEW s \in Service, NEW n \in Session, watching_response'[s][n] # NoAddr
        PROVE  Called(watching_response[s][n], n, s)'
    <2>1. Called(watching_response'[s][n], n, s) /\ n # 0
      BY <1>2 DEF Origins, Session
    <2>2. watching_response'[s][n] \in Service
      BY <1>2 DEF TypeOK
    <2> QED
      BY <2>1, <2>2 DEF Called, CallsStay
  <1>3. ASSUME NEW s \in Service, NEW r \in unresponse'[s]
        PROVE  Called(r[1], r[2], s)'
    <2>1. r[1] \in Service /\ r[2] # 0
      BY SMTT(30) DEF TypeOK, Request, Session
    <2>2. Called(r[1], r[2], s)
      BY DEF Origins
    <2> QED
      BY <2>1, <2>2, CalledStays
  <1> QED
    BY <1>1, <1>2, <1>3 DEF Origins

-----------------------------------------------------------------------------
(***************************************************************************)
(* The steps of a caller.                                                  *)
(***************************************************************************)

\* The next session is one that no call of c has.
LEMMA FreshSession ==
  ASSUME IInv, NEW c \in Service, NEW i \in CallId, Idle(c, i)
  PROVE  /\ nextSession[c] = FirstSession[c] + i - 1
         /\ nextSession[c] \in Session
         /\ FirstSession[c] \in Session
         /\ call[c][i].session = 0
  <1>1. nextSession[c] = FirstSession[c] + i - 1 /\ call[c][i].session = 0
    BY DEF IInv, Allocation, Idle
  <1> QED
    BY <1>1, BoundAssumption DEF Session, CallId

\* call(): the new session is one that no other call has.
LEMMA CallStep ==
  ASSUME IInv, NEW c \in Service, NEW d \in Service, Call(c, d)
  PROVE  IInv'
  <1>1. PICK i \in CallId : Call(c, d)!(i)
    BY DEF Call
  <1>2. /\ nextSession[c] = FirstSession[c] + i - 1
        /\ nextSession[c] \in Session
        /\ FirstSession[c] \in Nat
        /\ call[c][i].session = 0
        /\ Idle(c, i)
    BY <1>1, FreshSession DEF Session
  <1>3. PICK n \in Key : n = IF Accepts(d) THEN nextSession[c] ELSE 0
    <2>1. 0 \in Key /\ nextSession[c] \in Key
      BY <1>2, BoundAssumption DEF Key, Session
    <2>2. (IF Accepts(d) THEN nextSession[c] ELSE 0) \in Key
      BY <2>1
    <2> QED
      BY <2>2
  <1> DEFINE m == [type |-> "REQUEST", session |-> n, source |-> c]
  <1>4. /\ nextSession' = [nextSession EXCEPT ![c] = @ + 1]
        /\ mailbox' = Posted(mailbox, d, m)
        /\ session_id_callback' = [session_id_callback EXCEPT ![c][n] = i]
        /\ watching_request' = [watching_request EXCEPT ![c][n] = d]
        /\ call' = [call EXCEPT ![c][i] = [state |-> "waiting", session |-> n, addr |-> d]]
        /\ UNCHANGED <<status, rest, watching_response, unresponse, handler, tail, excused>>
    BY <1>1, <1>3 DEF Post, calleeVars
  <1>5. TypeOK /\ call \in [Service -> [CallId -> CallFrame]]
    BY DEF IInv, TypeOK
  <1>6. /\ call' \in [Service -> [CallId -> CallFrame]]
        /\ call'[c][i] = [state |-> "waiting", session |-> n, addr |-> d]
        /\ \A e \in Service, j \in CallId : <<e, j>> # <<c, i>> => call'[e][j] = call[e][j]
    BY <1>4, <1>5 DEF CallFrame, CallState
  <1>7. CallsStay
    BY <1>2, <1>6 DEF CallsStay
  <1>8. Called(c, n, d)'
    BY <1>6 DEF Called
  <1>9. /\ mailbox' \in [Service -> Seq(Message)]
        /\ \A s \in Service : mailbox'[s] \in Seq(Good(s)')
    <2>1. \A s \in Service : mailbox[s] \in Seq(Good(s)')
      BY <1>7, MailStays DEF IInv, Origins
    <2>2. CASE ~Accepts(d)
      BY <1>4, <1>5, <2>1, <2>2 DEF Posted, TypeOK
    <2>3. CASE Accepts(d)
      <3>1. n # 0 /\ m \in Message
        BY <2>3, <1>2, <1>3 DEF Session, Message
      <3>2. m \in Good(d)'
        BY <3>1, <1>8 DEF Good
      <3> DEFINE G == [s \in Service |-> Good(s)']
      <3>3. /\ Posted(mailbox, d, m) \in [Service -> Seq(Message)]
            /\ \A s \in Service : Posted(mailbox, d, m)[s] \in Seq(G[s])
        BY <1>5, <2>1, <3>1, <3>2, PostedFacts DEF TypeOK
      <3> QED
        BY <1>4, <3>3
    <2> QED
      BY <2>2, <2>3
  <1>10. TypeOK'
    BY <1>2, <1>4, <1>5, <1>6, <1>9, SMTT(30) DEF TypeOK
  <1>11. /\ nextSession'[c] = FirstSession[c] + i
         /\ \A e \in Service : e # c => nextSession'[e] = nextSession[e]
    BY <1>2, <1>4, <1>5 DEF TypeOK, CallId
  <1>12. Allocation'
    <2> SUFFICES ASSUME NEW e \in Service, NEW k \in CallId
                 PROVE  /\ Idle(e, k)' => nextSession'[e] = FirstSession[e] + k - 1
                        /\ call'[e][k].state = "idle" =>
                             /\ call'[e][k].session = 0
                             /\ \A j \in CallId : k < j => call'[e][j].state = "idle"
                        /\ call'[e][k].session \in {0, FirstSession[e] + k - 1}
      BY DEF Allocation
    <2>1. CASE e # c
      <3>1. nextSession'[e] = nextSession[e] /\ \A j \in CallId : call'[e][j] = call[e][j]
        BY <2>1, <1>6, <1>11
      <3> QED
        BY <3>1 DEF IInv, Allocation, Idle
    <2>2. CASE e = c
      <3>1. \A j \in CallId : i < j => call[c][j].state = "idle" /\ call[c][j].session = 0
        BY <1>2 DEF IInv, Allocation, Idle
      <3>2. \A j \in CallId : j < i => call[c][j].state # "idle"
        BY <1>2 DEF Idle
      <3>3. call'[e][k].state = "idle" => i < k
        BY <2>2, <3>2, <1>6 DEF CallId
      <3>4. ASSUME Idle(e, k)'
            PROVE  k = i + 1
        <4>1. i < k /\ \A j \in CallId : j < k => call'[c][j].state # "idle"
          BY <2>2, <3>3, <3>4 DEF Idle
        <4>2. i + 1 \in CallId /\ i + 1 # i
          BY <4>1, BoundAssumption DEF CallId
        <4>3. call'[c][i + 1].state = "idle"
          BY <4>2, <3>1, <1>6 DEF CallId
        <4> QED
          BY <4>1, <4>2, <4>3 DEF CallId
      <3>5. Idle(e, k)' => nextSession'[e] = FirstSession[e] + k - 1
        BY <2>2, <3>4, <1>2, <1>11 DEF CallId
      <3>6. call'[e][k].session \in {0, FirstSession[e] + k - 1}
        BY <2>2, <1>3, <1>2, <1>6 DEF IInv, Allocation
      <3> QED
        BY <2>2, <3>1, <3>3, <3>5, <3>6, <1>6 DEF CallId
    <2> QED
      BY <2>1, <2>2
  \* No other call of c has the session n, unless it failed as this one did.
  <1>13. \A j \in CallId : j # i /\ call[c][j].session # 0 => call[c][j].session # n
    BY <1>2, <1>3 DEF IInv, Allocation, CallId
  <1>14. Registered'
    <2>1. /\ session_id_callback'[c][n] = i
          /\ \A e \in Service, k \in Key :
               <<e, k>> # <<c, n>> => session_id_callback'[e][k] = session_id_callback[e][k]
      BY <1>4, <1>5 DEF TypeOK
    <2>2. ASSUME NEW e \in Service, NEW k \in Key, session_id_callback'[e][k] # NoCall
          PROVE  /\ call'[e][session_id_callback'[e][k]].state = "waiting"
                 /\ call'[e][session_id_callback'[e][k]].session = k
      <3>1. CASE <<e, k>> = <<c, n>>
        BY <3>1, <2>1, <1>6
      <3>2. CASE <<e, k>> # <<c, n>>
        <4> DEFINE j == session_id_callback[e][k]
        <4>1. session_id_callback'[e][k] = j /\ j \in CallId
          BY <3>2, <2>1, <2>2, <1>5 DEF TypeOK
        <4>2. call[e][j].state = "waiting" /\ call[e][j].session = k
          BY <2>2, <4>1 DEF IInv, Registered
        <4>3. call'[e][j] = call[e][j]
          BY <4>1, <4>2, <1>2, <1>6 DEF Idle
        <4> QED
          BY <4>1, <4>2, <4>3
      <3> QED
        BY <3>1, <3>2
    <2>3. ASSUME NEW e \in Service, NEW j \in CallId,
                 call'[e][j].state = "waiting", call'[e][j].session # 0
          PROVE  session_id_callback'[e][call'[e][j].session] = j
      <3>1. CASE <<e, j>> = <<c, i>>
        BY <3>1, <2>1, <1>6
      <3>2. CASE <<e, j>> # <<c, i>>
        <4>1. call'[e][j] = call[e][j] /\ call[e][j].session \in Key
          BY <3>2, <1>5, <1>6 DEF CallFrame
        <4>2. session_id_callback[e][call[e][j].session] = j
          BY <2>3, <4>1 DEF IInv, Registered
        <4> QED
          BY <2>1, <2>3, <3>2, <4>1, <4>2, <1>13
      <3> QED
        BY <3>1, <3>2
    <2> QED
      BY <2>2, <2>3 DEF Registered
  <1>15. Watches'
    <2>1. /\ watching_request'[c][n] = d
          /\ \A e \in Service, k \in Key :
               <<e, k>> # <<c, n>> => watching_request'[e][k] = watching_request[e][k]
      BY <1>4, <1>5 DEF TypeOK
    <2> SUFFICES ASSUME NEW e \in Service, NEW j \in CallId
                 PROVE  /\ Waiting(e, j)' =>
                             watching_request'[e][call'[e][j].session] = call'[e][j].addr
                        /\ call'[e][j].session # 0 /\ call'[e][j].state \in {"returned", "failed"} =>
                             watching_request'[e][call'[e][j].session] = NoAddr
      BY DEF Watches
    <2>2. CASE <<e, j>> = <<c, i>>
      BY <2>1, <2>2, <1>6
    <2>3. CASE <<e, j>> # <<c, i>>
      <3>1. call'[e][j] = call[e][j] /\ call[e][j].session \in Key
        BY <2>3, <1>5, <1>6 DEF CallFrame
      <3>2. call[e][j].session # 0 =>
              watching_request'[e][call[e][j].session] = watching_request[e][call[e][j].session]
        BY <2>1, <2>3, <3>1, <1>13
      <3> QED
        BY <3>1, <3>2, <1>4 DEF IInv, Watches, Waiting
    <2> QED
      BY <2>2, <2>3
  <1>16. Origins'
    BY <1>4, <1>7, <1>9, <1>10, OriginsKept
  <1> QED
    BY <1>10, <1>12, <1>14, <1>15, <1>16 DEF IInv

\* A step in which calls of s whose sessions are in K change their state, and
\* the entries of K leave the maps.
Settles(s, K) ==
  /\ UNCHANGED nextSession
  /\ \A e \in Service : status'[e] = "up" => status[e] = "up"
  /\ \A e \in Service, j \in CallId :
       /\ call'[e][j].session = call[e][j].session
       /\ call'[e][j].addr = call[e][j].addr
       /\ \/ call'[e][j].state = call[e][j].state
          \/ /\ e = s /\ call[s][j].session \in K
             /\ call[s][j].state # "idle"
             /\ call'[s][j].state \notin {"idle", "waiting"}
       /\ call'[e][j].state \in {"returned", "failed"} =>
            \/ call[e][j].state = call'[e][j].state
            \/ watching_request'[e][call[e][j].session] = NoAddr
  /\ \A j \in CallId : call[s][j].session \in K \ {0} => call'[s][j].state # "waiting"
  /\ \A e \in Service, k \in Key :
       /\ session_id_callback'[e][k] = IF e = s /\ k \in K THEN NoCall
                                       ELSE session_id_callback[e][k]
       /\ \/ watching_request'[e][k] = watching_request[e][k]
          \/ e = s /\ k \in K /\ watching_request'[e][k] = NoAddr

\* Continue, DispatchResponse, Reject and SourceDown are such steps.
LEMMA SettleKeeps ==
  ASSUME IInv, NEW s \in Service, NEW K \in SUBSET Key, Settles(s, K)
  PROVE  CallsStay /\ Allocation' /\ Registered' /\ Watches'
  <1> USE DEF Settles
  <1>0. \A e \in Service, j \in CallId : call[e][j].session \in Key
    BY DEF IInv, TypeOK, CallFrame
  <1>1. CallsStay
    BY DEF CallsStay
  <1>2. Allocation'
    <2>1. \A e \in Service, j \in CallId : call'[e][j].state = "idle" <=> call[e][j].state = "idle"
      OBVIOUS
    <2> QED
      BY <2>1 DEF IInv, Allocation, Idle
  <1>3. Registered'
    <2>1. ASSUME NEW e \in Service, NEW k \in Key, session_id_callback'[e][k] # NoCall
          PROVE  /\ call'[e][session_id_callback'[e][k]].state = "waiting"
                 /\ call'[e][session_id_callback'[e][k]].session = k
      <3> DEFINE j == session_id_callback[e][k]
      <3>1. session_id_callback'[e][k] = j /\ j \in CallId /\ ~(e = s /\ k \in K)
        BY <2>1 DEF IInv, TypeOK
      <3>2. call[e][j].state = "waiting" /\ call[e][j].session = k
        BY <2>1, <3>1 DEF IInv, Registered
      <3> QED
        BY <3>1, <3>2
    <2>2. ASSUME NEW e \in Service, NEW j \in CallId,
                 call'[e][j].state = "waiting", call'[e][j].session # 0
          PROVE  session_id_callback'[e][call'[e][j].session] = j
      <3>1. call[e][j].state = "waiting" /\ ~(e = s /\ call[e][j].session \in K)
        BY <2>2
      <3>2. session_id_callback[e][call[e][j].session] = j
        BY <2>2, <3>1 DEF IInv, Registered
      <3> QED
        BY <1>0, <3>1, <3>2
    <2> QED
      BY <2>1, <2>2 DEF Registered
  <1>4. Watches'
    <2> SUFFICES ASSUME NEW e \in Service, NEW j \in CallId
                 PROVE  /\ Waiting(e, j)' =>
                             watching_request'[e][call'[e][j].session] = call'[e][j].addr
                        /\ call'[e][j].session # 0 /\ call'[e][j].state \in {"returned", "failed"} =>
                             watching_request'[e][call'[e][j].session] = NoAddr
      BY DEF Watches
    <2>1. ASSUME Waiting(e, j)'
          PROVE  watching_request'[e][call'[e][j].session] = call'[e][j].addr
      <3>1. Waiting(e, j) /\ ~(e = s /\ call[e][j].session \in K)
        BY <2>1 DEF Waiting
      <3> QED
        BY <1>0, <3>1 DEF IInv, Watches
    <2>2. ASSUME call'[e][j].session # 0, call'[e][j].state \in {"returned", "failed"}
          PROVE  watching_request'[e][call'[e][j].session] = NoAddr
      <3>1. CASE call[e][j].state = call'[e][j].state
        BY <1>0, <2>2, <3>1 DEF IInv, Watches
      <3>2. CASE watching_request'[e][call[e][j].session] = NoAddr
        BY <3>2
      <3> QED
        BY <2>2, <3>1, <3>2
    <2> QED
      BY <2>1, <2>2
  <1> QED
    BY <1>1, <1>2, <1>3, <1>4

\* The calls when one has changed its state.
Changed(c, i, st) == [call EXCEPT ![c][i].state = st]

\* A call that changes its state keeps its session and callee.
LEMMA StateChange ==
  ASSUME TypeOK, NEW c \in Service, NEW i \in CallId, NEW st \in CallState,
         call' = Changed(c, i, st)
  PROVE  /\ call' \in [Service -> [CallId -> CallFrame]]
         /\ call'[c][i].state = st
         /\ \A e \in Service, j \in CallId :
              /\ call'[e][j].session = call[e][j].session
              /\ call'[e][j].addr = call[e][j].addr
              /\ <<e, j>> # <<c, i>> => call'[e][j] = call[e][j]
  <1>1. call \in [Service -> [CallId -> CallFrame]]
    BY DEF TypeOK
  <1>2. call[c][i] \in CallFrame
    BY <1>1
  <1>3. [call[c][i] EXCEPT !.state = st] =
          [state |-> st, session |-> call[c][i].session, addr |-> call[c][i].addr]
    BY <1>2 DEF CallFrame
  <1>4. PICK f \in CallFrame : f = [call[c][i] EXCEPT !.state = st]
    BY <1>2, <1>3 DEF CallFrame
  <1>5. f.state = st /\ f.session = call[c][i].session /\ f.addr = call[c][i].addr
    BY <1>3, <1>4
  <1>6. call' = [call EXCEPT ![c] = [call[c] EXCEPT ![i] = f]]
    BY <1>1, <1>4 DEF Changed
  <1>7. /\ call' \in [Service -> [CallId -> CallFrame]]
        /\ call'[c][i] = f
        /\ \A e \in Service, j \in CallId : <<e, j>> # <<c, i>> => call'[e][j] = call[e][j]
    BY <1>1, <1>6
  <1> QED
    BY <1>5, <1>7

\* The await of _yield_call resumes.
LEMMA ContinueStep ==
  ASSUME IInv, NEW c \in Service, NEW i \in CallId, Continue(c, i)
  PROVE  IInv'
  <1>1. PICK n \in Key : n = call[c][i].session
    BY DEF IInv, TypeOK, CallFrame
  <1> PICK K \in SUBSET Key : K = {n}
    BY <1>1
  <1>2. /\ watching_request' = [watching_request EXCEPT ![c][n] = NoAddr]
        /\ session_id_callback' = [session_id_callback EXCEPT ![c][n] = NoCall]
        /\ UNCHANGED <<coreVars, nextSession, calleeVars>>
        /\ call[c][i].state \in {"resolved", "rejected"}
    BY <1>1 DEF Continue
  <1>3. PICK st \in CallState : /\ st \in {"returned", "failed"}
                               /\ call' = Changed(c, i, st)
    BY DEF Continue, CallState, Changed
  <1>4. TypeOK /\ call \in [Service -> [CallId -> CallFrame]]
    BY DEF IInv, TypeOK
  <1>5. /\ call' \in [Service -> [CallId -> CallFrame]]
        /\ call'[c][i].state = st
        /\ \A e \in Service, j \in CallId :
             /\ call'[e][j].session = call[e][j].session
             /\ call'[e][j].addr = call[e][j].addr
             /\ <<e, j>> # <<c, i>> => call'[e][j] = call[e][j]
    BY <1>3, <1>4, StateChange
  <1>6. TypeOK'
    BY <1>2, <1>4, <1>5 DEF TypeOK, coreVars, calleeVars
  <1>7. \A j \in CallId : j # i /\ call[c][j].session = n => n = 0
    BY <1>1, BoundAssumption DEF IInv, Allocation, CallId, Session
  <1>8. \A e \in Service, k \in Key :
          /\ session_id_callback'[e][k] = IF e = c /\ k \in K THEN NoCall
                                          ELSE session_id_callback[e][k]
          /\ watching_request'[e][k] = IF e = c /\ k \in K THEN NoAddr
                                       ELSE watching_request[e][k]
    BY <1>2, <1>4 DEF TypeOK
  <1>9. CallsStay /\ Allocation' /\ Registered' /\ Watches'
    <2>2. \A e \in Service : status'[e] = "up" => status[e] = "up"
      BY <1>2 DEF coreVars
    <2>3. \A e \in Service, j \in CallId :
            /\ call'[e][j].session = call[e][j].session
            /\ call'[e][j].addr = call[e][j].addr
            /\ \/ call'[e][j].state = call[e][j].state
               \/ /\ e = c /\ call[c][j].session \in K
                  /\ call[c][j].state # "idle"
                  /\ call'[c][j].state \notin {"idle", "waiting"}
            /\ call'[e][j].state \in {"returned", "failed"} =>
                 \/ call[e][j].state = call'[e][j].state
                 \/ watching_request'[e][call[e][j].session] = NoAddr
      BY <1>1, <1>2, <1>3, <1>5, <1>8
    <2>4. \A j \in CallId : call[c][j].session \in K \ {0} => call'[c][j].state # "waiting"
      BY <1>2, <1>3, <1>5, <1>7
    <2>5. \A e \in Service, k \in Key :
            \/ watching_request'[e][k] = watching_request[e][k]
            \/ e = c /\ k \in K /\ watching_request'[e][k] = NoAddr
      BY <1>8
    <2>6. \A e \in Service, k \in Key :
            session_id_callback'[e][k] = IF e = c /\ k \in K THEN NoCall
                                         ELSE session_id_callback[e][k]
      BY <1>8
    <2>7. UNCHANGED nextSession
      BY <1>2
    <2>8. Settles(c, K)
      BY <2>2, <2>3, <2>4, <2>5, <2>6, <2>7 DEF Settles
    <2> QED
      BY <2>8, SettleKeeps
  <1>10. \A s \in Service : mailbox'[s] \in Seq(Good(s)')
    BY <1>2, <1>9, MailStays DEF IInv, Origins, coreVars
  <1>11. Origins'
    BY <1>2, <1>6, <1>9, <1>10, OriginsKept DEF calleeVars
  <1> QED
    BY <1>6, <1>9, <1>11 DEF IInv

\* The core hands s its first message, which is in order (Takes, Popped).
LEMMA TakesFacts ==
  ASSUME IInv, NEW s \in Service, Takes(s)
  PROVE  /\ \A e \in Service : status'[e] = "up" => status[e] = "up"
         /\ status' \in [Service -> {"up", "reporting", "exiting", "gone"}]
         /\ rest' \in [Service -> Nat]
         /\ Head(mailbox[s]) \in Good(s)
         /\ Popped(s) \in [Service -> Seq(Message)]
         /\ \A x \in Service : Popped(s)[x] \in Seq(Good(x))
  <1>1. /\ status' = status
        /\ mailbox[s] # << >>
        /\ rest' = rest \/ (rest[s] > 0 /\ rest' = [rest EXCEPT ![s] = @ - 1])
    BY DEF Takes
  <1>2. rest' \in [Service -> Nat]
    BY <1>1 DEF IInv, TypeOK
  <1> DEFINE G == [x \in Service |-> Good(x)]
  <1>3. \A x \in Service : mailbox[x] \in Seq(G[x])
    BY DEF IInv, Origins
  <1>4. mailbox \in [Service -> Seq(Message)]
    BY DEF IInv, TypeOK
  <1> HIDE DEF G
  <1>5. /\ Popped(s) \in [Service -> Seq(Message)]
        /\ \A x \in Service : Popped(s)[x] \in Seq(G[x])
        /\ Head(mailbox[s]) \in G[s]
    BY <1>1, <1>3, <1>4, PoppedFacts
  <1> USE DEF G
  <1> QED
    BY <1>1, <1>2, <1>5 DEF IInv, TypeOK

\* A mailbox from which a message was taken is in order after the step.
LEMMA MailTaken ==
  ASSUME IInv, NEW s \in Service, Takes(s), CallsStay, mailbox' = Popped(s)
  PROVE  /\ mailbox' \in [Service -> Seq(Message)]
         /\ \A x \in Service : mailbox'[x] \in Seq(Good(x)')
  BY TakesFacts, MailStays

\* A RESPONSE settles the call of its session, or none.
LEMMA DispatchResponseStep ==
  ASSUME IInv, NEW s \in Service, DispatchResponse(s)
  PROVE  IInv'
  <1>1. PICK m \in Good(s) : m = Head(mailbox[s])
    BY TakesFacts DEF DispatchResponse
  <1>2. PICK n \in Key : n = m.session
    BY DEF Good, Message
  <1>3. PICK i \in CallId \cup {NoCall} : i = session_id_callback[s][n]
    BY DEF IInv, TypeOK
  <1>4. /\ Takes(s)
        /\ mailbox' = Popped(s)
        /\ UNCHANGED <<nextSession, watching_request, calleeVars>>
        /\ \/ i = NoCall /\ UNCHANGED <<session_id_callback, call>>
           \/ /\ i # NoCall
              /\ session_id_callback' = [session_id_callback EXCEPT ![s][n] = NoCall]
              /\ call' = Changed(s, i, "resolved")
    BY <1>1, <1>2, <1>3 DEF DispatchResponse, Changed
  <1>5. CASE i = NoCall
    <2>1. CallsStay /\ Allocation' /\ Registered' /\ Watches'
      BY <1>4, <1>5, TakesFacts, CallerKept DEF callerVars
    <2>2. TypeOK'
      BY <1>4, <1>5, <2>1, TakesFacts, MailTaken DEF IInv, TypeOK, calleeVars
    <2>3. Origins'
      BY <1>4, <2>1, <2>2, MailTaken, OriginsKept DEF calleeVars
    <2> QED
      BY <2>1, <2>2, <2>3 DEF IInv
  <1>6. CASE i # NoCall
    <2>1. i \in CallId /\ call[s][i].state = "waiting" /\ call[s][i].session = n
      BY <1>3, <1>6 DEF IInv, Registered
    <2>2. /\ call' \in [Service -> [CallId -> CallFrame]]
          /\ call'[s][i].state = "resolved"
          /\ \A e \in Service, j \in CallId :
               /\ call'[e][j].session = call[e][j].session
               /\ call'[e][j].addr = call[e][j].addr
               /\ <<e, j>> # <<s, i>> => call'[e][j] = call[e][j]
      BY <1>4, <1>6, <2>1, StateChange DEF IInv, CallState
    <2>3. PICK K \in SUBSET Key : K = {n}
      OBVIOUS
    <2>4. \A e \in Service, k \in Key :
            session_id_callback'[e][k] = IF e = s /\ k \in K THEN NoCall
                                         ELSE session_id_callback[e][k]
      BY <1>4, <1>6, <2>3 DEF IInv, TypeOK
    <2>5. \A e \in Service, j \in CallId :
            /\ call'[e][j].session = call[e][j].session
            /\ call'[e][j].addr = call[e][j].addr
            /\ \/ call'[e][j].state = call[e][j].state
               \/ /\ e = s /\ call[s][j].session \in K
                  /\ call[s][j].state # "idle"
                  /\ call'[s][j].state \notin {"idle", "waiting"}
            /\ call'[e][j].state \in {"returned", "failed"} =>
                 call[e][j].state = call'[e][j].state
      BY <2>1, <2>2, <2>3
    <2>6. \A j \in CallId : call[s][j].session \in K \ {0} => call'[s][j].state # "waiting"
      <3> SUFFICES ASSUME NEW j \in CallId, call[s][j].session = n, n # 0
                   PROVE  call'[s][j].state # "waiting"
        BY <2>3
      <3>1. FirstSession[s] \in Nat
        BY BoundAssumption DEF Session
      <3>2. n = FirstSession[s] + i - 1 /\ n = FirstSession[s] + j - 1
        BY <2>1 DEF IInv, Allocation
      <3>3. i = j
        BY <2>1, <3>1, <3>2 DEF CallId
      <3> QED
        BY <2>2, <3>3
    <2>7. \A e \in Service, k \in Key : watching_request'[e][k] = watching_request[e][k]
      BY <1>4
    <2>8. UNCHANGED nextSession /\ \A e \in Service : status'[e] = "up" => status[e] = "up"
      BY <1>4, TakesFacts
    <2>9. CallsStay /\ Allocation' /\ Registered' /\ Watches'
      <3>1. Settles(s, K)
        BY <2>4, <2>5, <2>6, <2>7, <2>8 DEF Settles
      <3> QED
        BY <3>1, SettleKeeps
    <2>10. session_id_callback' \in [Service -> [Key -> CallId \cup {NoCall}]]
      <3>1. session_id_callback \in [Service -> [Key -> CallId \cup {NoCall}]]
        BY DEF IInv, TypeOK
      <3>2. session_id_callback' = [session_id_callback EXCEPT ![s][n] = NoCall]
        BY <1>4, <1>6
      <3> QED
        BY <3>1, <3>2
    <2>11. TypeOK'
      BY <1>4, <2>2, <2>9, <2>10, TakesFacts, MailTaken DEF IInv, TypeOK, calleeVars
    <2>12. Origins'
      BY <1>4, <2>9, <2>11, MailTaken, OriginsKept DEF calleeVars
    <2> QED
      BY <2>9, <2>11, <2>12 DEF IInv
  <1> QED
    BY <1>5, <1>6

\* The promises that Reject rejects are those of the sessions K.
LEMMA RejectFacts ==
  ASSUME IInv, NEW s \in Service, NEW K \in SUBSET Key, Reject(s, K)
  PROVE  /\ session_id_callback' \in [Service -> [Key -> CallId \cup {NoCall}]]
         /\ call' \in [Service -> [CallId -> CallFrame]]
         /\ \A e \in Service, k \in Key :
              session_id_callback'[e][k] = IF e = s /\ k \in K THEN NoCall
                                           ELSE session_id_callback[e][k]
         /\ \A e \in Service, j \in CallId :
              /\ call'[e][j].session = call[e][j].session
              /\ call'[e][j].addr = call[e][j].addr
              /\ \/ call'[e][j].state = call[e][j].state
                 \/ /\ e = s /\ call[s][j].session \in K
                    /\ call[s][j].state = "waiting"
                    /\ call'[s][j].state = "rejected"
         /\ \A j \in CallId : call[s][j].session \in K \ {0} => call'[s][j].state # "waiting"
  <1> DEFINE failed == {session_id_callback[s][n] : n \in K} \ {NoCall}
             F(j) == IF j \in failed THEN [call[s][j] EXCEPT !.state = "rejected"]
                                     ELSE call[s][j]
  <1>1. /\ session_id_callback' = [session_id_callback EXCEPT ![s] =
                                     [n \in Key |-> IF n \in K THEN NoCall ELSE @[n]]]
        /\ call' = [call EXCEPT ![s] = [j \in CallId |-> F(j)]]
    BY DEF Reject
  <1>2. /\ call \in [Service -> [CallId -> CallFrame]]
        /\ session_id_callback \in [Service -> [Key -> CallId \cup {NoCall}]]
    BY DEF IInv, TypeOK
  <1>3. ASSUME NEW j \in CallId
        PROVE  /\ F(j) \in CallFrame
               /\ F(j).session = call[s][j].session
               /\ F(j).addr = call[s][j].addr
               /\ F(j).state = IF j \in failed THEN "rejected" ELSE call[s][j].state
    <2>1. call[s][j] \in CallFrame
      BY <1>2
    <2>2. [call[s][j] EXCEPT !.state = "rejected"] =
            [state |-> "rejected", session |-> call[s][j].session, addr |-> call[s][j].addr]
      BY <2>1 DEF CallFrame
    <2> HIDE DEF failed
    <2> QED
      BY <2>1, <2>2 DEF CallFrame, CallState
  <1>4. ASSUME NEW j \in failed
        PROVE  call[s][j].session \in K /\ call[s][j].state = "waiting"
    BY DEF IInv, Registered
  <1>5. ASSUME NEW j \in CallId, call[s][j].session \in K \ {0}, call[s][j].state = "waiting"
        PROVE  j \in failed
    <2>1. session_id_callback[s][call[s][j].session] = j
      BY <1>5 DEF IInv, Registered
    <2> QED
      BY <1>5, <2>1, BoundAssumption DEF CallId, NoCall
  <1> HIDE DEF F, failed
  <1>6. /\ \A j \in CallId : call'[s][j] = F(j)
        /\ \A e \in Service : e # s => call'[e] = call[e]
        /\ call' \in [Service -> [CallId -> CallFrame]]
    BY <1>1, <1>2, <1>3
  <1>7. /\ session_id_callback' \in [Service -> [Key -> CallId \cup {NoCall}]]
        /\ \A e \in Service, k \in Key :
             session_id_callback'[e][k] = IF e = s /\ k \in K THEN NoCall
                                          ELSE session_id_callback[e][k]
    BY <1>1, <1>2
  <1>8. ASSUME NEW e \in Service, NEW j \in CallId
        PROVE  /\ call'[e][j].session = call[e][j].session
               /\ call'[e][j].addr = call[e][j].addr
               /\ \/ call'[e][j].state = call[e][j].state
                  \/ /\ e = s /\ call[s][j].session \in K
                     /\ call[s][j].state = "waiting"
                     /\ call'[s][j].state = "rejected"
    BY <1>3, <1>4, <1>6
  <1>9. \A j \in CallId : call[s][j].session \in K \ {0} => call'[s][j].state # "waiting"
    BY <1>3, <1>5, <1>6
  <1> QED
    BY <1>6, <1>7, <1>8, <1>9

\* A step of _error_dispatch is one that settles.
LEMMA RejectSettles ==
  ASSUME IInv, NEW s \in Service, NEW K \in SUBSET Key, Reject(s, K),
         UNCHANGED nextSession,
         \A e \in Service : status'[e] = "up" => status[e] = "up",
         \A e \in Service, k \in Key :
           \/ watching_request'[e][k] = watching_request[e][k]
           \/ e = s /\ k \in K /\ watching_request'[e][k] = NoAddr
  PROVE  Settles(s, K)
  <1>1. \A e \in Service, j \in CallId :
          /\ call'[e][j].session = call[e][j].session
          /\ call'[e][j].addr = call[e][j].addr
          /\ \/ call'[e][j].state = call[e][j].state
             \/ /\ e = s /\ call[s][j].session \in K
                /\ call[s][j].state = "waiting"
                /\ call'[s][j].state = "rejected"
    BY RejectFacts
  <1>2. \A j \in CallId : call[s][j].session \in K \ {0} => call'[s][j].state # "waiting"
    BY RejectFacts
  <1>3. \A e \in Service, k \in Key :
          session_id_callback'[e][k] = IF e = s /\ k \in K THEN NoCall
                                       ELSE session_id_callback[e][k]
    BY RejectFacts
  <1> QED
    BY <1>1, <1>2, <1>3 DEF Settles

\* IgnoreRet only removes entries.
LEMMA IgnoreRetFacts ==
  ASSUME IInv, NEW s \in Service, NEW K, IgnoreRet(s, K)
  PROVE  /\ watching_response' \in [Service -> [Session -> Service \cup {NoAddr}]]
         /\ \A e \in Service, n \in Session :
              watching_response'[e][n] # NoAddr => watching_response'[e][n] = watching_response[e][n]
  <1>1. watching_response \in [Service -> [Session -> Service \cup {NoAddr}]]
    BY DEF IInv, TypeOK
  <1> QED
    BY <1>1 DEF IgnoreRet

\* IgnoreOwn does that, and excuses the requests that lose their entry.
LEMMA IgnoreOwnFacts ==
  ASSUME IInv, NEW s \in Service, NEW K, IgnoreOwn(s, K)
  PROVE  /\ IgnoreRet(s, K)
         /\ excused' \in [Service -> SUBSET Request]
         /\ \A e \in Service : excused[e] \subseteq excused'[e]
         /\ \A r \in Request :
              r[2] \in K /\ handler[s][r] \in {"running", "threw"} => r \in excused'[s]
  <1>1. excused \in [Service -> SUBSET Request]
    BY DEF IInv, TypeOK
  <1> QED
    BY <1>1 DEF IgnoreOwn

\* _error_dispatch(0, x): only the caller's calls to x are settled, and
\* closures for x dropped.
LEMMA SourceDownFacts ==
  ASSUME IInv, NEW s \in Service, NEW x \in Service, SourceDown(s, x),
         UNCHANGED nextSession,
         \A e \in Service : status'[e] = "up" => status[e] = "up"
  PROVE  /\ CallsStay /\ Allocation' /\ Registered' /\ Watches'
         /\ call' \in [Service -> [CallId -> CallFrame]]
         /\ session_id_callback' \in [Service -> [Key -> CallId \cup {NoCall}]]
         /\ watching_request' \in [Service -> [Key -> Service \cup {NoAddr}]]
         /\ watching_response' \in [Service -> [Session -> Service \cup {NoAddr}]]
         /\ \A e \in Service, n \in Session :
              watching_response'[e][n] # NoAddr => watching_response'[e][n] = watching_response[e][n]
         /\ unresponse' \in [Service -> SUBSET Request]
         /\ \A e \in Service : unresponse'[e] \subseteq unresponse[e]
         /\ excused' \in [Service -> SUBSET Request]
  <1>1. PICK K \in SUBSET Key : K = WaitingFor(s, x)
    BY DEF WaitingFor
  <1>2. /\ unresponse' = [unresponse EXCEPT ![s] = {r \in @ : r[1] # x}]
        /\ watching_request' = [watching_request EXCEPT ![s] =
                                  [n \in Key |-> IF n \in K THEN NoAddr ELSE @[n]]]
        /\ Reject(s, K)
        /\ IgnoreOwn(s, K)
    BY <1>1 DEF SourceDown
  <1>3. /\ watching_request' \in [Service -> [Key -> Service \cup {NoAddr}]]
        /\ \A e \in Service, k \in Key :
             \/ watching_request'[e][k] = watching_request[e][k]
             \/ e = s /\ k \in K /\ watching_request'[e][k] = NoAddr
    <2>1. watching_request \in [Service -> [Key -> Service \cup {NoAddr}]]
      BY DEF IInv, TypeOK
    <2> QED
      BY <1>2, <2>1
  <1>4. /\ unresponse' \in [Service -> SUBSET Request]
        /\ \A e \in Service : unresponse'[e] \subseteq unresponse[e]
    <2>1. unresponse \in [Service -> SUBSET Request]
      BY DEF IInv, TypeOK
    <2> QED
      BY <1>2, <2>1
  <1>5. CallsStay /\ Allocation' /\ Registered' /\ Watches'
    <2>1. Settles(s, K)
      BY <1>2, <1>3, RejectSettles
    <2> QED
      BY <2>1, SettleKeeps
  <1> QED
    BY <1>2, <1>3, <1>4, <1>5, RejectFacts, IgnoreOwnFacts, IgnoreRetFacts

\* An ERROR settles the call of its session, or those to its source.
LEMMA DispatchErrorStep ==
  ASSUME IInv, NEW s \in Service, DispatchError(s)
  PROVE  IInv'
  <1>1. PICK m \in Good(s) : m = Head(mailbox[s])
    BY TakesFacts DEF DispatchError
  <1>2. m.session \in Key /\ m.source \in Service
    BY DEF Good, Message
  <1>3. /\ Takes(s)
        /\ mailbox' = Popped(s)
        /\ UNCHANGED <<nextSession, handler>>
        /\ \/ m.session = 0 /\ SourceDown(s, m.source) /\ UNCHANGED tail
           \/ /\ m.session # 0
              /\ Reject(s, {m.session})
              /\ IgnoreOwn(s, {m.session})
              /\ tail' = [tail EXCEPT ![s][m.session] = @ + 1]
              /\ UNCHANGED <<watching_request, unresponse>>
    BY <1>1 DEF DispatchError
  <1>4. /\ CallsStay /\ Allocation' /\ Registered' /\ Watches'
        /\ call' \in [Service -> [CallId -> CallFrame]]
        /\ session_id_callback' \in [Service -> [Key -> CallId \cup {NoCall}]]
        /\ watching_request' \in [Service -> [Key -> Service \cup {NoAddr}]]
        /\ watching_response' \in [Service -> [Session -> Service \cup {NoAddr}]]
        /\ \A e \in Service, n \in Session :
             watching_response'[e][n] # NoAddr => watching_response'[e][n] = watching_response[e][n]
        /\ unresponse' \in [Service -> SUBSET Request]
        /\ \A e \in Service : unresponse'[e] \subseteq unresponse[e]
        /\ tail' \in [Service -> [Session -> Nat]]
        /\ excused' \in [Service -> SUBSET Request]
    <2>1. UNCHANGED nextSession /\ \A e \in Service : status'[e] = "up" => status[e] = "up"
      BY <1>3, TakesFacts
    <2>2. CASE m.session = 0
      BY <1>2, <1>3, <2>1, <2>2, SourceDownFacts DEF IInv, TypeOK
    <2>3. CASE m.session # 0
      <3>1. PICK K \in SUBSET Key : K = {m.session}
        BY <1>2
      <3>2. Reject(s, K) /\ IgnoreOwn(s, K) /\ UNCHANGED <<watching_request, unresponse>>
        BY <1>3, <2>3, <3>1
      <3>3. Settles(s, K)
        BY <2>1, <3>2, RejectSettles
      <3>4. tail' \in [Service -> [Session -> Nat]]
        <4>1. tail' = [tail EXCEPT ![s][m.session] = @ + 1]
          BY <1>3, <2>3
        <4>2. tail \in [Service -> [Session -> Nat]] /\ m.session \in Session
          BY <1>2, <2>3 DEF IInv, TypeOK, Key, Session
        <4> QED
          BY <4>1, <4>2
      <3>5. CallsStay /\ Allocation' /\ Registered' /\ Watches'
        BY <3>3, SettleKeeps
      <3> QED
        BY <3>2, <3>4, <3>5, RejectFacts, IgnoreOwnFacts, IgnoreRetFacts DEF IInv, TypeOK
    <2> QED
      BY <2>2, <2>3
  <1>5. TypeOK'
    BY <1>3, <1>4, TakesFacts, MailTaken DEF IInv, TypeOK
  <1>6. Origins'
    BY <1>3, <1>4, <1>5, MailTaken, OriginsKept
  <1> QED
    BY <1>4, <1>5, <1>6 DEF IInv

\* term() settles the calls to the service it names.
LEMMA TermStep ==
  ASSUME IInv, NEW s \in Service, NEW x \in Service, Term(s, x)
  PROVE  IInv'
  <1>1. SourceDown(s, x) /\ UNCHANGED <<status, rest, mailbox, nextSession, handler, tail>>
    BY DEF Term, coreVars
  <1>2. TypeOK' /\ CallsStay /\ Allocation' /\ Registered' /\ Watches'
    BY <1>1, SourceDownFacts DEF IInv, TypeOK
  <1>3. \A e \in Service : mailbox'[e] \in Seq(Good(e)')
    BY <1>1, <1>2, MailStays DEF IInv, Origins
  <1>4. Origins'
    <2>1. /\ \A e \in Service : unresponse'[e] \subseteq unresponse[e]
          /\ \A e \in Service, n \in Session :
               watching_response'[e][n] # NoAddr => watching_response'[e][n] = watching_response[e][n]
      BY <1>1, SourceDownFacts
    <2> QED
      BY <1>1, <1>2, <1>3, <2>1, OriginsKept
  <1> QED
    BY <1>2, <1>4 DEF IInv

-----------------------------------------------------------------------------
(***************************************************************************)
(* The steps of a callee and of the core, which leave the caller's maps    *)
(* alone.                                                                  *)
(***************************************************************************)

\* What such a step has to respect.
Respects ==
  /\ UNCHANGED callerVars
  /\ \A s \in Service : status'[s] = "up" => status[s] = "up"
  /\ status' \in [Service -> {"up", "reporting", "exiting", "gone"}]
  /\ rest' \in [Service -> Nat]
  /\ mailbox' \in [Service -> Seq(Message)]
  /\ \A s \in Service : mailbox'[s] \in Seq(Good(s))
  /\ watching_response' \in [Service -> [Session -> Service \cup {NoAddr}]]
  /\ \A s \in Service, n \in Session :
       watching_response'[s][n] # NoAddr =>
         \/ watching_response'[s][n] = watching_response[s][n]
         \/ Called(watching_response'[s][n], n, s)
  /\ unresponse' \in [Service -> SUBSET Request]
  /\ \A s \in Service : \A r \in unresponse'[s] : r \in unresponse[s] \/ Called(r[1], r[2], s)
  /\ handler' \in [Service -> [Request -> HandlerState]]
  /\ \A s \in Service, r \in Request :
       handler'[s][r] # "none" => handler[s][r] # "none" \/ Called(r[1], r[2], s)
  /\ tail' \in [Service -> [Session -> Nat]]
  /\ excused' \in [Service -> SUBSET Request]

\* Such a step preserves the invariant.
LEMMA CalleeStep ==
  ASSUME IInv, Respects
  PROVE  IInv'
  <1>1. CallsStay /\ Allocation' /\ Registered' /\ Watches'
    BY CallerKept DEF Respects
  <1>2. TypeOK'
    BY DEF IInv, TypeOK, Respects, callerVars
  <1>3. \A s \in Service : mailbox'[s] \in Seq(Good(s)')
    BY <1>1, MailStays DEF Respects
  <1>4. Origins'
    BY <1>1, <1>2, <1>3, OriginsKept DEF Respects
  <1> QED
    BY <1>1, <1>2, <1>4 DEF IInv

\* An answer to a call is in order ...
LEMMA AnswerGood ==
  ASSUME NEW s \in Service, NEW x \in Service, NEW n \in Session, Called(x, n, s),
         NEW type \in {"RESPONSE", "ERROR"}
  PROVE  [type |-> type, session |-> n, source |-> s] \in Good(x)
  <1>1. n # 0 /\ n \in Key
    BY DEF Session, Key
  <1> QED
    BY <1>1 DEF Good, Message

\* ... and so is a notice that s is down.
LEMMA NoticeGood ==
  ASSUME NEW s \in Service, NEW x \in Service
  PROVE  [type |-> "ERROR", session |-> 0, source |-> s] \in Good(x)
  <1>1. 0 \in Key
    BY BoundAssumption DEF Key
  <1> QED
    BY <1>1 DEF Good, Message

\* A message in order, sent from mailboxes in order.
LEMMA SendFacts ==
  ASSUME NEW box \in [Service -> Seq(Message)], NEW x \in Service, NEW m \in Good(x),
         \A s \in Service : box[s] \in Seq(Good(s))
  PROVE  /\ Posted(box, x, m) \in [Service -> Seq(Message)]
         /\ \A s \in Service : Posted(box, x, m)[s] \in Seq(Good(s))
  <1> DEFINE G == [s \in Service |-> Good(s)]
  <1>1. m \in Message /\ m \in G[x] /\ \A s \in Service : box[s] \in Seq(G[s])
    BY DEF Good
  <1> HIDE DEF G
  <1>2. /\ Posted(box, x, m) \in [Service -> Seq(Message)]
        /\ \A s \in Service : Posted(box, x, m)[s] \in Seq(G[s])
    BY <1>1, PostedFacts
  <1> QED
    BY <1>2 DEF G

\* Post keeps the mailboxes in order.
LEMMA PostFacts ==
  ASSUME IInv, NEW x \in Service, NEW m \in Good(x), Post(x, m)
  PROVE  /\ mailbox' \in [Service -> Seq(Message)]
         /\ \A s \in Service : mailbox'[s] \in Seq(Good(s))
  BY SendFacts DEF IInv, TypeOK, Origins, Post

\* A handler changes its state; a request that has a handler was called.
LEMMA HandlerFacts ==
  ASSUME IInv, NEW s \in Service, NEW r \in Request, handler[s][r] # "none"
  PROVE  Called(r[1], r[2], s) /\ r[1] \in Service /\ r[2] \in Session
  BY DEF IInv, Origins, Request

\* The second ignoreret of an ERROR.
LEMMA ErrorTailStep ==
  ASSUME IInv, NEW s \in Service, NEW n \in Session, ErrorTail(s, n)
  PROVE  IInv'
  <1>1. /\ UNCHANGED <<status, rest, mailbox, callerVars, unresponse, handler>>
        /\ tail[s][n] > 0 /\ tail' = [tail EXCEPT ![s][n] = @ - 1]
        /\ IgnoreOwn(s, {n})
    BY DEF ErrorTail, coreVars
  <1>2. tail' \in [Service -> [Session -> Nat]]
    BY <1>1 DEF IInv, TypeOK
  <1>3. Respects
    BY <1>1, <1>2, IgnoreOwnFacts, IgnoreRetFacts DEF Respects, IInv, TypeOK, Origins
  <1> QED
    BY <1>3, CalleeStep

\* ret() answers the session it was called with.
LEMMA RetStep ==
  ASSUME IInv, NEW s \in Service, NEW r \in Request, Ret(s, r)
  PROVE  IInv'
  <1>1. /\ UNCHANGED <<status, rest, callerVars, unresponse, tail, excused>>
        /\ handler[s][r] = "running"
        /\ handler' = [handler EXCEPT ![s][r] = "answered"]
        /\ IgnoreRet(s, {r[2]})
    BY DEF Ret
  <1>2. PICK type \in {"RESPONSE", "ERROR"} :
          Post(r[1], [type |-> type, session |-> r[2], source |-> s])
    BY DEF Ret
  <1>3. handler' \in [Service -> [Request -> HandlerState]]
    BY <1>1 DEF IInv, TypeOK, HandlerState
  <1>4. /\ mailbox' \in [Service -> Seq(Message)]
        /\ \A x \in Service : mailbox'[x] \in Seq(Good(x))
    BY <1>1, <1>2, HandlerFacts, AnswerGood, PostFacts
  <1>5. \A x \in Service, q \in Request : handler'[x][q] # "none" => handler[x][q] # "none"
    BY <1>1 DEF IInv, TypeOK
  <1>6. Respects
    BY <1>1, <1>3, <1>4, <1>5, IgnoreRetFacts DEF Respects, IInv, TypeOK
  <1> QED
    BY <1>6, CalleeStep

\* response() makes a closure for a request that was dispatched.
LEMMA ResponseStep ==
  ASSUME IInv, NEW s \in Service, NEW r \in Request, Response(s, r)
  PROVE  IInv'
  <1>1. /\ UNCHANGED <<status, rest, mailbox, callerVars, tail, excused>>
        /\ handler[s][r] = "running"
    BY DEF Response, coreVars
  <1>2. PICK st \in {"answered", "threw"} : handler' = [handler EXCEPT ![s][r] = st]
    BY DEF Response
  <1>3. /\ handler' \in [Service -> [Request -> HandlerState]]
        /\ \A x \in Service, q \in Request : handler'[x][q] # "none" => handler[x][q] # "none"
    BY <1>1, <1>2 DEF IInv, TypeOK, HandlerState
  <1>4. /\ watching_response' \in [Service -> [Session -> Service \cup {NoAddr}]]
        /\ \A e \in Service, n \in Session :
             watching_response'[e][n] # NoAddr => watching_response'[e][n] = watching_response[e][n]
    <2>1. CASE UNCHANGED watching_response
      BY <2>1 DEF IInv, TypeOK
    <2>2. CASE IgnoreRet(s, {r[2]})
      BY <2>2, IgnoreRetFacts
    <2> QED
      BY <2>1, <2>2 DEF Response
  <1>5. /\ unresponse' \in [Service -> SUBSET Request]
        /\ \A x \in Service : \A q \in unresponse'[x] :
             q \in unresponse[x] \/ Called(q[1], q[2], x)
    <2>1. Called(r[1], r[2], s)
      BY <1>1, HandlerFacts
    <2>2. unresponse' = unresponse \/ unresponse' = [unresponse EXCEPT ![s] = @ \cup {r}]
      BY DEF Response
    <2>3. unresponse \in [Service -> SUBSET Request]
      BY DEF IInv, TypeOK
    <2> QED
      BY <2>1, <2>2, <2>3
  <1>6. Respects
    BY <1>1, <1>3, <1>4, <1>5 DEF Respects, IInv, TypeOK, Origins
  <1> QED
    BY <1>6, CalleeStep

\* A closure is used, by the application or by exit().
LEMMA ClosureFacts ==
  ASSUME IInv, NEW s \in Service, NEW r \in unresponse[s],
         NEW type \in {"RESPONSE", "ERROR"},
         Post(r[1], [type |-> type, session |-> r[2], source |-> s]),
         unresponse' = [unresponse EXCEPT ![s] = @ \ {r}],
         UNCHANGED <<status, rest, callerVars, watching_response, handler, tail, excused>>
  PROVE  IInv'
  <1>1. unresponse \in [Service -> SUBSET Request]
    BY DEF IInv, TypeOK
  <1>2. Called(r[1], r[2], s) /\ r[1] \in Service /\ r[2] \in Session
    BY <1>1 DEF IInv, Origins, Request
  <1>3. /\ mailbox' \in [Service -> Seq(Message)]
        /\ \A x \in Service : mailbox'[x] \in Seq(Good(x))
    BY <1>2, AnswerGood, PostFacts
  <1>4. /\ unresponse' \in [Service -> SUBSET Request]
        /\ \A x \in Service : unresponse'[x] \subseteq unresponse[x]
    BY <1>1
  <1>5. Respects
    BY <1>3, <1>4 DEF Respects, IInv, TypeOK
  <1> QED
    BY <1>5, CalleeStep

\* The closure is used by the application ...
LEMMA RespondStep ==
  ASSUME IInv, NEW s \in Service, NEW r \in Request, Respond(s, r)
  PROVE  IInv'
  BY ClosureFacts DEF Respond

\* ... or by exit().
LEMMA ReportDeferredStep ==
  ASSUME IInv, NEW s \in Service, ReportDeferred(s)
  PROVE  IInv'
  BY ClosureFacts DEF ReportDeferred

\* The promise of a handler settles.
LEMMA HandlerEndStep ==
  ASSUME IInv, NEW s \in Service, NEW r \in Request,
         HandlerReturn(s, r) \/ HandlerThrow(s, r)
  PROVE  IInv'
  <1>1. /\ UNCHANGED <<status, rest, mailbox, callerVars, unresponse, tail, excused>>
        /\ handler[s][r] # "none"
    BY DEF HandlerReturn, HandlerThrow, coreVars
  <1>2. PICK st \in {"forgot", "done", "threw"} : handler' = [handler EXCEPT ![s][r] = st]
    BY DEF HandlerReturn, HandlerThrow
  <1>3. /\ handler' \in [Service -> [Request -> HandlerState]]
        /\ \A x \in Service, q \in Request : handler'[x][q] # "none" => handler[x][q] # "none"
    BY <1>1, <1>2 DEF IInv, TypeOK, HandlerState
  <1>4. /\ watching_response' \in [Service -> [Session -> Service \cup {NoAddr}]]
        /\ \A e \in Service, n \in Session :
             watching_response'[e][n] # NoAddr => watching_response'[e][n] = watching_response[e][n]
    <2>1. CASE UNCHANGED watching_response
      BY <2>1 DEF IInv, TypeOK
    <2>2. CASE IgnoreRet(s, {r[2]})
      BY <2>2, IgnoreRetFacts
    <2> QED
      BY <2>1, <2>2 DEF HandlerReturn, HandlerThrow
  <1>5. Respects
    BY <1>1, <1>3, <1>4 DEF Respects, IInv, TypeOK, Origins
  <1> QED
    BY <1>5, CalleeStep

\* The session of a request enters watching_response with its source.
LEMMA DispatchRequestStep ==
  ASSUME IInv, NEW s \in Service, DispatchRequest(s)
  PROVE  IInv'
  <1>1. PICK m \in Good(s) : m = Head(mailbox[s])
    BY TakesFacts DEF DispatchRequest
  <1>2. PICK c \in Service : c = m.source
    BY DEF Good, Message
  <1>3. PICK n \in Session : n = m.session
    <2>1. m.type = "REQUEST"
      BY <1>1 DEF DispatchRequest
    <2> QED
      BY <2>1 DEF Good, Message, Key, Session
  <1>4. Called(c, n, s)
    BY <1>1, <1>2, <1>3 DEF Good, Session, DispatchRequest
  <1>5. PICK r \in Request : r = <<c, n>>
    BY DEF Request
  <1>6. Called(r[1], r[2], s)
    BY <1>4, <1>5
  <1>7. /\ Takes(s)
        /\ UNCHANGED <<callerVars, unresponse, tail>>
        /\ \/ /\ watching_response' = [watching_response EXCEPT ![s][n] = c]
              /\ handler' = [handler EXCEPT ![s][r] = "running"]
              /\ \E Q \in SUBSET Request : excused' = [excused EXCEPT ![s] = @ \cup Q]
              /\ mailbox' = Popped(s)
           \/ /\ handler' = [handler EXCEPT ![s][r] = "refused"]
              /\ mailbox' = Posted(Popped(s), c, [type |-> "ERROR", session |-> n, source |-> s])
              /\ UNCHANGED <<watching_response, excused>>
    <2>1. PICK lost \in BOOLEAN :
            lost <=> ~ Accepts(s) \/ Beside(s, r, {"running", "answered"}) # {}
      OBVIOUS
    <2>2. PICK Q \in SUBSET Request :
            Q = (IF lost THEN {r} ELSE {}) \cup Beside(s, r, {"running", "threw"})
      BY DEF Beside
    <2>3. (excused[s] \cup (IF lost THEN {r} ELSE {})) \cup Beside(s, r, {"running", "threw"})
            = excused[s] \cup Q
      BY <2>2
    <2> QED
      BY <1>1, <1>2, <1>3, <1>5, <2>1, <2>3 DEF DispatchRequest
  <1>8. /\ mailbox' \in [Service -> Seq(Message)]
        /\ \A x \in Service : mailbox'[x] \in Seq(Good(x))
    <2>1. PICK e \in Good(c) : e = [type |-> "ERROR", session |-> n, source |-> s]
      BY <1>4, AnswerGood
    <2>2. /\ Popped(s) \in [Service -> Seq(Message)]
          /\ \A x \in Service : Popped(s)[x] \in Seq(Good(x))
      BY <1>7, TakesFacts
    <2>3. /\ Posted(Popped(s), c, e) \in [Service -> Seq(Message)]
          /\ \A x \in Service : Posted(Popped(s), c, e)[x] \in Seq(Good(x))
      BY <2>2, SendFacts
    <2>4. mailbox' = Popped(s) \/ mailbox' = Posted(Popped(s), c, e)
      BY <1>7, <2>1
    <2> QED
      BY <2>2, <2>3, <2>4
  <1>9. /\ handler' \in [Service -> [Request -> HandlerState]]
        /\ \A x \in Service, q \in Request :
             handler'[x][q] # "none" => handler[x][q] # "none" \/ Called(q[1], q[2], x)
    <2>1. PICK st \in {"running", "refused"} : handler' = [handler EXCEPT ![s][r] = st]
      BY <1>7
    <2> QED
      BY <1>6, <2>1 DEF IInv, TypeOK, HandlerState
  <1>10. /\ watching_response' \in [Service -> [Session -> Service \cup {NoAddr}]]
         /\ \A e \in Service, k \in Session :
              watching_response'[e][k] # NoAddr =>
                \/ watching_response'[e][k] = watching_response[e][k]
                \/ Called(watching_response'[e][k], k, e)
    <2>1. watching_response' \in {watching_response, [watching_response EXCEPT ![s][n] = c]}
      BY <1>7
    <2>2. watching_response \in [Service -> [Session -> Service \cup {NoAddr}]]
      BY DEF IInv, TypeOK
    <2> QED
      BY <1>4, <2>1, <2>2
  <1>11. excused' \in [Service -> SUBSET Request]
    <2>1. excused \in [Service -> SUBSET Request]
      BY DEF IInv, TypeOK
    <2> QED
      BY <1>7, <2>1
  <1>12. Respects
    BY <1>7, <1>8, <1>9, <1>10, <1>11, TakesFacts DEF Respects, IInv, TypeOK
  <1> QED
    BY <1>12, CalleeStep

\* exit() reports to the sources that have an entry.
LEMMA ReportCallerStep ==
  ASSUME IInv, NEW s \in Service, ReportCaller(s)
  PROVE  IInv'
  <1>1. PICK n \in Watched(s) :
          /\ Post(watching_response[s][n], [type |-> "ERROR", session |-> n, source |-> s])
          /\ IgnoreRet(s, {n})
          /\ UNCHANGED <<status, rest, callerVars, unresponse, handler, tail, excused>>
    BY DEF ReportCaller
  <1>2. PICK x \in Service : x = watching_response[s][n]
    BY DEF Watched, IInv, TypeOK
  <1>3. n \in Session /\ Called(x, n, s)
    BY <1>2, ServiceAssumption DEF Watched, IInv, Origins
  <1>4. /\ mailbox' \in [Service -> Seq(Message)]
        /\ \A e \in Service : mailbox'[e] \in Seq(Good(e))
    BY <1>1, <1>2, <1>3, AnswerGood, PostFacts
  <1>5. Respects
    BY <1>1, <1>4, IgnoreRetFacts DEF Respects, IInv, TypeOK
  <1> QED
    BY <1>5, CalleeStep

\* exit() has given up the calls of s: nobody waits there any more.
LEMMA ReportCalleeStep ==
  ASSUME IInv, NEW s \in Service, ReportCallee(s)
  PROVE  IInv'
  <1>1. PICK x \in Awaited(s) :
          /\ status[s] = "reporting"
          /\ Post(x, [type |-> "ERROR", session |-> 0, source |-> s])
          /\ watching_request' = [watching_request EXCEPT ![s] =
                                    [n \in Key |-> IF @[n] = x THEN NoAddr ELSE @[n]]]
          /\ UNCHANGED <<status, rest, nextSession, call, session_id_callback, calleeVars>>
    BY DEF ReportCallee
  <1>2. x \in Service
    BY DEF Awaited, IInv, TypeOK
  <1>3. /\ mailbox' \in [Service -> Seq(Message)]
        /\ \A e \in Service : mailbox'[e] \in Seq(Good(e))
    BY <1>1, <1>2, NoticeGood, PostFacts
  <1>4. /\ watching_request' \in [Service -> [Key -> Service \cup {NoAddr}]]
        /\ \A e \in Service, k \in Key :
             \/ watching_request'[e][k] = watching_request[e][k]
             \/ e = s /\ watching_request'[e][k] = NoAddr
    <2>1. watching_request \in [Service -> [Key -> Service \cup {NoAddr}]]
      BY DEF IInv, TypeOK
    <2> QED
      BY <1>1, <2>1
  <1>5. TypeOK'
    BY <1>1, <1>3, <1>4 DEF IInv, TypeOK, calleeVars
  <1>6. CallsStay
    BY <1>1 DEF CallsStay
  <1>7. Allocation' /\ Registered'
    BY <1>1 DEF IInv, Allocation, Idle, Registered
  <1>8. Watches'
    <2>1. \A e \in Service, i \in CallId : call[e][i].session \in Key
      BY DEF IInv, TypeOK, CallFrame
    <2> QED
      BY <1>1, <1>4, <2>1 DEF IInv, Watches, Waiting
  <1>9. \A e \in Service : mailbox'[e] \in Seq(Good(e)')
    BY <1>3, <1>6, MailStays
  <1>10. Origins'
    BY <1>1, <1>5, <1>6, <1>9, OriginsKept DEF calleeVars
  <1> QED
    BY <1>5, <1>7, <1>8, <1>10 DEF IInv

\* The other steps of exit().
LEMMA ExitStep ==
  ASSUME IInv, NEW s \in Service, ExitBegin(s) \/ ExitEnd(s) \/ Retire(s)
  PROVE  IInv'
  <1>1. UNCHANGED <<mailbox, callerVars, calleeVars>>
    BY DEF ExitBegin, ExitEnd, Retire
  <1>2. PICK st \in {"reporting", "exiting", "gone"} : status' = [status EXCEPT ![s] = st]
    BY DEF ExitBegin, ExitEnd, Retire
  <1>3. rest' \in [Service -> Nat]
    <2>1. rest \in [Service -> Nat]
      BY DEF IInv, TypeOK
    <2>2. CASE ExitEnd(s)
      <3>1. PICK k \in 0 .. MaxBatch - 1 : rest' = [rest EXCEPT ![s] = k]
        BY <2>2 DEF ExitEnd
      <3>2. k \in Nat
        BY BoundAssumption
      <3> QED
        BY <2>1, <3>1, <3>2
    <2>3. CASE ~ExitEnd(s)
      BY <2>1, <2>3 DEF ExitBegin, Retire
    <2> QED
      BY <2>2, <2>3
  <1>4. /\ status' \in [Service -> {"up", "reporting", "exiting", "gone"}]
        /\ \A e \in Service : status'[e] = "up" => status[e] = "up"
    BY <1>2 DEF IInv, TypeOK
  <1>5. Respects
    BY <1>1, <1>3, <1>4 DEF Respects, IInv, TypeOK, Origins, calleeVars
  <1> QED
    BY <1>5, CalleeStep

\* The core drops a message of a service that is gone.
LEMMA DropMessageStep ==
  ASSUME IInv, NEW s \in Service, DropMessage(s)
  PROVE  IInv'
  <1>1. /\ mailbox[s] # << >>
        /\ mailbox' = Posted(Popped(s), Head(mailbox[s]).source,
                             [type |-> "ERROR", session |-> 0, source |-> s])
        /\ UNCHANGED <<status, rest, callerVars, calleeVars>>
    BY DEF DropMessage
  <1> DEFINE G == [x \in Service |-> Good(x)]
  <1>2. \A x \in Service : mailbox[x] \in Seq(G[x])
    BY DEF IInv, Origins
  <1>3. mailbox \in [Service -> Seq(Message)]
    BY DEF IInv, TypeOK
  <1> HIDE DEF G
  <1>4. /\ Popped(s) \in [Service -> Seq(Message)]
        /\ \A x \in Service : Popped(s)[x] \in Seq(G[x])
        /\ Head(mailbox[s]) \in Message
    BY <1>1, <1>2, <1>3, PoppedFacts
  <1>5. \A x \in Service : Popped(s)[x] \in Seq(Good(x))
    BY <1>4 DEF G
  <1>6. PICK c \in Service : c = Head(mailbox[s]).source
    BY <1>4 DEF Message
  <1>7. /\ mailbox' \in [Service -> Seq(Message)]
        /\ \A x \in Service : mailbox'[x] \in Seq(Good(x))
    BY <1>1, <1>4, <1>5, <1>6, NoticeGood, SendFacts
  <1>8. Respects
    BY <1>1, <1>7 DEF Respects, IInv, TypeOK, calleeVars
  <1> QED
    BY <1>8, CalleeStep

-----------------------------------------------------------------------------
(***************************************************************************)
(* Theorems.                                                               *)
(***************************************************************************)

\* The invariant holds at first ...
LEMMA InitIInv == Init => IInv
  <1> SUFFICES ASSUME Init
               PROVE  IInv
    OBVIOUS
  <1>1. TypeOK
    <2>1. 0 \in Key /\ Session \subseteq Nat
      BY BoundAssumption DEF Key, Session
    <2>2. NoFrame \in CallFrame
      BY <2>1 DEF NoFrame, CallFrame, CallState
    <2>3. FirstSession \in [Service -> Nat]
      BY <2>1, BoundAssumption
    <2> QED
      BY <2>2, <2>3 DEF Init, TypeOK, HandlerState
  <1>2. Allocation
    <2>1. ASSUME NEW c \in Service, NEW i \in CallId, Idle(c, i)
          PROVE  i = 1
      <3>1. 1 \in CallId /\ (1 < i \/ i = 1)
        BY BoundAssumption DEF CallId
      <3>2. call[c][1].state = "idle"
        BY <3>1 DEF Init, NoFrame
      <3> QED
        BY <2>1, <3>1, <3>2 DEF Idle
    <2>2. \A c \in Service : FirstSession[c] \in Nat
      BY BoundAssumption DEF Session
    <2>3. \A c \in Service, i \in CallId : call[c][i] = NoFrame
      BY DEF Init
    <2>4. \A c \in Service : nextSession[c] = FirstSession[c]
      BY DEF Init
    <2> QED
      BY <2>1, <2>2, <2>3, <2>4 DEF Allocation, NoFrame
  <1>3. Registered /\ Watches
    BY DEF Init, Registered, Watches, Waiting, NoFrame
  <1>4. Origins
    BY DEF Init, Origins
  <1> QED
    BY <1>1, <1>2, <1>3, <1>4 DEF IInv

\* ... and every step preserves it.
LEMMA NextIInv == IInv /\ [Next]_vars => IInv'
  <1> SUFFICES ASSUME IInv, [Next]_vars
               PROVE  IInv'
    OBVIOUS
  <1>1. CASE UNCHANGED vars
    <2>1. Respects
      BY <1>1 DEF vars, coreVars, calleeVars, Respects, IInv, TypeOK, Origins
    <2> QED
      BY <2>1, CalleeStep
  <1>2. ASSUME NEW s \in Service, Dispatch(s)
        PROVE  IInv'
    BY <1>2, DispatchResponseStep, DispatchErrorStep, DispatchRequestStep DEF Dispatch
  <1>3. ASSUME NEW s \in Service, Report(s)
        PROVE  IInv'
    BY <1>3, ReportCallerStep, ReportDeferredStep, ReportCalleeStep, ExitStep DEF Report
  <1>4. ASSUME NEW s \in Service, ExitBegin(s) \/ Retire(s)
        PROVE  IInv'
    BY <1>4, ExitStep
  <1>5. ASSUME NEW s \in Service, DropMessage(s)
        PROVE  IInv'
    BY <1>5, DropMessageStep
  <1>6. ASSUME NEW s \in Service, NEW d \in Service, Call(s, d) \/ Term(s, d)
        PROVE  IInv'
    BY <1>6, CallStep, TermStep
  <1>7. ASSUME NEW s \in Service, NEW i \in CallId, Continue(s, i)
        PROVE  IInv'
    BY <1>7, ContinueStep
  <1>8. ASSUME NEW s \in Service, NEW n \in Session, ErrorTail(s, n)
        PROVE  IInv'
    BY <1>8, ErrorTailStep
  <1>9. ASSUME NEW s \in Service, NEW r \in Request, Handle(s, r)
        PROVE  IInv'
    BY <1>9, RetStep, ResponseStep, RespondStep, HandlerEndStep DEF Handle
  <1> QED
    BY <1>1, <1>2, <1>3, <1>4, <1>5, <1>6, <1>7, <1>8, <1>9 DEF Next

\* The inductive invariant: each session is used for one call, the caller's
\* maps follow its calls, and whatever carries a session stems from its call.
THEOREM Invariant == Spec => []IInv
  BY InitIInv, NextIInv, PTL DEF Spec

\* The maps, frames and mailboxes of SkynetSession keep their types: no step
\* of index.ts makes up a session that no call has, whatever the bounds.
THEOREM TypeCorrect == Spec => []TypeOK
  <1>1. IInv => TypeOK
    BY DEF IInv
  <1> QED
    BY <1>1, Invariant, PTL

\* _yield_call, dispatch_message_impl, _error_dispatch and exit keep
\* session_id_callback and watching_request in step with the open calls, for
\* any number of services, calls and sessions.
THEOREM BookkeepingCorrect == Spec => []CallBookkeeping
  <1>1. IInv => CallBookkeeping
    <2> SUFFICES ASSUME IInv, NEW c \in Service, NEW i \in CallId, call[c][i].session # 0
                 PROVE  /\ session_id_callback[c][call[c][i].session] = i
                             <=> call[c][i].state = "waiting"
                        /\ Waiting(c, i) =>
                             watching_request[c][call[c][i].session] = call[c][i].addr
                        /\ call[c][i].state \in {"returned", "failed"} =>
                             watching_request[c][call[c][i].session] = NoAddr
      BY DEF CallBookkeeping
    <2>1. call[c][i].session \in Key /\ i # NoCall
      BY BoundAssumption DEF IInv, TypeOK, CallFrame, CallId, NoCall
    <2>2. session_id_callback[c][call[c][i].session] = i <=> call[c][i].state = "waiting"
      BY <2>1 DEF IInv, Registered
    <2> QED
      BY <2>2 DEF IInv, Watches
  <1> QED
    BY <1>1, Invariant, PTL

\* A promise is settled by a session alone (dispatch_message_impl), yet only
\* the service called settles it: any other answer finds no promise.  This
\* holds even where services use the same sessions.
THEOREM RepliesCorrect == Spec => []ReplyFromCallee
  <1>1. IInv => ReplyFromCallee
    <2> SUFFICES ASSUME IInv, NEW c \in Service, NEW k \in 1 .. Len(mailbox[c]),
                        mailbox[c][k].type # "REQUEST", mailbox[c][k].session # 0,
                        session_id_callback[c][mailbox[c][k].session] # NoCall
                 PROVE  call[c][session_id_callback[c][mailbox[c][k].session]].addr
                          = mailbox[c][k].source
      BY DEF ReplyFromCallee
    <2>1. PICK m \in Good(c) : m = mailbox[c][k]
      BY ElementOfSeq DEF IInv, Origins
    <2>2. PICK i \in CallId : i = session_id_callback[c][m.session]
      BY <2>1 DEF IInv, TypeOK, Good, Message
    <2>3. call[c][i].session = m.session
      BY <2>1, <2>2 DEF IInv, Registered, Good, Message
    <2>4. PICK j \in CallId : call[c][j].session = m.session /\ call[c][j].addr = m.source
      BY <2>1 DEF Good, Called
    <2>5. i = j
      <3>1. FirstSession[c] \in Nat
        BY BoundAssumption DEF Session
      <3>2. m.session # 0
        BY <2>1
      <3>3. m.session = FirstSession[c] + i - 1 /\ m.session = FirstSession[c] + j - 1
        BY <3>2, <2>3, <2>4 DEF IInv, Allocation
      <3> QED
        BY <3>1, <3>3 DEF CallId
    <2> QED
      BY <2>1, <2>2, <2>4, <2>5
  <1> QED
    BY <1>1, Invariant, PTL

-----------------------------------------------------------------------------
(* No call is orphaned.                                                    *)
(*                                                                         *)
(* The books of a callee are kept by session alone, and the sessions of    *)
(* all services start alike: the entry of a request is lost when another   *)
(* of the same session is dispatched or answered, and when the callee      *)
(* drops the sessions of its own calls (ignoreret).  The history says of   *)
(* which requests (excused).  For the others an entry is that of a handler *)
(* that has not answered (Entries), which is the only one with its session *)
(* (Alone); a request is dispatched once (Requests), and only of services  *)
(* that have left exit() is it said that they are down (Notices).          *)

\* m is in the queue q, in the mailbox of s.
In(m, q) == \E k \in 1 .. Len(q) : q[k] = m
Has(s, m) == In(m, mailbox[s])

Asks(c, n) == [type |-> "REQUEST", session |-> n, source |-> c]

\* A request is in the mailbox once, and then its handler has not started.
Once(q) == \A k, l \in 1 .. Len(q) : q[k] = q[l] /\ q[k].type = "REQUEST" => k = l

Requests ==
  /\ \A s \in Service : Once(mailbox[s])
  /\ \A s \in Service, r \in Request : Has(s, Asks(r[1], r[2])) => handler[s][r] = "none"

\* A session is watched for a handler that has not answered.
Entries ==
  \A s \in Service, n \in Session :
    watching_response[s][n] # NoAddr =>
      handler[s][<<watching_response[s][n], n>>] \in {"running", "threw"}

\* A closure is that of a handler that called response().
Closures == \A s \in Service : \A r \in unresponse[s] : handler[s][r] \in {"answered", "done"}

\* A handler that has not answered, and is beside another of its session that
\* has not ended, may lose its entry to it.
Alone ==
  \A s \in Service, q, r \in Request :
    /\ q # r /\ q[2] = r[2]
    /\ handler[s][q] \in {"running", "answered"}
    /\ handler[s][r] \in {"running", "threw"}
    => r \in excused[s]

\* Who is said to be down is.
Sent(m) == m.session = 0 => status[m.source] # "up"

Notices == \A c \in Service, m \in Message : Has(c, m) => Sent(m)

\* A call that was sent was sent to somebody.
Addressed ==
  \A c \in Service, i \in CallId : call[c][i].session # 0 => call[c][i].addr \in Service

OInv ==
  /\ Addressed /\ Requests /\ Entries /\ Closures /\ Alone /\ Notices
  /\ NoCallOrphaned /\ SessionIsKept

-----------------------------------------------------------------------------
(***************************************************************************)
(* Mailboxes.                                                              *)
(***************************************************************************)

\* What is in a queue after e was appended.
LEMMA AppendIn ==
  ASSUME NEW q \in Seq(Message), NEW e \in Message
  PROVE  /\ \A m : In(m, Append(q, e)) <=> In(m, q) \/ m = e
         /\ Once(q) /\ (e.type = "REQUEST" => ~ In(e, q)) => Once(Append(q, e))
  <1>1. /\ Len(q) \in Nat
        /\ Len(Append(q, e)) = Len(q) + 1
        /\ \A i \in 1 .. Len(q) : Append(q, e)[i] = q[i]
        /\ Append(q, e)[Len(q) + 1] = e
    BY AppendProperties, LenProperties
  <1>2. \A i \in 1 .. Len(q) + 1 : i = Len(q) + 1 \/ i \in 1 .. Len(q)
    BY <1>1
  <1>3. \A i \in 1 .. Len(q) : i \in 1 .. Len(q) + 1
    BY <1>1
  <1>4. ASSUME NEW m
        PROVE  In(m, Append(q, e)) <=> In(m, q) \/ m = e
    BY <1>1, <1>2, <1>3 DEF In
  <1>5. ASSUME Once(q), e.type = "REQUEST" => ~ In(e, q)
        PROVE  Once(Append(q, e))
    BY <1>1, <1>2, <1>5 DEF Once, In
  <1> QED
    BY <1>4, <1>5

\* What is in a queue after its first message was taken.
LEMMA TailIn ==
  ASSUME NEW q \in Seq(Message), q # << >>
  PROVE  /\ In(Head(q), q)
         /\ \A m : In(m, q) => In(m, Tail(q)) \/ m = Head(q)
         /\ \A m : In(m, Tail(q)) => In(m, q)
         /\ Once(q) => Once(Tail(q))
         /\ Once(q) /\ Head(q).type = "REQUEST" => ~ In(Head(q), Tail(q))
  <1>1. /\ Len(q) \in Nat \ {0}
        /\ Len(Tail(q)) = Len(q) - 1
        /\ Head(q) = q[1]
        /\ \A i \in 1 .. Len(q) - 1 : Tail(q)[i] = q[i + 1] /\ i + 1 \in 1 .. Len(q) /\ i + 1 # 1
    BY HeadTailProperties, LenProperties, EmptySeq
  <1>2. \A i \in 1 .. Len(q) : i # 1 => i - 1 \in 1 .. Len(q) - 1 /\ i - 1 + 1 = i
    BY <1>1
  <1>3. 1 \in 1 .. Len(q)
    BY <1>1
  <1>4. ASSUME NEW m, In(m, q)
        PROVE  In(m, Tail(q)) \/ m = Head(q)
    <2>1. PICK i \in 1 .. Len(q) : q[i] = m
      BY <1>4 DEF In
    <2>2. CASE i # 1
      <3>1. PICK k \in 1 .. Len(q) - 1 : k + 1 = i
        BY <2>2, <1>2
      <3>2. k \in 1 .. Len(Tail(q)) /\ Tail(q)[k] = m
        BY <2>1, <3>1, <1>1
      <3> QED
        BY <3>2 DEF In
    <2> QED
      BY <2>1, <2>2, <1>1
  <1>5. ASSUME NEW m, In(m, Tail(q))
        PROVE  In(m, q)
    BY <1>1, <1>5 DEF In
  <1>6. ASSUME Once(q)
        PROVE  Once(Tail(q))
    <2> SUFFICES ASSUME NEW k \in 1 .. Len(q) - 1, NEW l \in 1 .. Len(q) - 1,
                        q[k + 1] = q[l + 1], q[k + 1].type = "REQUEST"
                 PROVE  k = l
      BY <1>1 DEF Once
    <2>0. k + 1 \in 1 .. Len(q) /\ l + 1 \in 1 .. Len(q)
      BY <1>1
    <2>1. k + 1 = l + 1
      BY <2>0, <1>6 DEF Once
    <2> QED
      BY <2>1
  <1>7. ASSUME Once(q), Head(q).type = "REQUEST"
        PROVE  ~ In(Head(q), Tail(q))
    BY <1>1, <1>3, <1>7 DEF Once, In
  <1> QED
    BY <1>1, <1>3, <1>4, <1>5, <1>6, <1>7 DEF In

\* What has become of the mailboxes when m was posted to x.
Posts(x, m) ==
  /\ \A s \in Service : \A m2 : Has(s, m2)' <=> Has(s, m2) \/ (s = x /\ Accepts(x) /\ m2 = m)
  /\ (\A s \in Service : Once(mailbox[s])) /\ (m.type = "REQUEST" => ~ Has(x, m))
       => \A s \in Service : Once(mailbox'[s])

\* ... when s has taken m.
Takings(s, m) ==
  /\ Has(s, m)
  /\ \A e \in Service : \A m2 : Has(e, m2) => Has(e, m2)' \/ (e = s /\ m2 = m)
  /\ \A e \in Service : \A m2 : Has(e, m2)' => Has(e, m2)
  /\ (\A e \in Service : Once(mailbox[e]))
       => /\ \A e \in Service : Once(mailbox'[e])
          /\ m.type = "REQUEST" => ~ Has(s, m)'

\* ... when s has taken m, and a message m2 that asks nothing was posted to x.
TakesAndPosts(s, m, x, m2) ==
  /\ Has(s, m)
  /\ \A e \in Service : \A m3 : Has(e, m3) => Has(e, m3)' \/ (e = s /\ m3 = m)
  /\ \A e \in Service : \A m3 : Has(e, m3)' => Has(e, m3) \/ (e = x /\ m3 = m2)
  /\ Accepts(x) => Has(x, m2)'
  /\ (\A e \in Service : Once(mailbox[e]))
       => /\ \A e \in Service : Once(mailbox'[e])
          /\ m.type = "REQUEST" => ~ Has(s, m)'

LEMMA PostHas ==
  ASSUME TypeOK, NEW x \in Service, NEW m \in Message, Post(x, m)
  PROVE  Posts(x, m)
  <1>1. mailbox \in [Service -> Seq(Message)]
    BY DEF TypeOK
  <1>2. CASE Accepts(x)
    <2>1. mailbox'[x] = Append(mailbox[x], m) /\ \A s \in Service : s # x => mailbox'[s] = mailbox[s]
      BY <1>1, <1>2 DEF Post, Posted
    <2>2. /\ \A m2 : In(m2, mailbox'[x]) <=> In(m2, mailbox[x]) \/ m2 = m
          /\ Once(mailbox[x]) /\ (m.type = "REQUEST" => ~ In(m, mailbox[x])) => Once(mailbox'[x])
      BY <1>1, <2>1, AppendIn
    <2> QED
      BY <1>2, <2>1, <2>2 DEF Posts, Has
  <1>3. CASE ~ Accepts(x)
    <2>1. mailbox' = mailbox
      BY <1>3 DEF Post, Posted
    <2> QED
      BY <1>3, <2>1 DEF Posts, Has
  <1> QED
    BY <1>2, <1>3

LEMMA TakeHas ==
  ASSUME TypeOK, NEW s \in Service, mailbox[s] # << >>, mailbox' = Popped(s)
  PROVE  Takings(s, Head(mailbox[s]))
  <1>1. /\ mailbox[s] \in Seq(Message)
        /\ mailbox'[s] = Tail(mailbox[s]) /\ \A e \in Service : e # s => mailbox'[e] = mailbox[e]
    BY DEF TypeOK, Popped
  <1>2. /\ In(Head(mailbox[s]), mailbox[s])
        /\ \A m2 : In(m2, mailbox[s]) => In(m2, mailbox'[s]) \/ m2 = Head(mailbox[s])
        /\ \A m2 : In(m2, mailbox'[s]) => In(m2, mailbox[s])
        /\ Once(mailbox[s]) => Once(mailbox'[s])
        /\ Once(mailbox[s]) /\ Head(mailbox[s]).type = "REQUEST"
             => ~ In(Head(mailbox[s]), mailbox'[s])
    BY <1>1, TailIn
  <1> PICK h : h = Head(mailbox[s])
    OBVIOUS
  <1>3. Takings(s, h)
    BY <1>1, <1>2 DEF Takings, Has
  <1> QED
    BY <1>3

LEMMA TakePostHas ==
  ASSUME TypeOK, NEW s \in Service, mailbox[s] # << >>, NEW x \in Service, NEW m \in Message,
         m.type # "REQUEST", mailbox' = Posted(Popped(s), x, m)
  PROVE  TakesAndPosts(s, Head(mailbox[s]), x, m)
  <1> PICK h : h = Head(mailbox[s])
    OBVIOUS
  <1> DEFINE box == Popped(s)
  <1>1. /\ mailbox \in [Service -> Seq(Message)]
        /\ Tail(mailbox[s]) \in Seq(Message)
        /\ box[s] = Tail(mailbox[s]) /\ \A e \in Service : e # s => box[e] = mailbox[e]
        /\ box \in [Service -> Seq(Message)]
    BY HeadTailProperties DEF TypeOK, Popped
  <1>2. /\ In(h, mailbox[s])
        /\ \A m2 : In(m2, mailbox[s]) => In(m2, box[s]) \/ m2 = h
        /\ \A m2 : In(m2, box[s]) => In(m2, mailbox[s])
        /\ Once(mailbox[s]) => Once(box[s])
        /\ Once(mailbox[s]) /\ h.type = "REQUEST" => ~ In(h, box[s])
    BY <1>1, TailIn
  <1> HIDE DEF box
  <1>3. CASE Accepts(x)
    <2>1. mailbox'[x] = Append(box[x], m) /\ \A e \in Service : e # x => mailbox'[e] = box[e]
      BY <1>1, <1>3 DEF Posted, box
    <2>2. /\ \A m2 : In(m2, mailbox'[x]) <=> In(m2, box[x]) \/ m2 = m
          /\ Once(box[x]) => Once(mailbox'[x])
      BY <1>1, <2>1, AppendIn
    <2>3. TakesAndPosts(s, h, x, m)
      BY <1>1, <1>2, <2>1, <2>2 DEF TakesAndPosts, Has
    <2> QED
      BY <2>3
  <1>4. CASE ~ Accepts(x)
    <2>1. mailbox' = box
      BY <1>4 DEF Posted, box
    <2>2. TakesAndPosts(s, h, x, m)
      BY <1>1, <1>2, <1>4, <2>1 DEF TakesAndPosts, Has
    <2> QED
      BY <2>2
  <1> QED
    BY <1>3, <1>4

-----------------------------------------------------------------------------
(***************************************************************************)
(* What keeps a call from being orphaned.                                  *)
(***************************************************************************)

\* m will settle a call of session n to d.
Settling(m, n, d) ==
  /\ m.type # "REQUEST"
  /\ m.source = d
  /\ m.session = n \/ (m.session = 0 /\ m.type = "ERROR" /\ d \notin Named)

\* The call of session n from c to d is not orphaned (NoCallOrphaned).
Kept(c, n, d) ==
  \/ Has(d, Asks(c, n))
  \/ \E m \in Message : Has(c, m) /\ Settling(m, n, d)
  \/ Accepts(d) /\ (watching_response[d][n] = c \/ <<c, n>> \in unresponse[d])
  \/ handler[d][<<c, n>>] = "forgot"
  \/ <<c, n>> \in excused[d]
  \/ d \in Named /\ status[d] = "gone"

LEMMA OrphanNow ==
  ASSUME TypeOK, NoCallOrphaned, NEW c \in Service, NEW i \in CallId, Waiting(c, i),
         NEW n, n = call[c][i].session, NEW d, d = call[c][i].addr
  PROVE  Kept(c, n, d)
  <1>1. \/ Asked(c, n, d)
        \/ Coming(c, i)
        \/ Owed(d, <<c, n>>)
        \/ handler[d][<<c, n>>] = "forgot"
        \/ <<c, n>> \in excused[d]
        \/ d \in Named /\ status[d] = "gone"
    BY DEF NoCallOrphaned
  <1>2. CASE Coming(c, i)
    <2>1. PICK k \in 1 .. Len(mailbox[c]) : Decides(mailbox[c][k], c, i)
      BY <1>2 DEF Coming
    <2>2. PICK m \in Message : m = mailbox[c][k]
      BY ElementOfSeq DEF TypeOK
    <2>3. Has(c, m) /\ Settling(m, n, d)
      BY <2>1, <2>2 DEF Decides, Settling, Has, In
    <2> QED
      BY <2>3 DEF Kept
  <1> QED
    BY <1>1, <1>2 DEF Kept, Asked, Asks, Has, In, Owed

LEMMA OrphanNext ==
  ASSUME TypeOK', Addressed',
         \A c \in Service, i \in CallId, n \in Session, d \in Service :
           Waiting(c, i)' /\ n = call'[c][i].session /\ d = call'[c][i].addr => Kept(c, n, d)'
  PROVE  NoCallOrphaned'
  <1> SUFFICES ASSUME NEW c \in Service, NEW i \in CallId, Waiting(c, i)'
               PROVE  (LET d == call[c][i].addr
                           r == <<c, call[c][i].session>>
                       IN  \/ Asked(c, r[2], d)
                           \/ Coming(c, i)
                           \/ Owed(d, r)
                           \/ handler[d][r] = "forgot"
                           \/ r \in excused[d]
                           \/ d \in Named /\ status[d] = "gone")'
    BY DEF NoCallOrphaned
  <1>1. PICK n \in Session : n = call'[c][i].session
    <2>1. call'[c][i].session \in Key \ {0}
      BY DEF TypeOK, CallFrame, Waiting
    <2> QED
      BY <2>1 DEF Key, Session
  <1>2. PICK d \in Service : d = call'[c][i].addr
    BY DEF Addressed, Waiting
  <1>3. Kept(c, n, d)'
    BY <1>1, <1>2
  <1>4. ASSUME NEW m \in Message, Has(c, m)', Settling(m, n, d)
        PROVE  Coming(c, i)'
    BY <1>1, <1>2, <1>4 DEF Coming, Decides, Settling, Has, In
  <1>5. Has(d, Asks(c, n))' => Asked(c, n, d)'
    BY DEF Has, In, Asked, Asks
  <1>6. \/ Asked(c, n, d)'
        \/ Coming(c, i)'
        \/ Owed(d, <<c, n>>)'
        \/ handler'[d][<<c, n>>] = "forgot"
        \/ <<c, n>> \in excused'[d]
        \/ d \in Named /\ status'[d] = "gone"
    BY <1>3, <1>4, <1>5 DEF Kept, Owed
  <1> QED
    BY <1>1, <1>2, <1>6

-----------------------------------------------------------------------------
(***************************************************************************)
(* What most steps leave as it is.                                         *)
(***************************************************************************)

\* A step that makes no call and starts no handler.
Steady ==
  /\ \A s \in Service : status'[s] = "up" => status[s] = "up"
  /\ \A c \in Service, i \in CallId :
       /\ call'[c][i].session = call[c][i].session
       /\ call'[c][i].addr = call[c][i].addr
       /\ call'[c][i].state = "waiting" => call[c][i].state = "waiting"
  /\ \A s \in Service, r \in Request :
       \/ handler'[s][r] = handler[s][r]
       \/ handler[s][r] = "running" /\ handler'[s][r] \notin {"none", "running"}
       \/ handler[s][r] = "answered" /\ handler'[s][r] = "done"
  /\ \A s \in Service : excused[s] \subseteq excused'[s]
  /\ \A s \in Service : Once(mailbox'[s])
  /\ \A s \in Service, c \in Service, n \in Session : Has(s, Asks(c, n))' => Has(s, Asks(c, n))

\* Such a step puts no handler beside another.
LEMMA SteadyFacts ==
  ASSUME OInv, Steady
  PROVE  Addressed' /\ Requests' /\ Alone'
  <1> USE DEF OInv
  <1>1. Addressed'
    BY DEF Steady, Addressed
  <1>2. Requests'
    <2>1. ASSUME NEW s \in Service, NEW r \in Request, Has(s, Asks(r[1], r[2]))'
          PROVE  handler'[s][r] = "none"
      <3>1. r[1] \in Service /\ r[2] \in Session
        BY DEF Request
      <3>2. Has(s, Asks(r[1], r[2]))
        BY <2>1, <3>1 DEF Steady
      <3> QED
        BY <3>2 DEF Requests, Steady
    <2> QED
      BY <2>1 DEF Requests, Steady
  <1>3. Alone'
    <2> SUFFICES ASSUME NEW s \in Service, NEW q \in Request, NEW r \in Request,
                        q # r, q[2] = r[2],
                        handler'[s][q] \in {"running", "answered"},
                        handler'[s][r] \in {"running", "threw"}
                 PROVE  r \in excused'[s]
      BY DEF Alone
    <2>1. handler[s][q] \in {"running", "answered"}
      BY DEF Steady
    <2>2. handler[s][r] \in {"running", "threw"}
      BY DEF Steady
    <2>3. r \in excused[s]
      BY <2>1, <2>2 DEF Alone
    <2> QED
      BY <2>3 DEF Steady
  <1> QED
    BY <1>1, <1>2, <1>3

\* Who is down stays so.
LEMMA NoticesNext ==
  ASSUME Notices,
         \A s \in Service : status'[s] = "up" => status[s] = "up",
         \A e \in Service, m \in Message : Has(e, m)' => Has(e, m) \/ Sent(m)'
  PROVE  Notices'
  <1> SUFFICES ASSUME NEW c \in Service, NEW m \in Message, Has(c, m)', Has(c, m)
               PROVE  Sent(m)'
    BY DEF Notices
  <1>1. Sent(m) /\ m.source \in Service
    BY DEF Notices, Message
  <1> QED
    BY <1>1 DEF Sent

-----------------------------------------------------------------------------
(***************************************************************************)
(* The steps that settle calls, and those of exit() and of the core: they  *)
(* drop from the callee's books the sessions of the service's own calls    *)
(* (ignoreret) - whosever they are there - and closures for who is down.   *)
(***************************************************************************)

\* A step that ignores the sessions K of s.
Ignores(s, K) ==
  /\ Steady
  /\ UNCHANGED handler
  /\ \A e \in Service : status[e] = "gone" => status'[e] = "gone"
  /\ \A e \in Service :
       Accepts(e) /\ (Watched(e) # {} \/ unresponse[e] # {}) => Accepts(e)'
  /\ \A e \in Service, k \in Session :
       watching_response'[e][k] = IF e = s /\ k \in K THEN NoAddr ELSE watching_response[e][k]
  /\ \A e \in Service : unresponse'[e] \subseteq unresponse[e]
  /\ \A e \in Service : \A r \in unresponse[e] : r \in unresponse'[e] \/ status[r[1]] # "up"
  /\ \A r \in Request :
       r[2] \in K /\ handler[s][r] \in {"running", "threw"} => r \in excused'[s]
  /\ \A e \in Service, m \in Message : Has(e, m)' => Has(e, m) \/ Sent(m)'

\* A message that s has taken settled what it could.
Spent(s, m) ==
  /\ m.type # "REQUEST"
  /\ \A i \in CallId :
       /\ status[s] = "up"
       /\ call[s][i].session # 0
       /\ Settling(m, call[s][i].session, call[s][i].addr)
       => call'[s][i].state # "waiting"

\* An entry that such a step drops is that of a request that it excuses.
LEMMA IgnoresKeeps ==
  ASSUME IInv, TypeOK', OInv, NEW s \in Service, NEW K, Ignores(s, K),
         \A e \in Service, m \in Message : Has(e, m) => Has(e, m)' \/ (e = s /\ Spent(s, m))
  PROVE  OInv'
  <1> USE DEF OInv
  <1>1. Steady
    BY DEF Ignores
  <1>2. Addressed' /\ Requests' /\ Alone'
    BY <1>1, SteadyFacts
  <1>3. Notices'
    BY <1>1, NoticesNext DEF Ignores, Steady
  <1>4. \A e \in Service : excused[e] \subseteq excused'[e]
    BY <1>1 DEF Steady
  <1>5. Entries'
    BY ServiceAssumption DEF Entries, Ignores
  <1>6. Closures'
    BY DEF Closures, Ignores
  <1>7. NoCallOrphaned'
    <2> SUFFICES ASSUME NEW c \in Service, NEW i \in CallId, NEW n \in Session, NEW d \in Service,
                        Waiting(c, i)', n = call'[c][i].session, d = call'[c][i].addr
                 PROVE  Kept(c, n, d)'
      BY <1>2, OrphanNext
    <2>1. /\ Waiting(c, i) /\ n = call[c][i].session /\ d = call[c][i].addr
          /\ call'[c][i].state = "waiting" /\ n # 0
      BY <1>1 DEF Waiting, Steady, Session
    <2>2. Kept(c, n, d)
      BY <2>1, OrphanNow DEF IInv
    <2>3. CASE Has(d, Asks(c, n))
      <3>0. n \in Key
        BY DEF Key, Session
      <3>1. PICK m \in Message : m = Asks(c, n)
        BY <3>0 DEF Asks, Message
      <3>2. Has(d, m)'
        BY <2>3, <3>1 DEF Spent, Asks
      <3> QED
        BY <3>1, <3>2 DEF Kept
    <2>4. ASSUME NEW m \in Message, Has(c, m), Settling(m, n, d)
          PROVE  Kept(c, n, d)'
      <3>1. ~ (c = s /\ Spent(s, m))
        BY <2>1, <2>4 DEF Spent, Waiting
      <3>2. Has(c, m)'
        BY <2>4, <3>1
      <3>3. Settling(m, n, d)'
        BY <2>4 DEF Settling
      <3> QED
        BY <3>2, <3>3 DEF Kept
    <2>5. CASE Accepts(d) /\ watching_response[d][n] = c
      <3>1. Accepts(d)'
        BY <2>5, ServiceAssumption DEF Ignores, Watched
      <3>2. PICK r \in Request : r = <<c, n>>
        BY DEF Request
      <3>3. d = s /\ n \in K => r \in excused'[d]
        <4>1. handler[d][r] \in {"running", "threw"}
          BY <2>5, <3>2, ServiceAssumption DEF Entries
        <4> QED
          BY <3>2, <4>1 DEF Ignores
      <3>4. ~ (d = s /\ n \in K) => watching_response'[d][n] = c
        BY <2>5 DEF Ignores
      <3> QED
        BY <3>1, <3>2, <3>3, <3>4 DEF Kept
    <2>6. CASE Accepts(d) /\ <<c, n>> \in unresponse[d]
      <3>1. Accepts(d)'
        BY <2>6 DEF Ignores
      <3>2. <<c, n>> \in unresponse'[d]
        BY <2>1, <2>6 DEF Ignores, Waiting
      <3> QED
        BY <3>1, <3>2 DEF Kept
    <2>7. CASE handler[d][<<c, n>>] = "forgot" \/ <<c, n>> \in excused[d]
      BY <1>4, <2>7 DEF Kept, Ignores
    <2>8. CASE d \in Named /\ status[d] = "gone"
      BY <2>8 DEF Kept, Ignores
    <2> QED
      BY <2>2, <2>3, <2>4, <2>5, <2>6, <2>7, <2>8 DEF Kept
  <1>8. SessionIsKept'
    <2> SUFFICES ASSUME NEW e \in Service, NEW r \in Request,
                        status'[e] = "up", handler'[e][r] = "running", r \notin excused'[e]
                 PROVE  watching_response'[e][r[2]] = r[1]
      BY DEF SessionIsKept
    <2>1. status[e] = "up" /\ handler[e][r] = "running" /\ r \notin excused[e]
      BY <1>1 DEF Ignores, Steady
    <2>2. watching_response[e][r[2]] = r[1]
      BY <2>1 DEF SessionIsKept
    <2>3. r[2] \in Session /\ ~ (e = s /\ r[2] \in K)
      BY <2>1 DEF Ignores, Request
    <2> QED
      BY <2>2, <2>3 DEF Ignores
  <1> QED
    BY <1>2, <1>3, <1>5, <1>6, <1>7, <1>8

-----------------------------------------------------------------------------
(***************************************************************************)
(* The steps that answer a request, or end its handler.                    *)
(***************************************************************************)

\* A step of s about the request <<c, n>>.  What takes the request off the
\* books either posts its answer or is the end of a handler that forgot it.
\* The entry that goes is that of <<c, n>>, or its handler has not ended.
Concerns(s, c, n) ==
  /\ Steady
  /\ UNCHANGED status
  /\ \A e \in Service, q \in Request :
       <<e, q>> # <<s, <<c, n>>>> =>
         handler'[e][q] = handler[e][q] /\ (q \in unresponse'[e] <=> q \in unresponse[e])
  /\ \A e \in Service, k \in Session :
       \/ watching_response'[e][k] = watching_response[e][k]
       \/ <<e, k>> = <<s, n>> /\ watching_response'[e][k] = NoAddr
  /\ \/ watching_response'[s][n] = watching_response[s][n]
     \/ watching_response[s][n] = c
     \/ handler[s][<<c, n>>] \in {"running", "answered"}
  /\ watching_response'[s][n] = c => handler'[s][<<c, n>>] \in {"running", "threw"}
  /\ handler'[s][<<c, n>>] = "running" /\ status[s] = "up" =>
       watching_response'[s][n] = watching_response[s][n]
  /\ <<c, n>> \in unresponse'[s] => handler'[s][<<c, n>>] \in {"answered", "done"}
  /\ \A e \in Service, m \in Message : Has(e, m) => Has(e, m)'
  /\ \A e \in Service, m \in Message : Has(e, m)' => Has(e, m) \/ Sent(m)'
  /\ status[c] = "up" /\ (watching_response[s][n] = c \/ <<c, n>> \in unresponse[s]) =>
       \/ watching_response'[s][n] = c
       \/ <<c, n>> \in unresponse'[s]
       \/ \E m \in Message : Has(c, m)' /\ Settling(m, n, s)
       \/ handler'[s][<<c, n>>] = "forgot"

LEMMA ConcernsKeeps ==
  ASSUME IInv, TypeOK', OInv, NEW s \in Service, NEW c \in Service,
         NEW n \in Session, Concerns(s, c, n)
  PROVE  OInv'
  <1> USE DEF OInv
  <1>1. Steady
    BY DEF Concerns
  <1>2. Addressed' /\ Requests' /\ Alone'
    BY <1>1, SteadyFacts
  <1>3. Notices'
    BY <1>1, NoticesNext DEF Concerns, Steady
  <1>4. \A e \in Service : excused[e] \subseteq excused'[e]
    BY <1>1 DEF Steady
  \* Another request of the session n that has an entry at s, or should have one,
  \* is excused when this step drops the entry.
  <1>5. ASSUME NEW x \in Service, x # c, handler[s][<<x, n>>] \in {"running", "threw"},
               watching_response[s][n] = x
        PROVE  watching_response'[s][n] = x \/ <<x, n>> \in excused[s]
    <2>1. CASE watching_response'[s][n] = watching_response[s][n]
      BY <1>5, <2>1
    <2>2. CASE handler[s][<<c, n>>] \in {"running", "answered"}
      <3>1. PICK q \in Request, r \in Request : q = <<c, n>> /\ r = <<x, n>>
        BY DEF Request
      <3>2. q # r /\ q[2] = r[2]
        BY <1>5, <3>1
      <3> QED
        BY <1>5, <2>2, <3>1, <3>2 DEF Alone
    <2> QED
      BY <1>5, <2>1, <2>2 DEF Concerns
  <1>6. Entries'
    <2> SUFFICES ASSUME NEW e \in Service, NEW k \in Session, watching_response'[e][k] # NoAddr
                 PROVE  handler'[e][<<watching_response'[e][k], k>>] \in {"running", "threw"}
      BY DEF Entries
    <2>1. watching_response'[e][k] = watching_response[e][k]
      BY DEF Concerns
    <2>2. PICK x \in Service : x = watching_response[e][k]
      BY <2>1 DEF IInv, TypeOK
    <2>3. PICK q \in Request : q = <<x, k>>
      BY <2>2 DEF Request
    <2>4. CASE <<e, q>> = <<s, <<c, n>>>>
      BY <2>1, <2>2, <2>3, <2>4 DEF Concerns
    <2>5. CASE <<e, q>> # <<s, <<c, n>>>>
      <3>1. handler'[e][q] = handler[e][q]
        BY <2>5 DEF Concerns
      <3> QED
        BY <2>1, <2>2, <2>3, <3>1 DEF Entries
    <2> QED
      BY <2>4, <2>5
  <1>7. Closures'
    <2> SUFFICES ASSUME NEW e \in Service, NEW q \in unresponse'[e]
                 PROVE  handler'[e][q] \in {"answered", "done"}
      BY DEF Closures
    <2>1. q \in Request
      BY DEF TypeOK
    <2>2. CASE <<e, q>> = <<s, <<c, n>>>>
      BY <2>2 DEF Concerns
    <2>3. CASE <<e, q>> # <<s, <<c, n>>>>
      BY <2>1, <2>3 DEF Concerns, Closures
    <2> QED
      BY <2>2, <2>3
  <1>8. NoCallOrphaned'
    <2> SUFFICES ASSUME NEW e \in Service, NEW i \in CallId, NEW k \in Session, NEW d \in Service,
                        Waiting(e, i)', k = call'[e][i].session, d = call'[e][i].addr
                 PROVE  Kept(e, k, d)'
      BY <1>2, OrphanNext
    <2>1. /\ Waiting(e, i) /\ k = call[e][i].session /\ d = call[e][i].addr
      BY <1>1 DEF Waiting, Steady, Session
    <2>2. Kept(e, k, d)
      BY <2>1, OrphanNow DEF IInv
    <2>3. CASE Has(d, Asks(e, k))
      <3>0. k \in Key
        BY DEF Key, Session
      <3>1. PICK m \in Message : m = Asks(e, k)
        BY <3>0 DEF Asks, Message
      <3>2. Has(d, m)'
        BY <2>3, <3>1 DEF Concerns
      <3> QED
        BY <3>1, <3>2 DEF Kept
    <2>4. ASSUME NEW m \in Message, Has(e, m), Settling(m, k, d)
          PROVE  Kept(e, k, d)'
      <3>1. Has(e, m)' /\ Settling(m, k, d)'
        BY <2>4 DEF Concerns, Settling
      <3> QED
        BY <3>1 DEF Kept
    <2>5. CASE Accepts(d) /\ (watching_response[d][k] = e \/ <<e, k>> \in unresponse[d])
      <3>1. Accepts(d)'
        BY <2>5 DEF Accepts, Concerns
      <3>2. CASE <<d, <<e, k>>>> = <<s, <<c, n>>>>
        <4>1. d = s /\ e = c /\ k = n
          BY <3>2
        <4>2. \/ watching_response'[s][n] = c
              \/ <<c, n>> \in unresponse'[s]
              \/ \E m \in Message : Has(c, m)' /\ Settling(m, n, s)
              \/ handler'[s][<<c, n>>] = "forgot"
          BY <2>1, <2>5, <4>1 DEF Concerns, Waiting
        <4>3. \A m : Settling(m, n, s) => Settling(m, n, s)'
          BY DEF Settling
        <4> QED
          BY <3>1, <4>1, <4>2, <4>3 DEF Kept
      <3>3. CASE <<d, <<e, k>>>> # <<s, <<c, n>>>>
        <4>1. <<e, k>> \in Request
          BY DEF Request
        <4>2. <<e, k>> \in unresponse[d] => <<e, k>> \in unresponse'[d]
          BY <3>3, <4>1 DEF Concerns
        <4>3. watching_response[d][k] = e =>
                watching_response'[d][k] = e \/ <<e, k>> \in excused[d]
          <5>1. CASE <<d, k>> # <<s, n>>
            BY <5>1 DEF Concerns
          <5>2. CASE <<d, k>> = <<s, n>>
            <6>1. e # c /\ d = s /\ k = n
              BY <3>3, <5>2
            <6>2. watching_response[s][n] = e => handler[s][<<e, n>>] \in {"running", "threw"}
              BY ServiceAssumption DEF Entries
            <6> QED
              BY <1>5, <6>1, <6>2
          <5> QED
            BY <5>1, <5>2
        <4> QED
          BY <1>4, <2>5, <3>1, <4>2, <4>3 DEF Kept
      <3> QED
        BY <3>2, <3>3
    <2>6. CASE handler[d][<<e, k>>] = "forgot"
      <3>1. <<e, k>> \in Request
        BY DEF Request
      <3>2. handler'[d][<<e, k>>] = "forgot"
        BY <1>1, <2>6, <3>1 DEF Steady
      <3> QED
        BY <3>2 DEF Kept
    <2>7. CASE <<e, k>> \in excused[d] \/ (d \in Named /\ status[d] = "gone")
      BY <1>4, <2>7 DEF Kept, Concerns
    <2> QED
      BY <2>2, <2>3, <2>4, <2>5, <2>6, <2>7 DEF Kept
  <1>9. SessionIsKept'
    <2> SUFFICES ASSUME NEW e \in Service, NEW r \in Request,
                        status'[e] = "up", handler'[e][r] = "running", r \notin excused'[e]
                 PROVE  watching_response'[e][r[2]] = r[1]
      BY DEF SessionIsKept
    <2>1. status[e] = "up" /\ handler[e][r] = "running" /\ r \notin excused[e]
      BY <1>1, <1>4 DEF Steady
    <2>2. PICK x \in Service, k \in Session : r = <<x, k>>
      BY DEF Request
    <2>3. watching_response[e][k] = x
      BY <2>1, <2>2 DEF SessionIsKept
    <2>4. CASE <<e, k>> # <<s, n>>
      BY <2>2, <2>3, <2>4 DEF Concerns
    <2>5. CASE <<e, k>> = <<s, n>> /\ x = c
      BY <2>1, <2>2, <2>3, <2>5 DEF Concerns
    <2>6. CASE <<e, k>> = <<s, n>> /\ x # c
      BY <1>5, <2>1, <2>2, <2>3, <2>6
    <2> QED
      BY <2>2, <2>4, <2>5, <2>6
  <1> QED
    BY <1>2, <1>3, <1>6, <1>7, <1>8, <1>9

-----------------------------------------------------------------------------
(***************************************************************************)
(* Each step.                                                              *)
(***************************************************************************)

\* IgnoreRet drops the entries of the sessions K, and no others.
LEMMA Ignored ==
  ASSUME IInv, NEW s \in Service, NEW K, IgnoreRet(s, K)
  PROVE  \A e \in Service, k \in Session :
           watching_response'[e][k] = IF e = s /\ k \in K THEN NoAddr ELSE watching_response[e][k]
  <1>1. watching_response \in [Service -> [Session -> Service \cup {NoAddr}]]
    BY DEF IInv, TypeOK
  <1> QED
    BY <1>1 DEF IgnoreRet

\* A step that leaves the mailboxes and the callees' books alone.
LEMMA QuietKeeps ==
  ASSUME IInv, TypeOK', OInv, NEW s \in Service,
         UNCHANGED <<mailbox, calleeVars>>,
         \A e \in Service : status'[e] = "up" => status[e] = "up",
         \A e \in Service : status[e] = "gone" => status'[e] = "gone",
         \A e \in Service :
           Accepts(e) /\ (Watched(e) # {} \/ unresponse[e] # {}) => Accepts(e)',
         \A c \in Service, i \in CallId :
           /\ call'[c][i].session = call[c][i].session
           /\ call'[c][i].addr = call[c][i].addr
           /\ call'[c][i].state = "waiting" => call[c][i].state = "waiting"
  PROVE  OInv'
  <1>1. \A e, m : Has(e, m)' <=> Has(e, m)
    BY DEF Has
  <1>2. Steady
    BY <1>1 DEF Steady, calleeVars, OInv, Requests
  <1>3. \A e \in Service, k \in Session :
          watching_response'[e][k] = IF e = s /\ k \in {} THEN NoAddr ELSE watching_response[e][k]
    BY DEF calleeVars
  <1>4. Ignores(s, {})
    BY <1>1, <1>2, <1>3 DEF Ignores, calleeVars
  <1> QED
    BY <1>1, <1>4, IgnoresKeeps

\* The await of _yield_call resumes.
LEMMA ContinueKeeps ==
  ASSUME IInv, TypeOK', OInv, NEW c \in Service, NEW i \in CallId, Continue(c, i)
  PROVE  OInv'
  <1>1. UNCHANGED <<status, mailbox, calleeVars>>
    BY DEF Continue, coreVars
  <1>2. PICK st \in CallState : st \in {"returned", "failed"} /\ call' = Changed(c, i, st)
    BY DEF Continue, CallState, Changed
  <1>3. /\ call'[c][i].state = st
        /\ \A e \in Service, j \in CallId :
             /\ call'[e][j].session = call[e][j].session
             /\ call'[e][j].addr = call[e][j].addr
             /\ <<e, j>> # <<c, i>> => call'[e][j] = call[e][j]
    BY <1>2, StateChange DEF IInv
  <1>4. \A e \in Service, j \in CallId : call'[e][j].state = "waiting" => call[e][j].state = "waiting"
    BY <1>2, <1>3
  <1>5. \A e \in Service : Accepts(e) => Accepts(e)'
    BY <1>1 DEF Accepts
  <1> QED
    BY <1>1, <1>3, <1>4, <1>5, QuietKeeps

\* The steps of exit() that send nothing: the handle is retired when the
\* books are empty.
LEMMA ExitKeeps ==
  ASSUME IInv, TypeOK', OInv, NEW s \in Service,
         ExitBegin(s) \/ ExitEnd(s) \/ Retire(s)
  PROVE  OInv'
  <1>1. UNCHANGED <<mailbox, callerVars, calleeVars>>
    BY DEF ExitBegin, ExitEnd, Retire
  <1>2. status \in [Service -> {"up", "reporting", "exiting", "gone"}]
    BY DEF IInv, TypeOK
  <1>3. PICK st \in {"reporting", "exiting", "gone"} :
          /\ status' = [status EXCEPT ![s] = st]
          /\ status[s] # "gone"
          /\ \/ st = "reporting"
             \/ st = "exiting" /\ Watched(s) = {} /\ unresponse[s] = {}
             \/ ~ Accepts(s)
    BY DEF ExitBegin, ExitEnd, Retire, Accepts
  <1>4. status'[s] = st /\ \A e \in Service : e # s => status'[e] = status[e]
    BY <1>2, <1>3
  <1>5. \A e \in Service :
          Accepts(e) /\ (Watched(e) # {} \/ unresponse[e] # {}) => Accepts(e)'
    BY <1>3, <1>4 DEF Accepts
  <1>6. \A e \in Service :
          /\ status'[e] = "up" => status[e] = "up"
          /\ status[e] = "gone" => status'[e] = "gone"
    BY <1>3, <1>4
  <1> QED
    BY <1>1, <1>5, <1>6, QuietKeeps DEF callerVars

\* Nothing happens.
LEMMA StutterKeeps ==
  ASSUME OInv, UNCHANGED vars
  PROVE  OInv'
  <1> USE DEF vars, coreVars, callerVars, calleeVars, OInv
  <1>1. Addressed' /\ Entries' /\ Closures' /\ Alone'
    BY DEF Addressed, Entries, Closures, Alone
  <1>2. Requests'
    BY DEF Requests, Has
  <1>3. Notices'
    BY DEF Notices, Has, Sent
  <1>5. SessionIsKept'
    BY DEF SessionIsKept
  <1>6. ASSUME NEW c \in Service, NEW i \in CallId, NEW d, NEW r
        PROVE  /\ Waiting(c, i)' <=> Waiting(c, i)
               /\ Asked(c, r[2], d)' <=> Asked(c, r[2], d)
               /\ Coming(c, i)' <=> Coming(c, i)
               /\ Owed(d, r)' <=> Owed(d, r)
    <2>1. Waiting(c, i)' <=> Waiting(c, i)
      BY DEF Waiting
    <2>2. Asked(c, r[2], d)' <=> Asked(c, r[2], d)
      BY DEF Asked
    <2>3. Coming(c, i)' <=> Coming(c, i)
      BY DEF Coming, Decides
    <2>4. Owed(d, r)' <=> Owed(d, r)
      BY DEF Owed, Accepts
    <2> QED
      BY <2>1, <2>2, <2>3, <2>4
  <1>7. NoCallOrphaned'
    BY <1>6 DEF NoCallOrphaned
  <1> QED
    BY <1>1, <1>2, <1>3, <1>5, <1>7

\* The second ignoreret of an ERROR.
LEMMA ErrorTailKeeps ==
  ASSUME IInv, TypeOK', OInv, NEW s \in Service, NEW n \in Session, ErrorTail(s, n)
  PROVE  OInv'
  <1>1. /\ UNCHANGED <<status, mailbox, call, unresponse, handler>>
        /\ IgnoreOwn(s, {n})
    BY DEF ErrorTail, coreVars, callerVars
  <1>2. \A e, m : Has(e, m)' <=> Has(e, m)
    BY <1>1 DEF Has
  <1>3. /\ IgnoreRet(s, {n})
        /\ \A e \in Service : excused[e] \subseteq excused'[e]
        /\ \A r \in Request :
             r[2] \in {n} /\ handler[s][r] \in {"running", "threw"} => r \in excused'[s]
    BY <1>1, IgnoreOwnFacts
  <1>4. Steady
    BY <1>1, <1>2, <1>3 DEF Steady, OInv, Requests
  <1>5. \A e \in Service : Accepts(e) => Accepts(e)'
    BY <1>1 DEF Accepts
  <1>6. Ignores(s, {n})
    BY <1>1, <1>2, <1>3, <1>4, <1>5, Ignored DEF Ignores
  <1> QED
    BY <1>2, <1>6, IgnoresKeeps

\* Reject makes no call wait, and none of the sessions K.
LEMMA Rejected ==
  ASSUME IInv, NEW s \in Service, NEW K \in SUBSET Key, Reject(s, K)
  PROVE  /\ \A c \in Service, i \in CallId :
              /\ call'[c][i].session = call[c][i].session
              /\ call'[c][i].addr = call[c][i].addr
              /\ call'[c][i].state = "waiting" => call[c][i].state = "waiting"
         /\ \A i \in CallId : call[s][i].session \in K \ {0} => call'[s][i].state # "waiting"
  <1>1. /\ \A c \in Service, i \in CallId :
             /\ call'[c][i].session = call[c][i].session
             /\ call'[c][i].addr = call[c][i].addr
             /\ \/ call'[c][i].state = call[c][i].state
                \/ /\ c = s /\ call[s][i].session \in K
                   /\ call[s][i].state = "waiting"
                   /\ call'[s][i].state = "rejected"
        /\ \A i \in CallId : call[s][i].session \in K \ {0} => call'[s][i].state # "waiting"
    BY RejectFacts
  <1>2. \A c \in Service, i \in CallId :
          call'[c][i].state = "waiting" => call[c][i].state = "waiting"
    BY <1>1
  <1> QED
    BY <1>1, <1>2

\* _error_dispatch(0, x) for an x that is down drops the sessions of the
\* calls to x, and the closures that x asked for.
LEMMA SourceDownIgnores ==
  ASSUME IInv, OInv, NEW s \in Service, NEW x \in Service, status[x] # "up",
         SourceDown(s, x), UNCHANGED <<status, handler>>,
         \A e \in Service : Once(mailbox'[e]),
         \A e \in Service : \A m : Has(e, m)' => Has(e, m)
  PROVE  \E K \in SUBSET Key :
           /\ K = WaitingFor(s, x)
           /\ Ignores(s, K)
           /\ \A i \in CallId : call[s][i].session \in K \ {0} => call'[s][i].state # "waiting"
  <1>1. PICK K \in SUBSET Key : K = WaitingFor(s, x)
    BY DEF WaitingFor
  <1>2. /\ unresponse' = [unresponse EXCEPT ![s] = {r \in @ : r[1] # x}]
        /\ watching_request' = [watching_request EXCEPT ![s] =
                                  [n \in Key |-> IF n \in K THEN NoAddr ELSE @[n]]]
        /\ Reject(s, K)
        /\ IgnoreOwn(s, K)
    BY <1>1 DEF SourceDown
  <1>3. /\ IgnoreRet(s, K)
        /\ \A e \in Service : excused[e] \subseteq excused'[e]
        /\ \A r \in Request :
             r[2] \in K /\ handler[s][r] \in {"running", "threw"} => r \in excused'[s]
    BY <1>2, IgnoreOwnFacts
  <1>4. /\ \A c \in Service, i \in CallId :
             /\ call'[c][i].session = call[c][i].session
             /\ call'[c][i].addr = call[c][i].addr
             /\ call'[c][i].state = "waiting" => call[c][i].state = "waiting"
        /\ \A i \in CallId : call[s][i].session \in K \ {0} => call'[s][i].state # "waiting"
    BY <1>2, Rejected
  <1>5. Steady
    BY <1>3, <1>4 DEF Steady
  <1>6. /\ \A e \in Service : unresponse'[e] \subseteq unresponse[e]
        /\ \A e \in Service : \A r \in unresponse[e] : r \in unresponse'[e] \/ status[r[1]] # "up"
    <2>1. unresponse \in [Service -> SUBSET Request]
      BY DEF IInv, TypeOK
    <2> QED
      BY <1>2, <2>1
  <1>7. \A e \in Service, k \in Session :
          watching_response'[e][k] = IF e = s /\ k \in K THEN NoAddr ELSE watching_response[e][k]
    BY <1>3, Ignored
  <1>8. \A e \in Service : Accepts(e) => Accepts(e)'
    BY DEF Accepts
  <1>9. Ignores(s, K)
    BY <1>3, <1>5, <1>6, <1>7, <1>8 DEF Ignores
  <1> QED
    BY <1>1, <1>4, <1>9

\* term() is told of a service that has retired.
LEMMA TermKeeps ==
  ASSUME IInv, TypeOK', OInv, NEW s \in Service, NEW x \in Service, Term(s, x)
  PROVE  OInv'
  <1>1. /\ SourceDown(s, x) /\ status[x] # "up"
        /\ UNCHANGED <<status, mailbox, handler>>
    BY DEF Term, coreVars, Accepts
  <1>2. \A e, m : Has(e, m)' <=> Has(e, m)
    BY <1>1 DEF Has
  <1>3. \A e \in Service : Once(mailbox'[e])
    BY <1>1 DEF OInv, Requests
  <1>4. PICK K : Ignores(s, K)
    BY <1>1, <1>2, <1>3, SourceDownIgnores
  <1> QED
    BY <1>2, <1>4, IgnoresKeeps

\* A message is taken from a mailbox: what Takings says holds of the step.
LEMMA TakenFacts ==
  ASSUME IInv, OInv, NEW s \in Service, Takes(s), mailbox' = Popped(s),
         NEW m, m = Head(mailbox[s])
  PROVE  /\ Has(s, m)
         /\ \A e \in Service : \A m2 : Has(e, m2) => Has(e, m2)' \/ (e = s /\ m2 = m)
         /\ \A e \in Service : \A m2 : Has(e, m2)' => Has(e, m2)
         /\ \A e \in Service : Once(mailbox'[e])
         /\ m.type = "REQUEST" => ~ Has(s, m)'
         /\ UNCHANGED status
         /\ \A e \in Service : Accepts(e) => Accepts(e)'
  <1>1. UNCHANGED status /\ mailbox[s] # << >>
    BY DEF Takes
  <1>2. Takings(s, Head(mailbox[s]))
    BY <1>1, TakeHas DEF IInv
  <1>3. Takings(s, m)
    BY <1>2
  <1> QED
    BY <1>1, <1>3 DEF Takings, OInv, Requests, Accepts

\* A RESPONSE settles the call of its session.
LEMMA DispatchResponseKeeps ==
  ASSUME IInv, TypeOK', OInv, NEW s \in Service, DispatchResponse(s)
  PROVE  OInv'
  <1>1. PICK m \in Message : m = Head(mailbox[s])
    BY TakesFacts DEF DispatchResponse, Good
  <1>2. PICK n \in Key : n = m.session
    BY <1>1 DEF Message
  <1>3. PICK i \in CallId \cup {NoCall} : i = session_id_callback[s][n]
    BY <1>2 DEF IInv, TypeOK
  <1>4. /\ Takes(s)
        /\ m.type = "RESPONSE"
        /\ mailbox' = Popped(s)
        /\ UNCHANGED <<watching_response, unresponse, handler, excused>>
        /\ \/ i = NoCall /\ UNCHANGED <<session_id_callback, call>>
           \/ i # NoCall /\ call' = Changed(s, i, "resolved")
    BY <1>1, <1>2, <1>3 DEF DispatchResponse, Changed, calleeVars
  <1>5. /\ \A e \in Service : \A m2 : Has(e, m2) => Has(e, m2)' \/ (e = s /\ m2 = m)
        /\ \A e \in Service : \A m2 : Has(e, m2)' => Has(e, m2)
        /\ \A e \in Service : Once(mailbox'[e])
        /\ UNCHANGED status
        /\ \A e \in Service : Accepts(e) => Accepts(e)'
    BY <1>1, <1>4, TakenFacts
  <1>6. /\ \A e \in Service, j \in CallId :
             /\ call'[e][j].session = call[e][j].session
             /\ call'[e][j].addr = call[e][j].addr
             /\ call'[e][j].state = "waiting" => call[e][j].state = "waiting"
        /\ i # NoCall => call'[s][i].state # "waiting"
    <2>1. CASE i = NoCall
      BY <1>4, <2>1
    <2>2. CASE i # NoCall
      <3>1. /\ call'[s][i].state = "resolved"
            /\ \A e \in Service, j \in CallId :
                 /\ call'[e][j].session = call[e][j].session
                 /\ call'[e][j].addr = call[e][j].addr
                 /\ <<e, j>> # <<s, i>> => call'[e][j] = call[e][j]
        BY <1>3, <1>4, <2>2, StateChange DEF IInv, CallState
      <3> QED
        BY <3>1
    <2> QED
      BY <2>1, <2>2
  <1>7. Steady
    BY <1>4, <1>5, <1>6 DEF Steady
  <1>8. \A e \in Service, k \in Session :
          watching_response'[e][k] = IF e = s /\ k \in {} THEN NoAddr ELSE watching_response[e][k]
    BY <1>4
  <1>9. Ignores(s, {})
    BY <1>4, <1>5, <1>7, <1>8 DEF Ignores
  <1>10. Spent(s, m)
    <2> SUFFICES ASSUME NEW j \in CallId, call[s][j].session # 0, call[s][j].session = n
                 PROVE  call'[s][j].state # "waiting"
      BY <1>2, <1>4 DEF Spent, Settling
    <2>1. call[s][j].state = "waiting" => i = j
      BY <1>3 DEF IInv, Registered
    <2>2. j # NoCall
      BY BoundAssumption DEF CallId, NoCall
    <2> QED
      BY <1>6, <2>1, <2>2
  <1> QED
    BY <1>5, <1>9, <1>10, IgnoresKeeps

\* An ERROR settles the call of its session, or those to its source.
LEMMA DispatchErrorKeeps ==
  ASSUME IInv, TypeOK', OInv, NEW s \in Service, DispatchError(s)
  PROVE  OInv'
  <1>1. PICK m \in Good(s) : m = Head(mailbox[s])
    BY TakesFacts DEF DispatchError
  <1>2. PICK n \in Key, x \in Service : n = m.session /\ x = m.source
    BY DEF Good, Message
  <1>3. /\ Takes(s)
        /\ m.type = "ERROR" /\ m \in Message
        /\ mailbox' = Popped(s)
        /\ UNCHANGED handler
        /\ \/ n = 0 /\ SourceDown(s, x)
           \/ /\ n # 0
              /\ Reject(s, {n})
              /\ IgnoreOwn(s, {n})
              /\ UNCHANGED unresponse
    BY <1>1, <1>2 DEF DispatchError, Good
  <1>4. /\ Has(s, m)
        /\ \A e \in Service : \A m2 : Has(e, m2) => Has(e, m2)' \/ (e = s /\ m2 = m)
        /\ \A e \in Service : \A m2 : Has(e, m2)' => Has(e, m2)
        /\ \A e \in Service : Once(mailbox'[e])
        /\ UNCHANGED status
        /\ \A e \in Service : Accepts(e) => Accepts(e)'
    BY <1>1, <1>3, TakenFacts
  <1>5. Sent(m)
    BY <1>3, <1>4 DEF OInv, Notices
  <1>6. CASE n = 0
    <2>1. status[x] # "up" /\ SourceDown(s, x)
      BY <1>2, <1>3, <1>5, <1>6 DEF Sent
    <2>2. PICK K \in SUBSET Key :
            /\ K = WaitingFor(s, x)
            /\ Ignores(s, K)
            /\ \A i \in CallId : call[s][i].session \in K \ {0} => call'[s][i].state # "waiting"
      BY <1>3, <1>4, <2>1, SourceDownIgnores
    <2>3. Spent(s, m)
      <3> SUFFICES ASSUME NEW i \in CallId, status[s] = "up", call[s][i].session # 0,
                          Settling(m, call[s][i].session, call[s][i].addr),
                          call'[s][i].state = "waiting"
                   PROVE  FALSE
        BY <1>3 DEF Spent
      <3>1. call[s][i].addr = x /\ x \notin Named
        BY <1>2, <1>6 DEF Settling
      <3>2. Waiting(s, i)
        BY <2>2 DEF Waiting, Ignores, Steady
      <3>3. watching_request[s][call[s][i].session] = x /\ call[s][i].session \in Key
        BY <3>1, <3>2 DEF IInv, Watches, TypeOK, CallFrame
      <3>4. call[s][i].session \in K \ {0}
        BY <2>2, <3>1, <3>3 DEF WaitingFor
      <3> QED
        BY <2>2, <3>4
    <2> QED
      BY <1>4, <2>2, <2>3, IgnoresKeeps
  <1>7. CASE n # 0
    <2>2. PICK K \in SUBSET Key : K = {n}
      OBVIOUS
    <2>3. Reject(s, K) /\ IgnoreOwn(s, K) /\ UNCHANGED unresponse
      BY <1>3, <1>7, <2>2
    <2>4. /\ \A c \in Service, i \in CallId :
               /\ call'[c][i].session = call[c][i].session
               /\ call'[c][i].addr = call[c][i].addr
               /\ call'[c][i].state = "waiting" => call[c][i].state = "waiting"
          /\ \A i \in CallId : call[s][i].session = n => call'[s][i].state # "waiting"
      BY <1>7, <2>2, <2>3, Rejected
    <2>5. /\ IgnoreRet(s, K)
          /\ \A e \in Service : excused[e] \subseteq excused'[e]
          /\ \A r \in Request :
               r[2] \in K /\ handler[s][r] \in {"running", "threw"} => r \in excused'[s]
      BY <2>3, IgnoreOwnFacts
    <2>6. Steady
      BY <1>3, <1>4, <2>4, <2>5 DEF Steady
    <2>7. \A e \in Service, k \in Session :
            watching_response'[e][k] = IF e = s /\ k \in K THEN NoAddr ELSE watching_response[e][k]
      BY <2>5, Ignored
    <2>8. Ignores(s, K)
      BY <1>3, <1>4, <2>3, <2>5, <2>6, <2>7 DEF Ignores
    <2>9. Spent(s, m)
      BY <1>2, <1>3, <1>7, <2>4 DEF Spent, Settling
    <2> QED
      BY <1>4, <2>8, <2>9, IgnoresKeeps
  <1> QED
    BY <1>6, <1>7

\* A message that asks nothing is posted: what is in the mailboxes then.
LEMMA AnswerPosted ==
  ASSUME IInv, OInv, NEW x \in Service, NEW m \in Message, m.type # "REQUEST",
         Post(x, m), UNCHANGED status
  PROVE  /\ \A e \in Service : Once(mailbox'[e])
         /\ \A e \in Service : \A m2 : Has(e, m2) => Has(e, m2)'
         /\ \A e \in Service : \A m2 : Has(e, m2)' => Has(e, m2) \/ (e = x /\ m2 = m)
         /\ Accepts(x) => Has(x, m)'
         /\ \A e \in Service, c \in Service, n \in Session :
              Has(e, Asks(c, n))' => Has(e, Asks(c, n))
         /\ \A e \in Service : Accepts(e) => Accepts(e)'
  <1>1. Posts(x, m)
    BY PostHas DEF IInv
  <1>2. \A c, n : Asks(c, n) # m
    BY DEF Asks
  <1> QED
    BY <1>1, <1>2 DEF Posts, OInv, Requests, Accepts

\* exit() tells who is called that s is down.
LEMMA ReportCalleeKeeps ==
  ASSUME IInv, TypeOK', OInv, NEW s \in Service, ReportCallee(s)
  PROVE  OInv'
  <1>1. PICK x \in Awaited(s) :
          /\ status[s] = "reporting"
          /\ Post(x, [type |-> "ERROR", session |-> 0, source |-> s])
          /\ UNCHANGED <<status, call, calleeVars>>
    BY DEF ReportCallee
  <1>2. x \in Service
    BY DEF Awaited, IInv, TypeOK
  <1>3. PICK m \in Message : m = [type |-> "ERROR", session |-> 0, source |-> s]
    BY NoticeGood DEF Good
  <1>4. m.type # "REQUEST" /\ Sent(m)'
    BY <1>1, <1>3 DEF Sent
  <1>5. /\ \A e \in Service : Once(mailbox'[e])
        /\ \A e \in Service : \A m2 : Has(e, m2) => Has(e, m2)'
        /\ \A e \in Service : \A m2 : Has(e, m2)' => Has(e, m2) \/ (e = x /\ m2 = m)
        /\ \A e \in Service, c \in Service, n \in Session :
             Has(e, Asks(c, n))' => Has(e, Asks(c, n))
        /\ \A e \in Service : Accepts(e) => Accepts(e)'
    BY <1>1, <1>2, <1>3, <1>4, AnswerPosted
  <1>6. Steady
    BY <1>1, <1>5 DEF Steady, calleeVars
  <1>7. \A e \in Service, k \in Session :
          watching_response'[e][k] = IF e = s /\ k \in {} THEN NoAddr ELSE watching_response[e][k]
    BY <1>1 DEF calleeVars
  <1>8. Ignores(s, {})
    BY <1>1, <1>4, <1>5, <1>6, <1>7 DEF Ignores, calleeVars
  <1> QED
    BY <1>5, <1>8, IgnoresKeeps

\* s, which is finished with the request <<c, n>>, posts an answer to it.
SendsAnswer(s, c, n) ==
  /\ \E type \in {"RESPONSE", "ERROR"} :
       Post(c, [type |-> type, session |-> n, source |-> s])
  /\ UNCHANGED <<status, call, excused>>
  /\ \A e \in Service, q \in Request :
       \/ handler'[e][q] = handler[e][q]
       \/ /\ <<e, q>> = <<s, <<c, n>>>>
          /\ handler[e][q] = "running" /\ handler'[e][q] = "answered"
  /\ \A e \in Service, q \in Request :
       \/ q \in unresponse'[e] <=> q \in unresponse[e]
       \/ <<e, q>> = <<s, <<c, n>>>> /\ q \notin unresponse'[e]
  /\ \A e \in Service, k \in Session :
       \/ watching_response'[e][k] = watching_response[e][k]
       \/ <<e, k>> = <<s, n>> /\ watching_response'[e][k] = NoAddr
  /\ \/ watching_response'[s][n] = watching_response[s][n]
     \/ watching_response[s][n] = c
     \/ handler[s][<<c, n>>] = "running"
  /\ watching_response'[s][n] = c => handler'[s][<<c, n>>] = handler[s][<<c, n>>]
  /\ status[s] = "up" => handler'[s][<<c, n>>] # "running"

LEMMA AnswerKeeps ==
  ASSUME IInv, TypeOK', OInv, NEW s \in Service, NEW c \in Service,
         NEW n \in Session, Called(c, n, s), SendsAnswer(s, c, n)
  PROVE  OInv'
  <1>0. PICK type \in {"RESPONSE", "ERROR"} :
          Post(c, [type |-> type, session |-> n, source |-> s])
    BY DEF SendsAnswer
  <1>1. PICK m \in Message : m = [type |-> type, session |-> n, source |-> s]
    BY AnswerGood DEF Good
  <1>2. m.type # "REQUEST" /\ n # 0 /\ Post(c, m) /\ Settling(m, n, s)
    BY <1>0, <1>1 DEF Session, Settling
  <1>3. Sent(m)'
    BY <1>1, <1>2 DEF Sent
  <1>4. /\ \A e \in Service : Once(mailbox'[e])
        /\ \A e \in Service : \A m2 : Has(e, m2) => Has(e, m2)'
        /\ \A e \in Service : \A m2 : Has(e, m2)' => Has(e, m2) \/ (e = c /\ m2 = m)
        /\ Accepts(c) => Has(c, m)'
        /\ \A e \in Service, x \in Service, k \in Session :
             Has(e, Asks(x, k))' => Has(e, Asks(x, k))
    BY <1>2, AnswerPosted DEF SendsAnswer
  <1>5. Steady
    BY <1>4 DEF Steady, SendsAnswer
  <1>6. PICK r \in Request : r = <<c, n>>
    BY DEF Request
  <1>7. handler'[s][r] = "running" /\ status[s] = "up" => FALSE
    BY <1>6 DEF SendsAnswer
  <1>8. watching_response'[s][n] = c => handler'[s][r] \in {"running", "threw"}
    <2>1. watching_response'[s][n] = c => watching_response[s][n] = c
      BY ServiceAssumption DEF SendsAnswer
    <2>2. watching_response[s][n] = c => handler[s][<<c, n>>] \in {"running", "threw"}
      BY ServiceAssumption DEF OInv, Entries
    <2> QED
      BY <1>6, <2>1, <2>2 DEF SendsAnswer
  <1>9. r \in unresponse'[s] => handler'[s][r] \in {"answered", "done"}
    <2>1. r \in unresponse'[s] => r \in unresponse[s]
      BY <1>6 DEF SendsAnswer
    <2>2. r \in unresponse[s] => handler[s][r] \in {"answered", "done"}
      BY DEF OInv, Closures
    <2> QED
      BY <2>1, <2>2 DEF SendsAnswer
  <1>10. status[c] = "up" => \E m2 \in Message : Has(c, m2)' /\ Settling(m2, n, s)
    BY <1>2, <1>4 DEF Accepts, SendsAnswer
  <1>11. Concerns(s, c, n)
    BY <1>2, <1>3, <1>4, <1>5, <1>6, <1>7, <1>8, <1>9, <1>10
       DEF Concerns, SendsAnswer
  <1> QED
    BY <1>11, ConcernsKeeps

\* ret() answers, and takes the request off the books.
LEMMA RetKeeps ==
  ASSUME IInv, TypeOK', OInv, NEW s \in Service, NEW r \in Request, Ret(s, r)
  PROVE  OInv'
  <1>1. PICK c \in Service, n \in Session : r = <<c, n>>
    BY DEF Request
  <1>2. /\ UNCHANGED <<status, call, unresponse, excused>>
        /\ handler[s][r] = "running"
        /\ handler' = [handler EXCEPT ![s][r] = "answered"]
        /\ IgnoreRet(s, {n})
    BY <1>1 DEF Ret, callerVars
  <1>3. PICK type \in {"RESPONSE", "ERROR"} : Post(c, [type |-> type, session |-> n, source |-> s])
    BY <1>1 DEF Ret
  <1>4. Called(c, n, s)
    BY <1>1, <1>2, HandlerFacts
  <1>5. /\ handler'[s][r] = "answered"
        /\ \A e \in Service, q \in Request : <<e, q>> # <<s, r>> => handler'[e][q] = handler[e][q]
    BY <1>2 DEF IInv, TypeOK
  <1>6. \A e \in Service, k \in Session :
          watching_response'[e][k] = IF e = s /\ k = n THEN NoAddr ELSE watching_response[e][k]
    BY <1>2, Ignored
  <1>7. handler[s][<<c, n>>] = "running" /\ handler'[s][<<c, n>>] # "running"
    BY <1>1, <1>2, <1>5
  <1>8. \A e \in Service, q \in Request :
          \/ handler'[e][q] = handler[e][q]
          \/ /\ <<e, q>> = <<s, <<c, n>>>>
             /\ handler[e][q] = "running" /\ handler'[e][q] = "answered"
    BY <1>1, <1>2, <1>5
  <1>9. /\ watching_response'[s][n] = NoAddr
        /\ \A e \in Service, k \in Session :
             \/ watching_response'[e][k] = watching_response[e][k]
             \/ <<e, k>> = <<s, n>> /\ watching_response'[e][k] = NoAddr
    BY <1>6
  <1>10. \A e \in Service, q \in Request : q \in unresponse'[e] <=> q \in unresponse[e]
    BY <1>2
  <1>11. SendsAnswer(s, c, n)
    BY <1>2, <1>3, <1>7, <1>8, <1>9, <1>10, ServiceAssumption DEF SendsAnswer
  <1> QED
    BY <1>4, <1>11, AnswerKeeps

\* A closure is used: its request is taken off the books and answered.
LEMMA ClosureKeeps ==
  ASSUME IInv, TypeOK', OInv, NEW s \in Service, NEW r \in unresponse[s],
         NEW type \in {"RESPONSE", "ERROR"},
         Post(r[1], [type |-> type, session |-> r[2], source |-> s]),
         unresponse' = [unresponse EXCEPT ![s] = @ \ {r}],
         UNCHANGED <<status, rest, callerVars, watching_response, handler, tail, excused>>
  PROVE  OInv'
  <1>1. unresponse \in [Service -> SUBSET Request]
    BY DEF IInv, TypeOK
  <1>2. PICK c \in Service, n \in Session : r = <<c, n>>
    BY <1>1 DEF Request
  <1>3. Called(c, n, s)
    BY <1>2 DEF IInv, Origins
  <1>4. handler[s][r] \in {"answered", "done"}
    BY DEF OInv, Closures
  <1>5. handler'[s][<<c, n>>] # "running"
    BY <1>2, <1>4
  <1>6. \A e \in Service, q \in Request :
          \/ q \in unresponse'[e] <=> q \in unresponse[e]
          \/ <<e, q>> = <<s, <<c, n>>>> /\ q \notin unresponse'[e]
    BY <1>1, <1>2
  <1>7. Post(c, [type |-> type, session |-> n, source |-> s])
    BY <1>2
  <1>8. UNCHANGED <<status, call, excused, handler, watching_response>>
    BY DEF callerVars
  <1>9. /\ \A e \in Service, q \in Request : handler'[e][q] = handler[e][q]
        /\ \A e \in Service, k \in Session : watching_response'[e][k] = watching_response[e][k]
        /\ handler'[s][<<c, n>>] = handler[s][<<c, n>>]
    BY <1>8
  <1>10. SendsAnswer(s, c, n)
    BY <1>5, <1>6, <1>7, <1>8, <1>9 DEF SendsAnswer
  <1> QED
    BY <1>3, <1>10, AnswerKeeps

LEMMA RespondKeeps ==
  ASSUME IInv, TypeOK', OInv, NEW s \in Service, NEW r \in Request, Respond(s, r)
  PROVE  OInv'
  <1>1. PICK type \in {"RESPONSE", "ERROR"} :
          Post(r[1], [type |-> type, session |-> r[2], source |-> s])
    BY DEF Respond
  <1>2. /\ r \in unresponse[s]
        /\ unresponse' = [unresponse EXCEPT ![s] = @ \ {r}]
        /\ UNCHANGED <<status, rest, callerVars, watching_response, handler, tail, excused>>
    BY DEF Respond
  <1> QED
    BY <1>1, <1>2, ClosureKeeps

LEMMA ReportDeferredKeeps ==
  ASSUME IInv, TypeOK', OInv, NEW s \in Service, ReportDeferred(s)
  PROVE  OInv'
  <1>1. PICK r \in unresponse[s] :
          /\ Post(r[1], [type |-> "ERROR", session |-> r[2], source |-> s])
          /\ unresponse' = [unresponse EXCEPT ![s] = @ \ {r}]
          /\ UNCHANGED <<status, rest, callerVars, watching_response, handler, tail, excused>>
    BY DEF ReportDeferred
  <1> QED
    BY <1>1, ClosureKeeps

\* exit() reports to the source of each entry.
LEMMA ReportCallerKeeps ==
  ASSUME IInv, TypeOK', OInv, NEW s \in Service, ReportCaller(s)
  PROVE  OInv'
  <1>1. PICK n \in Watched(s) :
          /\ status[s] = "reporting"
          /\ Post(watching_response[s][n], [type |-> "ERROR", session |-> n, source |-> s])
          /\ IgnoreRet(s, {n})
          /\ UNCHANGED <<status, rest, callerVars, unresponse, handler, tail, excused>>
    BY DEF ReportCaller
  <1>2. PICK c \in Service : c = watching_response[s][n]
    BY DEF Watched, IInv, TypeOK
  <1>3. n \in Session /\ Called(c, n, s)
    BY <1>2, ServiceAssumption DEF Watched, IInv, Origins
  <1>4. Post(c, [type |-> "ERROR", session |-> n, source |-> s])
    BY <1>1, <1>2
  <1>5. \A e \in Service, k \in Session :
          watching_response'[e][k] = IF e = s /\ k = n THEN NoAddr ELSE watching_response[e][k]
    BY <1>1, Ignored
  <1>6. status[s] # "up" /\ watching_response[s][n] = c /\ watching_response'[s][n] # c
    BY <1>1, <1>2, <1>3, <1>5, ServiceAssumption
  <1>7. SendsAnswer(s, c, n)
    BY <1>1, <1>4, <1>5, <1>6 DEF SendsAnswer, callerVars
  <1> QED
    BY <1>3, <1>7, AnswerKeeps

\* The handler of <<c, n>> goes on at s, and sends nothing.
Goes(s, c, n) ==
  /\ UNCHANGED <<status, mailbox, call, excused>>
  /\ \A e \in Service, q \in Request :
       <<e, q>> # <<s, <<c, n>>>> =>
         handler'[e][q] = handler[e][q] /\ (q \in unresponse'[e] <=> q \in unresponse[e])
  /\ handler[s][<<c, n>>] \in {"running", "answered"}
  /\ handler'[s][<<c, n>>] \notin {"none", "running"}
  /\ handler[s][<<c, n>>] = "answered" => handler'[s][<<c, n>>] = "done"
  /\ \A e \in Service, k \in Session :
       \/ watching_response'[e][k] = watching_response[e][k]
       \/ <<e, k>> = <<s, n>> /\ watching_response'[e][k] = NoAddr
  /\ watching_response'[s][n] = c =>
       handler'[s][<<c, n>>] = "threw" \/ handler[s][<<c, n>>] = "answered"
  /\ <<c, n>> \in unresponse'[s] => handler'[s][<<c, n>>] \in {"answered", "done"}
  /\ <<c, n>> \in unresponse[s] => <<c, n>> \in unresponse'[s]
  /\ watching_response[s][n] = c =>
       \/ watching_response'[s][n] = c
       \/ <<c, n>> \in unresponse'[s]
       \/ handler'[s][<<c, n>>] = "forgot"
       \/ handler[s][<<c, n>>] = "answered"

LEMMA GoesKeeps ==
  ASSUME IInv, TypeOK', OInv, NEW s \in Service, NEW c \in Service,
         NEW n \in Session, Goes(s, c, n)
  PROVE  OInv'
  <1>1. PICK r \in Request : r = <<c, n>>
    BY DEF Request
  <1>3. \A e, m : Has(e, m)' <=> Has(e, m)
    BY DEF Has, Goes
  <1>4. Steady
    <2>1. \A e \in Service, q \in Request :
            \/ handler'[e][q] = handler[e][q]
            \/ handler[e][q] = "running" /\ handler'[e][q] \notin {"none", "running"}
            \/ handler[e][q] = "answered" /\ handler'[e][q] = "done"
      BY <1>1 DEF Goes
    <2>2. UNCHANGED <<status, mailbox, call, excused>>
      BY DEF Goes
    <2> QED
      BY <1>3, <2>1, <2>2 DEF Steady, OInv, Requests
  \* No entry is left to a handler that has answered.
  <1>6. watching_response[s][n] = c => handler[s][<<c, n>>] # "answered"
    BY ServiceAssumption DEF OInv, Entries
  <1>7. watching_response'[s][n] = c => watching_response[s][n] = c
    BY ServiceAssumption DEF Goes
  <1>8. watching_response'[s][n] = c => handler'[s][<<c, n>>] = "threw"
    BY <1>6, <1>7 DEF Goes
  <1>9. watching_response[s][n] = c \/ <<c, n>> \in unresponse[s] =>
          \/ watching_response'[s][n] = c
          \/ <<c, n>> \in unresponse'[s]
          \/ handler'[s][<<c, n>>] = "forgot"
    BY <1>6 DEF Goes
  <1>10. UNCHANGED status /\ handler[s][<<c, n>>] \in {"running", "answered"}
    BY DEF Goes
  <1>11. Concerns(s, c, n)
    <2>1. \A e \in Service, m \in Message : Has(e, m) <=> Has(e, m)'
      BY <1>3
    <2>2. handler'[s][<<c, n>>] # "running"
      BY DEF Goes
    <2>3. <<c, n>> \in unresponse'[s] => handler'[s][<<c, n>>] \in {"answered", "done"}
      BY DEF Goes
    <2>4. \A e \in Service, k \in Session :
            \/ watching_response'[e][k] = watching_response[e][k]
            \/ <<e, k>> = <<s, n>> /\ watching_response'[e][k] = NoAddr
      BY DEF Goes
    <2>5. \A e \in Service, q \in Request :
            <<e, q>> # <<s, <<c, n>>>> =>
              handler'[e][q] = handler[e][q] /\ (q \in unresponse'[e] <=> q \in unresponse[e])
      BY DEF Goes
    <2> QED
      BY <1>4, <1>8, <1>9, <1>10, <2>1, <2>2, <2>3, <2>4, <2>5 DEF Concerns
  <1> QED
    BY <1>11, ConcernsKeeps

\* response() moves the request from the entries to the closures.
LEMMA ResponseKeeps ==
  ASSUME IInv, TypeOK', OInv, NEW s \in Service, NEW r \in Request, Response(s, r)
  PROVE  OInv'
  <1>1. PICK c \in Service, n \in Session : r = <<c, n>>
    BY DEF Request
  <1>2. /\ UNCHANGED <<status, mailbox, call, excused>>
        /\ handler[s][r] = "running"
        /\ \/ /\ handler' = [handler EXCEPT ![s][r] = "answered"]
              /\ IgnoreRet(s, {n})
              /\ unresponse' = [unresponse EXCEPT ![s] = @ \cup {r}]
           \/ /\ watching_response[s][n] = NoAddr
              /\ handler' = [handler EXCEPT ![s][r] = "threw"]
              /\ UNCHANGED <<watching_response, unresponse>>
    BY <1>1 DEF Response, coreVars, callerVars
  <1>3. /\ handler'[s][r] \in {"answered", "threw"}
        /\ \A e \in Service, q \in Request : <<e, q>> # <<s, r>> => handler'[e][q] = handler[e][q]
    <2>1. PICK st \in {"answered", "threw"} : handler' = [handler EXCEPT ![s][r] = st]
      BY <1>2
    <2>2. handler \in [Service -> [Request -> HandlerState]]
      BY DEF IInv, TypeOK
    <2> QED
      BY <2>1, <2>2
  <1>4. unresponse \in [Service -> SUBSET Request] /\ handler \in [Service -> [Request -> HandlerState]]
    BY DEF IInv, TypeOK
  <1>5. CASE IgnoreRet(s, {n}) /\ unresponse' = [unresponse EXCEPT ![s] = @ \cup {r}]
             /\ handler' = [handler EXCEPT ![s][r] = "answered"]
    <2>1. /\ handler'[s][r] = "answered"
          /\ r \in unresponse'[s]
          /\ \A e \in Service, q \in Request :
               <<e, q>> # <<s, r>> => (q \in unresponse'[e] <=> q \in unresponse[e])
      BY <1>4, <1>5
    <2>2. \A e \in Service, k \in Session :
            watching_response'[e][k] = IF e = s /\ k \in {n} THEN NoAddr ELSE watching_response[e][k]
      BY <1>5, Ignored
    <2>3. /\ watching_response'[s][n] = NoAddr
          /\ \A e \in Service, k \in Session :
               \/ watching_response'[e][k] = watching_response[e][k]
               \/ <<e, k>> = <<s, n>> /\ watching_response'[e][k] = NoAddr
      BY <2>2
    <2>4. Goes(s, c, n)
      BY <1>1, <1>2, <1>3, <2>1, <2>3, ServiceAssumption DEF Goes
    <2> QED
      BY <2>4, GoesKeeps
  <1>6. CASE /\ watching_response[s][n] = NoAddr
             /\ handler' = [handler EXCEPT ![s][r] = "threw"]
             /\ UNCHANGED <<watching_response, unresponse>>
    <2>1. handler'[s][r] = "threw"
      BY <1>4, <1>6
    <2>2. r \notin unresponse[s]
      BY <1>2 DEF OInv, Closures
    <2>3. Goes(s, c, n)
      BY <1>1, <1>2, <1>3, <1>6, <2>1, <2>2, ServiceAssumption DEF Goes
    <2> QED
      BY <2>3, GoesKeeps
  <1> QED
    BY <1>2, <1>5, <1>6

\* A handler ends.
LEMMA HandlerEndKeeps ==
  ASSUME IInv, TypeOK', OInv, NEW s \in Service, NEW r \in Request,
         HandlerReturn(s, r) \/ HandlerThrow(s, r)
  PROVE  OInv'
  <1>1. PICK c \in Service, n \in Session : r = <<c, n>>
    BY DEF Request
  <1>2. UNCHANGED <<status, mailbox, call, unresponse, excused>>
    BY DEF HandlerReturn, HandlerThrow, coreVars, callerVars
  <1>3. PICK st \in {"forgot", "threw", "done"} :
          /\ handler' = [handler EXCEPT ![s][r] = st]
          /\ handler[s][r] = IF st = "done" THEN "answered" ELSE "running"
          /\ st = "forgot" => IgnoreRet(s, {n})
          /\ IgnoreRet(s, {n}) \/ UNCHANGED watching_response
    BY <1>1 DEF HandlerReturn, HandlerThrow
  <1>4. /\ handler'[s][r] = st
        /\ \A e \in Service, q \in Request : <<e, q>> # <<s, r>> => handler'[e][q] = handler[e][q]
    BY <1>3 DEF IInv, TypeOK
  <1>5. r \in unresponse[s] => st = "done"
    BY <1>3 DEF OInv, Closures
  <1>6. /\ \A e \in Service, k \in Session :
             \/ watching_response'[e][k] = watching_response[e][k]
             \/ <<e, k>> = <<s, n>> /\ watching_response'[e][k] = NoAddr
        /\ st = "forgot" => watching_response'[s][n] = NoAddr
        /\ \/ watching_response'[s][n] = watching_response[s][n]
           \/ st \in {"forgot", "done"}
    <2>1. CASE IgnoreRet(s, {n})
      <3>1. \A e \in Service, k \in Session :
              watching_response'[e][k] = IF e = s /\ k \in {n} THEN NoAddr ELSE watching_response[e][k]
        BY <2>1, Ignored
      <3>2. /\ \A e \in Service, k \in Session :
                 \/ watching_response'[e][k] = watching_response[e][k]
                 \/ <<e, k>> = <<s, n>> /\ watching_response'[e][k] = NoAddr
            /\ watching_response'[s][n] = NoAddr
        BY <3>1
      <3>3. st \in {"forgot", "done"} \/ UNCHANGED watching_response
        BY <1>1, <1>3, <1>4 DEF HandlerReturn, HandlerThrow, IInv, TypeOK
      <3> QED
        BY <3>2, <3>3
    <2>2. CASE ~ IgnoreRet(s, {n})
      <3>1. UNCHANGED watching_response /\ st # "forgot"
        BY <1>3, <2>2
      <3> QED
        BY <3>1
    <2> QED
      BY <2>1, <2>2
  <1>7. Goes(s, c, n)
    BY <1>1, <1>2, <1>3, <1>4, <1>5, <1>6, ServiceAssumption DEF Goes
  <1> QED
    BY <1>7, GoesKeeps

\* The core drops a message of a service that is gone.
LEMMA DropMessageKeeps ==
  ASSUME IInv, TypeOK', OInv, NEW s \in Service, DropMessage(s)
  PROVE  OInv'
  <1> USE DEF OInv
  <1>1. /\ mailbox[s] # << >> /\ status[s] = "gone"
        /\ UNCHANGED <<status, call, watching_response, unresponse, handler, excused>>
    BY DEF DropMessage, callerVars, calleeVars
  <1>2. PICK m \in Message : m = Head(mailbox[s])
    BY <1>1, HeadTailProperties DEF IInv, TypeOK
  <1>3. PICK x \in Service : x = m.source
    BY DEF Message
  <1>4. PICK m2 \in Message : m2 = [type |-> "ERROR", session |-> 0, source |-> s]
    BY NoticeGood DEF Good
  <1>5. mailbox' = Posted(Popped(s), x, m2)
    BY <1>2, <1>3, <1>4 DEF DropMessage
  <1>6. TakesAndPosts(s, Head(mailbox[s]), x, m2)
    BY <1>1, <1>4, <1>5, TakePostHas DEF IInv
  <1>7. TakesAndPosts(s, m, x, m2)
    BY <1>2, <1>6
  <1>8. /\ Has(s, m)
        /\ \A e \in Service : \A m3 : Has(e, m3) => Has(e, m3)' \/ (e = s /\ m3 = m)
        /\ \A e \in Service : \A m3 : Has(e, m3)' => Has(e, m3) \/ (e = x /\ m3 = m2)
        /\ Accepts(x) => Has(x, m2)'
        /\ \A e \in Service : Once(mailbox'[e])
    BY <1>7 DEF TakesAndPosts, Requests
  <1>9. Steady
    <2>1. \A c, n : Asks(c, n) # m2
      BY <1>4 DEF Asks
    <2> QED
      BY <1>1, <1>8, <2>1 DEF Steady
  <1>10. Addressed' /\ Requests' /\ Alone'
    BY <1>9, SteadyFacts
  <1>11. Notices'
    <2>1. Sent(m2)'
      BY <1>1, <1>4 DEF Sent
    <2> QED
      BY <1>1, <1>8, <2>1, NoticesNext
  <1>12. Entries' /\ Closures' /\ SessionIsKept'
    BY <1>1 DEF Entries, Closures, SessionIsKept
  <1>13. NoCallOrphaned'
    <2> SUFFICES ASSUME NEW c \in Service, NEW i \in CallId, NEW n \in Session, NEW d \in Service,
                        Waiting(c, i)', n = call'[c][i].session, d = call'[c][i].addr
                 PROVE  Kept(c, n, d)'
      BY <1>10, OrphanNext
    <2>1. Waiting(c, i) /\ n = call[c][i].session /\ d = call[c][i].addr /\ status[c] = "up"
      BY <1>1 DEF Waiting
    <2>2. Kept(c, n, d)
      BY <2>1, OrphanNow DEF IInv
    <2>3. \A m3 : Settling(m3, n, d) => Settling(m3, n, d)'
      BY DEF Settling
    <2>4. CASE Has(d, Asks(c, n))
      <3>1. CASE Has(d, Asks(c, n))'
        BY <3>1 DEF Kept
      <3>2. CASE d = s /\ Asks(c, n) = m
        <4>1. x = c /\ Has(c, m2)'
          BY <1>3, <1>8, <2>1, <3>2 DEF Asks, Accepts
        <4>2. d \notin Named => Settling(m2, n, d)
          BY <1>4, <3>2 DEF Settling
        <4>3. d \in Named => d \in Named /\ status'[d] = "gone"
          BY <1>1, <3>2
        <4> QED
          BY <2>3, <4>1, <4>2, <4>3 DEF Kept
      <3> QED
        BY <1>8, <2>4, <3>1, <3>2
    <2>5. ASSUME NEW m3 \in Message, Has(c, m3), Settling(m3, n, d)
          PROVE  Kept(c, n, d)'
      <3>1. Has(c, m3)'
        BY <1>1, <1>8, <2>1, <2>5
      <3> QED
        BY <2>3, <2>5, <3>1 DEF Kept
    <2>6. Accepts(d) => Accepts(d)'
      BY <1>1 DEF Accepts
    <2> QED
      BY <1>1, <2>2, <2>4, <2>5, <2>6 DEF Kept
  <1> QED
    BY <1>10, <1>11, <1>12, <1>13

\* A request is dispatched, for the first time.
LEMMA DispatchRequestKeeps ==
  ASSUME IInv, TypeOK', OInv, NEW s \in Service, DispatchRequest(s)
  PROVE  OInv'
  <1> USE DEF OInv
  <1>1. PICK m \in Good(s) : m = Head(mailbox[s])
    BY TakesFacts DEF DispatchRequest
  <1>2. m \in Message /\ m.type = "REQUEST"
    BY <1>1 DEF DispatchRequest, Good
  <1>3. PICK c \in Service, n \in Session : m = Asks(c, n) /\ c = m.source /\ n = m.session
    <2>1. m.source \in Service /\ m.session \in Session
      BY <1>2 DEF Good, Message, Key, Session
    <2>2. m = [type |-> "REQUEST", session |-> m.session, source |-> m.source]
      BY <1>2 DEF Message
    <2> QED
      BY <2>1, <2>2 DEF Asks
  <1>4. Called(c, n, s) /\ n # 0
    BY <1>2, <1>3 DEF Good, Session
  <1>5. PICK r \in Request : r = <<c, n>>
    BY DEF Request
  <1>6. PICK e0 \in Message : e0 = [type |-> "ERROR", session |-> n, source |-> s]
    BY <1>4, AnswerGood DEF Good
  <1>7. PICK lost \in BOOLEAN, Q \in SUBSET Request :
          /\ lost <=> ~ Accepts(s) \/ Beside(s, r, {"running", "answered"}) # {}
          /\ Q = Beside(s, r, {"running", "threw"})
    BY DEF Beside
  <1>8. /\ Takes(s) /\ mailbox[s] # << >>
        /\ UNCHANGED <<status, call, unresponse>>
        /\ \/ /\ watching_response' = [watching_response EXCEPT ![s][n] = c]
              /\ handler' = [handler EXCEPT ![s][r] = "running"]
              /\ excused' = [excused EXCEPT ![s] = @ \cup (IF lost THEN {r} ELSE {}) \cup Q]
              /\ mailbox' = Popped(s)
           \/ /\ handler' = [handler EXCEPT ![s][r] = "refused"]
              /\ mailbox' = Posted(Popped(s), c, e0)
              /\ UNCHANGED <<watching_response, excused>>
    BY <1>1, <1>3, <1>5, <1>6, <1>7 DEF DispatchRequest, Takes, callerVars
  <1>9. PICK st \in {"running", "refused"} :
          /\ handler' = [handler EXCEPT ![s][r] = st]
          /\ st = "running" =>
               /\ watching_response' = [watching_response EXCEPT ![s][n] = c]
               /\ excused' = [excused EXCEPT ![s] = @ \cup (IF lost THEN {r} ELSE {}) \cup Q]
               /\ mailbox' = Popped(s)
          /\ st = "refused" =>
               /\ UNCHANGED <<watching_response, excused>>
               /\ mailbox' = Posted(Popped(s), c, e0)
    BY <1>8
  \* The mailboxes.
  <1>10. /\ Has(s, m)
         /\ \A e \in Service : \A m3 : Has(e, m3) => Has(e, m3)' \/ (e = s /\ m3 = m)
         /\ \A e \in Service : \A m3 : Has(e, m3)' => Has(e, m3) \/ (st = "refused" /\ e = c /\ m3 = e0)
         /\ st = "refused" /\ Accepts(c) => Has(c, e0)'
         /\ \A e \in Service : Once(mailbox'[e])
         /\ ~ Has(s, m)'
    <2>1. CASE st = "running"
      BY <1>1, <1>2, <1>8, <1>9, <2>1, TakenFacts
    <2>2. CASE st = "refused"
      <3>1. TakesAndPosts(s, Head(mailbox[s]), c, e0)
        BY <1>6, <1>8, <1>9, <2>2, TakePostHas DEF IInv
      <3>2. TakesAndPosts(s, m, c, e0)
        BY <1>1, <3>1
      <3> QED
        BY <1>2, <2>2, <3>2 DEF TakesAndPosts, Requests
    <2> QED
      BY <2>1, <2>2
  \* The handler had not started, so nothing is on the books for it.
  <1>11. handler[s][r] = "none"
    BY <1>3, <1>5, <1>10 DEF Requests
  <1>12. /\ handler'[s][r] = st
         /\ \A e \in Service, q \in Request : <<e, q>> # <<s, r>> => handler'[e][q] = handler[e][q]
    BY <1>9 DEF IInv, TypeOK
  <1>13. /\ st = "running" => watching_response'[s][n] = c
         /\ \A e \in Service, k \in Session :
              \/ watching_response'[e][k] = watching_response[e][k]
              \/ st = "running" /\ <<e, k>> = <<s, n>>
    <2>1. watching_response \in [Service -> [Session -> Service \cup {NoAddr}]]
      BY DEF IInv, TypeOK
    <2> QED
      BY <1>9, <2>1
  \* Who is excused: s does not take the request any more, or it comes to a
  \* handler with its session; and those whose entry it takes.
  <1>14. /\ \A e \in Service : excused[e] \subseteq excused'[e]
         /\ st = "running" /\ ~ Accepts(s) => r \in excused'[s]
         /\ \A q \in Request :
              /\ st = "running" /\ q # r /\ q[2] = n
              => /\ handler[s][q] \in {"running", "answered"} => r \in excused'[s]
                 /\ handler[s][q] \in {"running", "threw"} => q \in excused'[s]
    <2>1. excused \in [Service -> SUBSET Request]
      BY DEF IInv, TypeOK
    <2>2. st = "refused" => UNCHANGED excused
      BY <1>9
    <2>3. st = "running" => excused'[s] = excused[s] \cup (IF lost THEN {r} ELSE {}) \cup Q
      BY <1>9, <2>1
    <2>4. \A e \in Service : e # s => excused'[e] = excused[e]
      BY <1>9, <2>1
    <2>5. \A e \in Service : excused[e] \subseteq excused'[e]
      BY <2>2, <2>3, <2>4
    <2>6. ASSUME NEW q \in Request, q # r, q[2] = n, handler[s][q] \in {"running", "answered"}
          PROVE  lost
      BY <1>5, <1>7, <2>6 DEF Beside
    <2>7. ASSUME NEW q \in Request, q # r, q[2] = n, handler[s][q] \in {"running", "threw"}
          PROVE  q \in Q
      BY <1>5, <1>7, <2>7 DEF Beside
    <2>8. st = "running" /\ lost => r \in excused'[s]
      BY <2>3
    <2>9. st = "running" => Q \subseteq excused'[s]
      BY <2>3
    <2> QED
      BY <1>7, <2>5, <2>6, <2>7, <2>8, <2>9
  <1>15. Alone'
    <2> SUFFICES ASSUME NEW e \in Service, NEW p \in Request, NEW q \in Request,
                        p # q, p[2] = q[2],
                        handler'[e][p] \in {"running", "answered"},
                        handler'[e][q] \in {"running", "threw"}
                 PROVE  q \in excused'[e]
      BY DEF Alone
    <2>1. CASE <<e, p>> = <<s, r>>
      <3>1. st = "running" /\ q # r /\ q[2] = n
        BY <1>5, <1>12, <2>1
      <3>2. handler[e][q] \in {"running", "threw"}
        BY <1>12, <2>1, <3>1
      <3> QED
        BY <1>14, <2>1, <3>1, <3>2
    <2>2. CASE <<e, q>> = <<s, r>>
      <3>1. st = "running" /\ p # r /\ p[2] = n
        BY <1>5, <1>12, <2>2
      <3>2. handler[e][p] \in {"running", "answered"}
        BY <1>12, <2>2, <3>1
      <3> QED
        BY <1>14, <2>2, <3>1, <3>2
    <2>3. CASE <<e, p>> # <<s, r>> /\ <<e, q>> # <<s, r>>
      <3>1. handler'[e][p] = handler[e][p] /\ handler'[e][q] = handler[e][q]
        BY <1>12, <2>3
      <3>2. q \in excused[e]
        BY <3>1 DEF Alone
      <3> QED
        BY <1>14, <3>2
    <2> QED
      BY <2>1, <2>2, <2>3
  <1>16. Addressed'
    BY <1>8 DEF Addressed
  <1>17. Requests'
    <2> SUFFICES ASSUME NEW e \in Service, NEW q \in Request, Has(e, Asks(q[1], q[2]))'
                 PROVE  handler'[e][q] = "none"
      BY <1>10 DEF Requests
    <2>1. Has(e, Asks(q[1], q[2]))
      BY <1>6, <1>10 DEF Asks
    <2>2. q = <<q[1], q[2]>>
      BY DEF Request
    <2>3. <<e, q>> # <<s, r>>
      <3>1. PICK m3 : m3 = Asks(q[1], q[2])
        OBVIOUS
      <3>2. Has(e, m3)'
        BY <3>1
      <3>3. q = r => m3 = m
        BY <1>3, <1>5, <3>1 DEF Asks
      <3> QED
        BY <1>10, <3>2, <3>3
    <2> QED
      BY <1>12, <2>1, <2>3 DEF Requests
  <1>18. Entries'
    <2> SUFFICES ASSUME NEW e \in Service, NEW k \in Session, watching_response'[e][k] # NoAddr
                 PROVE  handler'[e][<<watching_response'[e][k], k>>] \in {"running", "threw"}
      BY DEF Entries
    <2>1. CASE watching_response'[e][k] = watching_response[e][k]
      <3>1. PICK y \in Service : y = watching_response[e][k]
        <4>1. watching_response \in [Service -> [Session -> Service \cup {NoAddr}]]
          BY DEF IInv, TypeOK
        <4> QED
          BY <2>1, <4>1
      <3>2. PICK q \in Request : q = <<y, k>>
        BY DEF Request
      <3>3. handler[e][q] \in {"running", "threw"}
        BY <2>1, <3>1, <3>2 DEF Entries
      <3>4. handler'[e][q] = handler[e][q]
        BY <1>11, <1>12, <3>3
      <3> QED
        BY <2>1, <3>1, <3>2, <3>3, <3>4
    <2>2. CASE st = "running" /\ <<e, k>> = <<s, n>>
      BY <1>5, <1>12, <1>13, <2>2
    <2> QED
      BY <1>13, <2>1, <2>2
  <1>19. Closures'
    <2> SUFFICES ASSUME NEW e \in Service, NEW q \in unresponse[e]
                 PROVE  handler'[e][q] \in {"answered", "done"}
      BY <1>8 DEF Closures
    <2>1. q \in Request /\ handler[e][q] \in {"answered", "done"}
      BY DEF IInv, TypeOK, Closures
    <2> QED
      BY <1>11, <1>12, <2>1
  <1>20. Notices'
    <2>1. st = "refused" => Sent(e0)'
      BY <1>4, <1>6 DEF Sent
    <2> QED
      BY <1>8, <1>10, <2>1, NoticesNext
  <1>21. NoCallOrphaned'
    <2> SUFFICES ASSUME NEW x \in Service, NEW i \in CallId, NEW k \in Session, NEW d \in Service,
                        Waiting(x, i)', k = call'[x][i].session, d = call'[x][i].addr
                 PROVE  Kept(x, k, d)'
      BY <1>16, OrphanNext
    <2>1. Waiting(x, i) /\ k = call[x][i].session /\ d = call[x][i].addr /\ status[x] = "up"
      BY <1>8 DEF Waiting
    <2>2. Kept(x, k, d)
      BY <2>1, OrphanNow DEF IInv
    <2>3. PICK q \in Request : q = <<x, k>>
      BY DEF Request
    <2>4. Accepts(d)' <=> Accepts(d)
      BY <1>8 DEF Accepts
    <2>5. \A m3 : Settling(m3, k, d) => Settling(m3, k, d)'
      BY DEF Settling
    <2>6. CASE Has(d, Asks(x, k))
      <3>1. CASE Has(d, Asks(x, k))'
        BY <3>1 DEF Kept
      <3>2. CASE d = s /\ Asks(x, k) = m
        <4>1. x = c /\ k = n
          BY <1>3, <3>2 DEF Asks
        <4>2. CASE st = "running"
          BY <1>5, <1>13, <1>14, <2>4, <3>2, <4>1, <4>2 DEF Kept
        <4>3. CASE st = "refused"
          <5>1. Has(c, e0)' /\ Settling(e0, k, d)
            BY <1>6, <1>10, <2>1, <3>2, <4>1, <4>3 DEF Accepts, Settling
          <5> QED
            BY <2>5, <4>1, <5>1 DEF Kept
        <4> QED
          BY <4>2, <4>3
      <3> QED
        BY <1>10, <2>6, <3>1, <3>2
    <2>7. ASSUME NEW m3 \in Message, Has(x, m3), Settling(m3, k, d)
          PROVE  Kept(x, k, d)'
      <3>1. Has(x, m3)'
        BY <1>2, <1>10, <2>7 DEF Settling
      <3> QED
        BY <2>5, <2>7, <3>1 DEF Kept
    <2>8. CASE Accepts(d) /\ watching_response[d][k] = x
      <3>1. CASE watching_response'[d][k] = watching_response[d][k]
        BY <2>4, <2>8, <3>1 DEF Kept
      <3>2. CASE st = "running" /\ <<d, k>> = <<s, n>>
        <4>1. CASE x = c
          BY <1>13, <2>4, <2>8, <3>2, <4>1 DEF Kept
        <4>2. CASE x # c
          <5>1. q # r /\ q[2] = n
            BY <1>5, <2>3, <3>2, <4>2
          <5>2. handler[s][q] \in {"running", "threw"}
            BY <2>3, <2>8, <3>2, ServiceAssumption DEF Entries
          <5>3. q \in excused'[d]
            BY <1>14, <3>2, <5>1, <5>2
          <5> QED
            BY <2>3, <5>3 DEF Kept
        <4> QED
          BY <4>1, <4>2
      <3> QED
        BY <1>13, <3>1, <3>2
    <2>9. CASE Accepts(d) /\ <<x, k>> \in unresponse[d]
      BY <1>8, <2>4, <2>9 DEF Kept
    <2>10. CASE handler[d][<<x, k>>] = "forgot"
      BY <1>11, <1>12, <2>3, <2>10 DEF Kept
    <2>11. CASE <<x, k>> \in excused[d] \/ (d \in Named /\ status[d] = "gone")
      BY <1>8, <1>14, <2>11 DEF Kept
    <2> QED
      BY <2>2, <2>6, <2>7, <2>8, <2>9, <2>10, <2>11 DEF Kept
  <1>22. SessionIsKept'
    <2> SUFFICES ASSUME NEW e \in Service, NEW q \in Request,
                        status[e] = "up", handler'[e][q] = "running", q \notin excused'[e]
                 PROVE  watching_response'[e][q[2]] = q[1]
      BY <1>8 DEF SessionIsKept
    <2>1. PICK k \in Session : k = q[2]
      BY DEF Request
    <2>2. CASE <<e, q>> = <<s, r>>
      BY <1>5, <1>12, <1>13, <2>2
    <2>3. CASE <<e, q>> # <<s, r>>
      <3>1. handler[e][q] = "running" /\ q \notin excused[e]
        BY <1>12, <1>14, <2>3
      <3>2. watching_response[e][k] = q[1]
        BY <2>1, <3>1 DEF SessionIsKept
      <3>3. ~ (st = "running" /\ <<e, k>> = <<s, n>>)
        BY <1>14, <2>1, <2>3, <3>1
      <3> QED
        BY <1>13, <2>1, <3>2, <3>3
    <2> QED
      BY <2>2, <2>3
  <1> QED
    BY <1>15, <1>16, <1>17, <1>18, <1>19, <1>20, <1>21, <1>22

\* A call is made: its session is new, so nothing is on the books for it.
LEMMA CallKeeps ==
  ASSUME IInv, TypeOK', OInv, NEW c \in Service, NEW d \in Service, Call(c, d)
  PROVE  OInv'
  <1> USE DEF OInv
  <1>1. PICK i \in CallId : Call(c, d)!(i)
    BY DEF Call
  <1>2. nextSession[c] \in Session /\ call[c][i].session = 0 /\ Idle(c, i)
        /\ nextSession[c] = FirstSession[c] + i - 1
    BY <1>1, FreshSession
  <1>3. PICK n \in Key : n = IF Accepts(d) THEN nextSession[c] ELSE 0
    <2>1. 0 \in Key /\ nextSession[c] \in Key
      BY <1>2, BoundAssumption DEF Key, Session
    <2>2. (IF Accepts(d) THEN nextSession[c] ELSE 0) \in Key
      BY <2>1
    <2> QED
      BY <2>2
  <1>4. n # 0 <=> Accepts(d)
    BY <1>2, <1>3 DEF Session
  <1>5. n # 0 => n \in Session
    BY <1>2, <1>3
  <1>6. PICK m : m = Asks(c, n)
    OBVIOUS
  <1>7. /\ mailbox' = Posted(mailbox, d, m)
        /\ call' = [call EXCEPT ![c][i] = [state |-> "waiting", session |-> n, addr |-> d]]
        /\ UNCHANGED <<status, watching_response, unresponse, handler, excused>>
    BY <1>1, <1>3, <1>6 DEF Post, Asks, calleeVars
  <1>8. /\ call'[c][i] = [state |-> "waiting", session |-> n, addr |-> d]
        /\ \A e \in Service, j \in CallId : <<e, j>> # <<c, i>> => call'[e][j] = call[e][j]
    <2>1. call \in [Service -> [CallId -> CallFrame]]
      BY DEF IInv, TypeOK
    <2> QED
      BY <1>7, <2>1
  \* The session is new.
  <1>9. ASSUME NEW j \in CallId, call[c][j].session = n, n # 0
         PROVE  FALSE
    <2>1. FirstSession[c] \in Nat /\ i \in Nat /\ j \in Nat
      BY BoundAssumption DEF Session, CallId
    <2>2. n = FirstSession[c] + i - 1 /\ n = FirstSession[c] + j - 1
      BY <1>2, <1>3, <1>4, <1>9 DEF IInv, Allocation
    <2>3. i = j
      BY <2>1, <2>2
    <2> QED
      BY <1>2, <1>9, <2>3
  <1>10. n # 0 => \A x : ~ Called(c, n, x)
    BY <1>9 DEF Called
  \* The mailboxes.
  <1>11. /\ \A e \in Service : \A m2 : Has(e, m2) => Has(e, m2)'
         /\ \A e \in Service : \A m2 : Has(e, m2)' => Has(e, m2) \/ (n # 0 /\ e = d /\ m2 = m)
         /\ n # 0 => Has(d, m)'
         /\ \A e \in Service : Once(mailbox'[e])
    <2>1. CASE n = 0
      <3>1. mailbox' = mailbox
        BY <1>4, <1>7, <2>1 DEF Posted
      <3> QED
        BY <2>1, <3>1 DEF Has, Requests
    <2>2. CASE n # 0
      <3>1. m \in Message /\ m.type = "REQUEST" /\ m.session = n /\ m.source = c
        BY <1>3, <1>6 DEF Asks, Message
      <3>2. Post(d, m)
        BY <1>7 DEF Post
      <3>3. Posts(d, m)
        BY <3>1, <3>2, PostHas DEF IInv
      <3>4. ~ Has(d, m)
        <4> SUFFICES ASSUME Has(d, m)
                     PROVE  FALSE
          OBVIOUS
        <4>1. PICK k \in 1 .. Len(mailbox[d]) : mailbox[d][k] = m
          BY DEF Has, In
        <4>2. m \in Good(d)
          BY <4>1, ElementOfSeq DEF IInv, Origins
        <4> QED
          BY <1>10, <2>2, <3>1, <4>2 DEF Good
      <3> QED
        BY <1>4, <2>2, <3>3, <3>4 DEF Posts, Requests
    <2> QED
      BY <2>1, <2>2
  <1>12. Addressed'
    <2> SUFFICES ASSUME NEW e \in Service, NEW j \in CallId, call'[e][j].session # 0
                 PROVE  call'[e][j].addr \in Service
      BY DEF Addressed
    <2>1. CASE <<e, j>> = <<c, i>>
      BY <1>8, <2>1
    <2>2. CASE <<e, j>> # <<c, i>>
      BY <1>8, <2>2 DEF Addressed
    <2> QED
      BY <2>1, <2>2
  <1>13. Requests'
    <2> SUFFICES ASSUME NEW e \in Service, NEW q \in Request, Has(e, Asks(q[1], q[2]))'
                 PROVE  handler[e][q] = "none"
      BY <1>7, <1>11 DEF Requests
    <2>1. PICK m3 : m3 = Asks(q[1], q[2])
      OBVIOUS
    <2>2. Has(e, m3)'
      BY <2>1
    <2>3. CASE Has(e, m3)
      BY <2>1, <2>3 DEF Requests
    <2>4. CASE n # 0 /\ e = d /\ m3 = m
      <3>1. q[1] = c /\ q[2] = n
        BY <1>6, <2>1, <2>4 DEF Asks
      <3>2. handler[e][q] # "none" => Called(c, n, e)
        BY <3>1, HandlerFacts
      <3> QED
        BY <1>10, <2>4, <3>2
    <2> QED
      BY <1>11, <2>2, <2>3, <2>4
  <1>14. Entries' /\ Closures' /\ Alone' /\ SessionIsKept'
    BY <1>7 DEF Entries, Closures, Alone, SessionIsKept
  <1>15. Notices'
    <2>1. \A e \in Service, m2 \in Message : Has(e, m2)' => Has(e, m2) \/ Sent(m2)'
      BY <1>6, <1>11 DEF Asks, Sent
    <2> QED
      BY <1>7, <2>1, NoticesNext
  <1>16. NoCallOrphaned'
    <2> SUFFICES ASSUME NEW e \in Service, NEW j \in CallId, NEW k \in Session, NEW x \in Service,
                        Waiting(e, j)', k = call'[e][j].session, x = call'[e][j].addr
                 PROVE  Kept(e, k, x)'
      BY <1>12, OrphanNext
    <2>1. CASE <<e, j>> = <<c, i>>
      <3>1. e = c /\ k = n /\ x = d /\ n # 0
        BY <1>8, <2>1 DEF Session
      <3>2. Has(x, Asks(e, k))'
        BY <1>6, <1>11, <3>1
      <3> QED
        BY <3>2 DEF Kept
    <2>2. CASE <<e, j>> # <<c, i>>
      <3>1. Waiting(e, j) /\ k = call[e][j].session /\ x = call[e][j].addr
        BY <1>7, <1>8, <2>2 DEF Waiting
      <3>2. Kept(e, k, x)
        BY <3>1, OrphanNow DEF IInv
      <3>3. Accepts(x)' <=> Accepts(x)
        BY <1>7 DEF Accepts
      <3>4. \A m2 : Settling(m2, k, x) => Settling(m2, k, x)'
        BY DEF Settling
      <3> QED
        BY <1>7, <1>11, <3>2, <3>3, <3>4 DEF Kept
    <2> QED
      BY <2>1, <2>2
  <1> QED
    BY <1>12, <1>13, <1>14, <1>15, <1>16

-----------------------------------------------------------------------------
(***************************************************************************)
(* Theorems.                                                               *)
(***************************************************************************)

\* Nothing is called, sent or on the books at first ...
LEMMA InitOInv == Init => OInv
  <1> SUFFICES ASSUME Init
               PROVE  OInv
    OBVIOUS
  <1>1. \A c \in Service, i \in CallId : call[c][i] = NoFrame
    BY DEF Init
  <1>2. Addressed /\ NoCallOrphaned
    BY <1>1 DEF Addressed, NoCallOrphaned, Waiting, NoFrame
  <1>4. \A s \in Service : \A m : Once(mailbox[s]) /\ ~ Has(s, m)
    BY DEF Init, Once, Has, In
  <1>5. Requests /\ Notices
    BY <1>4 DEF Requests, Notices
  <1>6. Entries /\ Closures /\ Alone /\ SessionIsKept
    BY DEF Init, Entries, Closures, Alone, SessionIsKept
  <1> QED
    BY <1>2, <1>5, <1>6 DEF OInv

\* ... and every step keeps the books.
LEMMA NextOInv == IInv /\ TypeOK' /\ OInv /\ [Next]_vars => OInv'
  <1> SUFFICES ASSUME IInv, TypeOK', OInv, [Next]_vars
               PROVE  OInv'
    OBVIOUS
  <1>1. CASE UNCHANGED vars
    BY <1>1, StutterKeeps
  <1>2. ASSUME NEW s \in Service, Dispatch(s)
        PROVE  OInv'
    BY <1>2, DispatchResponseKeeps, DispatchErrorKeeps, DispatchRequestKeeps DEF Dispatch
  <1>3. ASSUME NEW s \in Service, Report(s)
        PROVE  OInv'
    BY <1>3, ReportCallerKeeps, ReportDeferredKeeps, ReportCalleeKeeps, ExitKeeps DEF Report
  <1>4. ASSUME NEW s \in Service, ExitBegin(s) \/ Retire(s)
        PROVE  OInv'
    BY <1>4, ExitKeeps
  <1>5. ASSUME NEW s \in Service, DropMessage(s)
        PROVE  OInv'
    BY <1>5, DropMessageKeeps
  <1>6. ASSUME NEW s \in Service, NEW d \in Service, Call(s, d) \/ Term(s, d)
        PROVE  OInv'
    BY <1>6, CallKeeps, TermKeeps
  <1>7. ASSUME NEW s \in Service, NEW i \in CallId, Continue(s, i)
        PROVE  OInv'
    BY <1>7, ContinueKeeps
  <1>8. ASSUME NEW s \in Service, NEW n \in Session, ErrorTail(s, n)
        PROVE  OInv'
    BY <1>8, ErrorTailKeeps
  <1>9. ASSUME NEW s \in Service, NEW r \in Request, Handle(s, r)
        PROVE  OInv'
    BY <1>9, RetKeeps, ResponseKeeps, RespondKeeps, HandlerEndKeeps DEF Handle
  <1> QED
    BY <1>1, <1>2, <1>3, <1>4, <1>5, <1>6, <1>7, <1>8, <1>9 DEF Next

LEMMA OInvariant == Spec => []OInv
  <1>1. IInv => TypeOK
    BY DEF IInv
  <1>2. Init => OInv
    BY InitOInv
  <1>3. IInv /\ TypeOK' /\ OInv /\ [Next]_vars => OInv'
    BY NextOInv
  <1> QED
    BY <1>1, <1>2, <1>3, Invariant, PTL DEF Spec

\* No call of index.ts waits for an answer that nobody owes it: whatever the
\* interleaving of handlers, answers and exit() in any number of services, the
\* callee still has the request, has it on the books that ret, response and
\* exit() answer from, or has answered.  The services may use the same sessions,
\* as they do; then the requests are excepted that were at the callee together
\* with another of their session, and no others.
THEOREM NoCallIsOrphaned == Spec => []NoCallOrphaned
  <1>1. OInv => NoCallOrphaned
    BY DEF OInv
  <1> QED
    BY <1>1, OInvariant, PTL

\* The session that response() asserts is watched, and for the source of the
\* request, while its handler has not answered - whatever other handlers, answers
\* and ERRORs come in between - until another request of the same session is
\* dispatched, or an ERROR for a call of the service's own with that session.
THEOREM ResponseIsSafe == Spec => []SessionIsKept
  <1>1. OInv => SessionIsKept
    BY DEF OInv
  <1> QED
    BY <1>1, OInvariant, PTL

-----------------------------------------------------------------------------
(***************************************************************************)
(* SkynetSession implements RpcCall.  The verdict on a call is the one of  *)
(* the first message in the caller's mailbox that decides it (Says): a     *)
(* message that is appended decides only what is open, one that is taken   *)
(* decides what it said or nothing, and the steps of the caller's books    *)
(* settle the calls that the message they take decides - and no others.    *)
(***************************************************************************)

\* What a message that decides a call says of it.
Tells(m) == IF m.type = "RESPONSE" THEN "ok" ELSE "failed"

\* What the queue q says of the call i of c.
Says(q, c, i, v) ==
  \/ v = "none" /\ \A k \in 1 .. Len(q) : ~Decides(q[k], c, i)
  \/ \E k \in 1 .. Len(q) :
       /\ Decides(q[k], c, i)
       /\ \A l \in 1 .. k - 1 : ~Decides(q[l], c, i)
       /\ v = Tells(q[k])

\* The verdict on a call, without Answers.
Told(c, i) ==
  /\ StateOf(c, i) = "open" => Says(mailbox[c], c, i, VerdictOf(c, i))
  /\ StateOf(c, i) \in {"ok", "failed"} => VerdictOf(c, i) = StateOf(c, i)
  /\ StateOf(c, i) \notin {"open", "ok", "failed"} => VerdictOf(c, i) = "none"

AllTold == \A c \in Service, i \in CallId : Told(c, i)

\* A step of RpcCall, or none, from the state s and the verdict v.
Moved(s, v, s2, v2) ==
  \/ s2 = s /\ v2 = v
  \/ s = "idle" /\ s2 = "open" /\ v2 \in {"none", "failed"}
  \/ s = "open" /\ s2 = "open" /\ v = "none" /\ v2 \in {"ok", "failed"}
  \/ s = "open" /\ v \in {"ok", "failed"} /\ s2 = v /\ v2 = v
  \/ s = "open" /\ s2 = "failed" /\ v2 = "failed"
  \/ s2 = "void" /\ v2 = "none"

\* A step moves the call i of c as RpcCall allows.
Moves(c, i) == Moved(StateOf(c, i), VerdictOf(c, i), StateOf(c, i)', VerdictOf(c, i)')

-----------------------------------------------------------------------------
(***************************************************************************)
(* The verdict of a queue.                                                 *)
(***************************************************************************)

\* A set of positions has a first one.
LEMMA First ==
  ASSUME NEW n \in Nat, NEW S \in SUBSET (1 .. n), S # {}
  PROVE  \E k \in S : \A l \in S : k <= l
  <1>1. S \subseteq Nat
    OBVIOUS
  <1>2. PICK k \in S : \A l \in S : <<l, k>> \notin OpToRel(<, Nat)
    BY <1>1, WFMin, NatLessThanWellFounded, Zenon
  <1>3. \A l \in S : ~ (l < k)
    BY <1>1, <1>2, Zenon DEF OpToRel
  <1> QED
    BY <1>3

\* What a queue says is unique.
LEMMA OneVerdict ==
  ASSUME NEW q \in Seq(Message), NEW c, NEW i, NEW v, NEW w,
         Says(q, c, i, v), Says(q, c, i, w)
  PROVE  v = w
  <1>1. CASE \A k \in 1 .. Len(q) : ~Decides(q[k], c, i)
    BY <1>1 DEF Says
  <1>2. CASE \E k \in 1 .. Len(q) : Decides(q[k], c, i)
    <2>1. PICK k \in 1 .. Len(q) : /\ Decides(q[k], c, i) /\ v = Tells(q[k])
                                   /\ \A l \in 1 .. k - 1 : ~Decides(q[l], c, i)
      BY <1>2 DEF Says
    <2>2. PICK l \in 1 .. Len(q) : /\ Decides(q[l], c, i) /\ w = Tells(q[l])
                                   /\ \A j \in 1 .. l - 1 : ~Decides(q[j], c, i)
      BY <1>2 DEF Says
    <2>3. ~ (k < l) /\ ~ (l < k)
      <3>1. k \in Nat \ {0} /\ l \in Nat \ {0}
        BY LenProperties
      <3>2. (k < l => k \in 1 .. l - 1) /\ (l < k => l \in 1 .. k - 1)
        BY <3>1
      <3> QED
        BY <2>1, <2>2, <3>2
    <2>4. k = l
      BY <2>3, LenProperties
    <2> QED
      BY <2>1, <2>2, <2>4
  <1> QED
    BY <1>1, <1>2

\* An answer to a call that nothing has decided decides it.
LEMMA SaysAppended ==
  ASSUME NEW q \in Seq(Message), NEW m \in Message, NEW c, NEW i, NEW v, Says(q, c, i, v)
  PROVE  \/ Says(Append(q, m), c, i, v)
         \/ v = "none" /\ Decides(m, c, i) /\ Says(Append(q, m), c, i, Tells(m))
  <1>1. /\ Len(q) \in Nat
        /\ Len(Append(q, m)) = Len(q) + 1
        /\ \A k \in 1 .. Len(q) : Append(q, m)[k] = q[k]
        /\ Append(q, m)[Len(q) + 1] = m
    BY AppendProperties, LenProperties
  <1> PICK p : p = Append(q, m)
    OBVIOUS
  <1>2. CASE v = "none" /\ \A k \in 1 .. Len(q) : ~Decides(q[k], c, i)
    <2>1. \A k \in 1 .. Len(p) : k = Len(q) + 1 \/ (k \in 1 .. Len(q) /\ p[k] = q[k])
      BY <1>1
    <2>2. CASE Decides(m, c, i)
      <3>1. Len(q) + 1 \in 1 .. Len(p) /\ p[Len(q) + 1] = m
        BY <1>1
      <3>2. \A l \in 1 .. Len(q) + 1 - 1 : ~Decides(p[l], c, i)
        BY <1>1, <1>2
      <3>3. Says(p, c, i, Tells(m))
        BY <2>2, <3>1, <3>2 DEF Says
      <3> QED
        BY <1>2, <2>2, <3>3
    <2>3. CASE ~Decides(m, c, i)
      <3>1. \A k \in 1 .. Len(p) : ~Decides(p[k], c, i)
        BY <1>1, <1>2, <2>1, <2>3
      <3>2. Says(p, c, i, v)
        BY <1>2, <3>1 DEF Says
      <3> QED
        BY <3>2
    <2> QED
      BY <2>2, <2>3
  <1>3. ASSUME NEW k \in 1 .. Len(q), Decides(q[k], c, i), v = Tells(q[k]),
               \A l \in 1 .. k - 1 : ~Decides(q[l], c, i)
        PROVE  Says(p, c, i, v)
    <2>1. k \in 1 .. Len(p) /\ p[k] = q[k]
      BY <1>1
    <2>2. \A l \in 1 .. k - 1 : p[l] = q[l]
      BY <1>1
    <2> QED
      BY <1>3, <2>1, <2>2 DEF Says
  <1> QED
    BY <1>2, <1>3 DEF Says

\* The first message decides, or the rest of them says what all did.
LEMMA SaysTaken ==
  ASSUME NEW q \in Seq(Message), q # << >>, NEW c, NEW i, NEW v, Says(q, c, i, v)
  PROVE  IF Decides(Head(q), c, i) THEN v = Tells(Head(q)) ELSE Says(Tail(q), c, i, v)
  <1>1. /\ Len(q) \in Nat \ {0}
        /\ Len(Tail(q)) = Len(q) - 1
        /\ Head(q) = q[1]
        /\ \A k \in 1 .. Len(q) - 1 : Tail(q)[k] = q[k + 1]
    BY HeadTailProperties, LenProperties, EmptySeq
  <1>2. 1 \in 1 .. Len(q)
    BY <1>1
  <1>3. CASE Decides(q[1], c, i)
    <2>1. PICK k \in 1 .. Len(q) : /\ Decides(q[k], c, i) /\ v = Tells(q[k])
                                   /\ \A l \in 1 .. k - 1 : ~Decides(q[l], c, i)
      BY <1>2, <1>3 DEF Says
    <2>2. k = 1
      <3>1. k # 1 => 1 \in 1 .. k - 1
        BY <1>1
      <3> QED
        BY <1>3, <2>1, <3>1
    <2> QED
      BY <1>1, <1>3, <2>1, <2>2
  <1>4. CASE ~Decides(q[1], c, i)
    <2> PICK p : p = Tail(q)
      OBVIOUS
    <2>1. CASE v = "none" /\ \A k \in 1 .. Len(q) : ~Decides(q[k], c, i)
      <3>1. \A k \in 1 .. Len(p) : k + 1 \in 1 .. Len(q) /\ p[k] = q[k + 1]
        BY <1>1
      <3>2. Says(p, c, i, v)
        BY <2>1, <3>1 DEF Says
      <3> QED
        BY <1>1, <1>4, <3>2
    <2>2. ASSUME NEW k \in 1 .. Len(q), Decides(q[k], c, i), v = Tells(q[k]),
                 \A l \in 1 .. k - 1 : ~Decides(q[l], c, i)
          PROVE  Says(p, c, i, v)
      <3>1. k # 1
        BY <1>4, <2>2
      <3>2. k - 1 \in 1 .. Len(p) /\ p[k - 1] = q[k]
        <4>1. PICK j \in 1 .. Len(q) - 1 : j = k - 1 /\ j + 1 = k
          BY <1>1, <3>1
        <4> QED
          BY <1>1, <4>1
      <3>3. ASSUME NEW l \in 1 .. k - 1 - 1
            PROVE  ~Decides(p[l], c, i)
        <4>1. l \in 1 .. Len(q) - 1 /\ l + 1 \in 1 .. k - 1
          BY <1>1
        <4> QED
          BY <1>1, <2>2, <4>1
      <3> QED
        BY <2>2, <3>2, <3>3 DEF Says
    <2>3. Says(p, c, i, v)
      BY <2>1, <2>2 DEF Says
    <2> QED
      BY <1>1, <1>4, <2>3
  <1> QED
    BY <1>3, <1>4

-----------------------------------------------------------------------------
(***************************************************************************)
(* The refinement mapping.                                                 *)
(***************************************************************************)

\* The state that a call maps to, by its frame.
LEMMA StateFacts ==
  ASSUME TypeOK, NEW c \in Service, NEW i \in CallId
  PROVE  /\ StateOf(c, i) \in {"idle", "open", "ok", "failed", "void"}
         /\ StateOf(c, i) = "open" <=> Waiting(c, i)
         /\ StateOf(c, i) = "void" <=> IsVoid(c, i)
  <1>1. call[c][i].state \in CallState
    BY DEF TypeOK, CallFrame
  <1>2. CASE IsVoid(c, i)
    BY <1>2 DEF StateOf, IsVoid, Waiting
  <1>3. CASE ~IsVoid(c, i) /\ call[c][i].state = "idle"
    BY <1>3 DEF StateOf, Waiting
  <1>4. CASE ~IsVoid(c, i) /\ call[c][i].state = "waiting"
    BY <1>4 DEF StateOf, IsVoid, Waiting
  <1>5. CASE ~IsVoid(c, i) /\ call[c][i].state \in {"resolved", "returned"}
    BY <1>5 DEF StateOf, Waiting
  <1>6. CASE ~IsVoid(c, i) /\ call[c][i].state \in {"rejected", "failed"}
    BY <1>6 DEF StateOf, Waiting
  <1> QED
    BY <1>1, <1>2, <1>3, <1>4, <1>5, <1>6 DEF CallState

\* VerdictOf is what the mailbox says.
LEMMA VerdictFacts == TypeOK => AllTold
  <1> SUFFICES ASSUME TypeOK, NEW c \in Service, NEW i \in CallId
               PROVE  Told(c, i)
    BY DEF AllTold
  <1> PICK q \in Seq(Message) : q = mailbox[c]
    BY DEF TypeOK
  <1>1. StateOf(c, i) \in {"ok", "failed"} => VerdictOf(c, i) = StateOf(c, i)
    BY DEF VerdictOf
  <1>2. StateOf(c, i) \notin {"open", "ok", "failed"} => VerdictOf(c, i) = "none"
    BY DEF VerdictOf
  <1>3. ASSUME StateOf(c, i) = "open", Answers(c, i) = {}
        PROVE  Says(q, c, i, VerdictOf(c, i))
    <2>1. VerdictOf(c, i) = "none"
      BY <1>3 DEF VerdictOf
    <2>2. \A k \in 1 .. Len(q) : ~Decides(q[k], c, i)
      BY <1>3 DEF Answers
    <2> QED
      BY <2>1, <2>2 DEF Says
  <1>4. ASSUME StateOf(c, i) = "open", Answers(c, i) # {}
        PROVE  Says(q, c, i, VerdictOf(c, i))
    <2> DEFINE P(k) == \A l \in Answers(c, i) : k <= l
               first == CHOOSE k \in Answers(c, i) : P(k)
    <2>1. Answers(c, i) \subseteq 1 .. Len(q) /\ Len(q) \in Nat
      BY LenProperties DEF Answers
    <2>2. \E k \in Answers(c, i) : P(k)
      BY <1>4, <2>1, First
    <2>3. first \in Answers(c, i) /\ P(first)
      BY <2>2
    <2>4. VerdictOf(c, i) = Tells(q[first])
      BY <1>4 DEF VerdictOf, Tells
    <2> HIDE DEF first
    <2>5. first \in 1 .. Len(q) /\ Decides(q[first], c, i)
      BY <2>3 DEF Answers
    <2>6. ASSUME NEW l \in 1 .. first - 1, Decides(q[l], c, i)
          PROVE  FALSE
      <3>1. l \in Answers(c, i)
        BY <2>1, <2>5, <2>6 DEF Answers
      <3> QED
        BY <2>1, <2>3, <2>5, <3>1
    <2> QED
      BY <2>4, <2>5, <2>6 DEF Says
  <1> QED
    BY <1>1, <1>2, <1>3, <1>4 DEF Told

LEMMA VerdictFactsNext == TypeOK' => AllTold'
  BY VerdictFacts, PTL

\* A step that moves every call as RpcCall allows is a step of RpcCall.
LEMMA StepMaps ==
  ASSUME TypeOK, \A c \in Service, i \in CallId : Moves(c, i)
  PROVE  Rpc!Next
  <1> DEFINE state == [c \in Service |-> [i \in CallId |-> StateOf(c, i)]]
             verdict == [c \in Service |-> [i \in CallId |-> VerdictOf(c, i)]]
  <1> SUFFICES ASSUME NEW c \in Service, NEW i \in CallId
               PROVE  \/ Rpc!Step(c, i)
                      \/ state'[c][i] = state[c][i] /\ verdict'[c][i] = verdict[c][i]
    BY DEF Rpc!Next
  <1>1. /\ state[c][i] = StateOf(c, i) /\ state'[c][i] = StateOf(c, i)'
        /\ verdict[c][i] = VerdictOf(c, i) /\ verdict'[c][i] = VerdictOf(c, i)'
    OBVIOUS
  <1>2. Moved(state[c][i], verdict[c][i], state'[c][i], verdict'[c][i])
    BY <1>1 DEF Moves
  <1>3. state[c][i] \in Rpc!State
    BY <1>1, StateFacts DEF Rpc!State
  <1> QED
    BY <1>2, <1>3 DEF Moved, Rpc!Step, Rpc!Open, Rpc!Decide, Rpc!Settle, Rpc!GiveUp, Rpc!Void,
                      Rpc!Moves

-----------------------------------------------------------------------------
(***************************************************************************)
(* What a step may do to a call.                                           *)
(***************************************************************************)

\* The verdicts before and after a step.
LEMMA ToldFacts ==
  ASSUME TypeOK, TypeOK', NEW c \in Service, NEW i \in CallId
  PROVE  Told(c, i) /\ Told(c, i)'
  <1>1. AllTold /\ AllTold'
    BY VerdictFacts, VerdictFactsNext
  <1> QED
    BY <1>1 DEF AllTold

\* The calls of a service that exits or has exited are void.
LEMMA GoneMoves ==
  ASSUME TypeOK, TypeOK', NEW c \in Service, NEW i \in CallId, status'[c] # "up"
  PROVE  Moves(c, i)
  <1>1. StateOf(c, i)' = "void"
    BY DEF StateOf, IsVoid
  <1>2. VerdictOf(c, i)' = "none"
    BY <1>1, ToldFacts DEF Told
  <1> QED
    BY <1>1, <1>2 DEF Moves, Moved

\* Only an open call has a verdict that may change.
LEMMA SettledMoves ==
  ASSUME TypeOK, TypeOK', NEW c \in Service, NEW i \in CallId,
         StateOf(c, i)' = StateOf(c, i), StateOf(c, i) # "open"
  PROVE  Moves(c, i)
  <1>1. StateOf(c, i) \in {"idle", "ok", "failed", "void"}
    BY StateFacts
  <1>2. VerdictOf(c, i)' = VerdictOf(c, i)
    BY <1>1, ToldFacts DEF Told
  <1> QED
    BY <1>2 DEF Moves, Moved

\* The call is left alone, and its mailbox becomes q or has one more message.
Receives(c, i, q) ==
  /\ call'[c][i] = call[c][i]
  /\ status'[c] = status[c]
  /\ mailbox'[c] = q \/ \E m \in Message : mailbox'[c] = Append(q, m)

\* A message that arrives decides the call or changes nothing.
LEMMA ReceivesMoves ==
  ASSUME TypeOK, TypeOK', NEW c \in Service, NEW i \in CallId, NEW q \in Seq(Message),
         Receives(c, i, q),
         Waiting(c, i) => Says(q, c, i, VerdictOf(c, i))
  PROVE  Moves(c, i)
  <1>1. StateOf(c, i)' = StateOf(c, i)
    BY DEF Receives, StateOf, IsVoid
  <1>2. CASE StateOf(c, i) = "open"
    <2> PICK v : v = VerdictOf(c, i)
      OBVIOUS
    <2> PICK w : w = VerdictOf(c, i)'
      OBVIOUS
    <2> PICK p \in Seq(Message) : p = mailbox'[c]
      BY DEF TypeOK
    <2>1. Says(q, c, i, v)
      BY <1>2, StateFacts
    <2>2. \A m : Decides(m, c, i)' <=> Decides(m, c, i)
      BY DEF Receives, Decides
    <2>3. Says(p, c, i, w)
      BY <1>1, <1>2, <2>2, ToldFacts DEF Told, Says
    <2>4. CASE p = q
      <3>1. v = w
        BY <2>1, <2>3, <2>4, OneVerdict
      <3> QED
        BY <1>1, <3>1 DEF Moves, Moved
    <2>5. CASE \E m \in Message : p = Append(q, m)
      <3> PICK m \in Message : p = Append(q, m)
        BY <2>5
      <3>1. \/ Says(p, c, i, v)
            \/ v = "none" /\ Says(p, c, i, Tells(m))
        BY <2>1, SaysAppended
      <3>2. v = w \/ (v = "none" /\ w = Tells(m))
        BY <2>3, <3>1, OneVerdict
      <3> QED
        BY <1>1, <1>2, <3>2 DEF Moves, Moved, Tells
    <2> QED
      BY <2>4, <2>5 DEF Receives
  <1>3. CASE StateOf(c, i) # "open"
    BY <1>1, <1>3, SettledMoves
  <1> QED
    BY <1>2, <1>3

\* A message is posted to the mailbox, or none.
LEMMA PostMoves ==
  ASSUME TypeOK, TypeOK', NEW c \in Service, NEW i \in CallId, Receives(c, i, mailbox[c])
  PROVE  Moves(c, i)
  <1> PICK q \in Seq(Message) : q = mailbox[c]
    BY DEF TypeOK
  <1>1. Receives(c, i, q)
    OBVIOUS
  <1>2. Waiting(c, i) => Says(q, c, i, VerdictOf(c, i))
    BY ToldFacts, StateFacts DEF Told
  <1> QED
    BY <1>1, <1>2, ReceivesMoves

\* A message that does not decide the call is taken, and another may be posted.
LEMMA TakeMoves ==
  ASSUME TypeOK, TypeOK', NEW c \in Service, NEW i \in CallId, mailbox[c] # << >>,
         Waiting(c, i) => ~Decides(Head(mailbox[c]), c, i),
         Receives(c, i, Tail(mailbox[c]))
  PROVE  Moves(c, i)
  <1> PICK q \in Seq(Message) : q = mailbox[c]
    BY DEF TypeOK
  <1> PICK p \in Seq(Message) : p = Tail(q)
    BY HeadTailProperties
  <1>1. Receives(c, i, p)
    OBVIOUS
  <1> PICK v : v = VerdictOf(c, i)
    OBVIOUS
  <1>2. ASSUME Waiting(c, i)
        PROVE  Says(p, c, i, v)
    <2>1. Says(q, c, i, v)
      BY <1>2, ToldFacts, StateFacts DEF Told
    <2>2. IF Decides(Head(q), c, i) THEN v = Tells(Head(q)) ELSE Says(Tail(q), c, i, v)
      BY <2>1, SaysTaken
    <2> QED
      BY <1>2, <2>2
  <1> QED
    BY <1>1, <1>2, ReceivesMoves

\* A message that decides the call is taken, and the call settles so.
LEMMA SettleMoves ==
  ASSUME TypeOK, TypeOK', NEW c \in Service, NEW i \in CallId, mailbox[c] # << >>,
         Waiting(c, i), Decides(Head(mailbox[c]), c, i),
         status'[c] = status[c], call'[c][i].session = call[c][i].session,
         call'[c][i].state = IF Head(mailbox[c]).type = "RESPONSE" THEN "resolved" ELSE "rejected"
  PROVE  Moves(c, i)
  <1> PICK q \in Seq(Message) : q = mailbox[c]
    BY DEF TypeOK
  <1> PICK v : v = VerdictOf(c, i)
    OBVIOUS
  <1>1. Says(q, c, i, v)
    BY ToldFacts, StateFacts DEF Told
  <1>2. v = Tells(Head(q))
    BY <1>1, SaysTaken
  <1>3. StateOf(c, i)' = v
    BY <1>2 DEF StateOf, IsVoid, Waiting, Tells
  <1>4. VerdictOf(c, i)' = v /\ v \in {"ok", "failed"}
    BY <1>2, <1>3, ToldFacts DEF Told, Tells
  <1> QED
    BY <1>3, <1>4, StateFacts DEF Moves, Moved

\* The call is rejected without a message.
LEMMA GiveUpMoves ==
  ASSUME TypeOK, TypeOK', NEW c \in Service, NEW i \in CallId, Waiting(c, i),
         status'[c] = status[c], call'[c][i].session = call[c][i].session,
         call'[c][i].state = "rejected"
  PROVE  Moves(c, i)
  <1>1. StateOf(c, i)' = "failed"
    BY DEF StateOf, IsVoid, Waiting
  <1>2. VerdictOf(c, i)' = "failed"
    BY <1>1, ToldFacts DEF Told
  <1> QED
    BY <1>1, <1>2, StateFacts DEF Moves, Moved

-----------------------------------------------------------------------------
(***************************************************************************)
(* The steps of SkynetSession.                                             *)
(***************************************************************************)

AllMove == \A c \in Service, i \in CallId : Moves(c, i)

\* What becomes of a mailbox when a message is posted.
LEMMA PostedTo ==
  ASSUME NEW box \in [Service -> Seq(Message)], NEW x \in Service, NEW m \in Message,
         NEW c \in Service
  PROVE  Posted(box, x, m)[c] \in {box[c], Append(box[c], m)}
  BY DEF Posted

\* A message is posted.
LEMMA PostMove ==
  ASSUME TypeOK, TypeOK', NEW x \in Service, NEW m \in Message, Post(x, m),
         UNCHANGED <<status, call>>
  PROVE  AllMove
  <1> SUFFICES ASSUME NEW c \in Service, NEW i \in CallId
               PROVE  Moves(c, i)
    BY DEF AllMove
  <1>1. mailbox'[c] \in {mailbox[c], Append(mailbox[c], m)}
    BY PostedTo DEF TypeOK, Post
  <1>2. Receives(c, i, mailbox[c])
    BY <1>1 DEF Receives
  <1> QED
    BY <1>2, PostMoves

\* A message is taken from the mailbox of s, and another may be posted.
LEMMA TakeMove ==
  ASSUME TypeOK, TypeOK', NEW s \in Service, mailbox[s] # << >>, UNCHANGED status,
         \/ mailbox' = Popped(s)
         \/ \E x \in Service, m \in Message : mailbox' = Posted(Popped(s), x, m),
         NEW c \in Service, NEW i \in CallId, call'[c][i] = call[c][i],
         c = s /\ Waiting(c, i) => ~Decides(Head(mailbox[c]), c, i)
  PROVE  Moves(c, i)
  <1> DEFINE box == Popped(s)
  <1>1. /\ box \in [Service -> Seq(Message)]
        /\ box[s] = Tail(mailbox[s])
        /\ \A e \in Service : e # s => box[e] = mailbox[e]
    <2>1. Tail(mailbox[s]) \in Seq(Message)
      BY HeadTailProperties DEF TypeOK
    <2> QED
      BY <2>1 DEF TypeOK, Popped
  <1> HIDE DEF box
  <1>2. mailbox'[c] = box[c] \/ \E m \in Message : mailbox'[c] = Append(box[c], m)
    <2>1. CASE mailbox' = box
      BY <2>1
    <2>2. CASE \E x \in Service, m \in Message : mailbox' = Posted(box, x, m)
      <3> PICK x \in Service, m \in Message : mailbox' = Posted(box, x, m)
        BY <2>2
      <3>1. Posted(box, x, m)[c] \in {box[c], Append(box[c], m)}
        BY <1>1, PostedTo
      <3> QED
        BY <3>1
    <2> QED
      BY <2>1, <2>2 DEF box
  <1>3. Receives(c, i, box[c])
    BY <1>2 DEF Receives
  <1>4. CASE c = s
    BY <1>1, <1>3, <1>4, TakeMoves
  <1>5. CASE c # s
    BY <1>1, <1>3, <1>5, PostMoves
  <1> QED
    BY <1>4, <1>5

\* No two calls of a service have the same session.
LEMMA SameCall ==
  ASSUME IInv, NEW c \in Service, NEW i \in CallId, NEW j \in CallId,
         call[c][i].session # 0, call[c][i].session = call[c][j].session
  PROVE  i = j
  <1>1. PICK f \in Nat : f = FirstSession[c]
    BY BoundAssumption DEF Session
  <1>2. call[c][i].session = f + i - 1 /\ call[c][j].session = f + j - 1
    BY <1>1 DEF IInv, Allocation
  <1>3. i \in Nat /\ j \in Nat
    BY BoundAssumption DEF CallId
  <1>4. f + i - 1 = f + j - 1
    BY <1>2
  <1> QED
    BY <1>3, <1>4

\* An answer with the session of a call comes from its callee, and decides it.
LEMMA AnswerDecides ==
  ASSUME IInv, NEW c \in Service, NEW i \in CallId, NEW m \in Good(c), m.type # "REQUEST",
         m.session # 0, m.session = call[c][i].session
  PROVE  Decides(m, c, i)
  <1>1. PICK j \in CallId : call[c][j].session = m.session /\ call[c][j].addr = m.source
    BY DEF Good, Called
  <1>2. i = j
    BY <1>1, SameCall
  <1> QED
    BY <1>1, <1>2 DEF Decides

\* A RESPONSE settles the call that it decides.
LEMMA DispatchResponseMoves ==
  ASSUME IInv, TypeOK', NEW s \in Service, DispatchResponse(s)
  PROVE  AllMove
  <1> PICK m \in Good(s) : m = Head(mailbox[s])
    BY TakesFacts DEF DispatchResponse
  <1>1. /\ UNCHANGED status /\ mailbox[s] # << >> /\ mailbox' = Popped(s)
        /\ m.type = "RESPONSE" /\ m.session # 0 /\ m.session \in Key
    BY DEF DispatchResponse, Takes, Good, Message
  <1>2. TypeOK /\ call \in [Service -> [CallId -> CallFrame]]
    BY DEF IInv, TypeOK
  <1>3. PICK n \in CallId \cup {NoCall} : n = session_id_callback[s][m.session]
    BY <1>1 DEF IInv, TypeOK
  <1>4. n # NoCall => /\ call' = [call EXCEPT ![s][n].state = "resolved"]
                      /\ call[s][n].state = "waiting"
                      /\ call[s][n].session = m.session
    BY <1>1, <1>3 DEF DispatchResponse, IInv, Registered
  <1>5. n = NoCall => call' = call
    BY <1>3 DEF DispatchResponse
  <1> SUFFICES ASSUME NEW c \in Service, NEW i \in CallId, status'[c] = "up"
               PROVE  Moves(c, i)
    BY <1>2, GoneMoves DEF AllMove
  <1>6. CASE c = s /\ i = n
    <2>1. n # NoCall /\ n \in CallId
      BY <1>6, BoundAssumption DEF CallId, NoCall
    <2>2. call'[c][i].state = "resolved" /\ call'[c][i].session = call[c][i].session
      BY <1>2, <1>4, <1>6, <2>1 DEF CallFrame
    <2>3. Waiting(c, i) /\ Decides(m, c, i)
      BY <1>1, <1>4, <1>6, <2>1, AnswerDecides DEF Waiting
    <2> QED
      BY <1>1, <1>2, <1>6, <2>2, <2>3, SettleMoves
  <1>7. CASE ~ (c = s /\ i = n)
    <2>1. call'[c][i] = call[c][i]
      <3>1. CASE n = NoCall
        BY <1>5, <3>1
      <3>2. CASE n # NoCall
        BY <1>2, <1>4, <1>7, <3>2
      <3> QED
        BY <3>1, <3>2
    <2>2. c = s /\ Waiting(c, i) => ~Decides(m, c, i)
      BY <1>1, <1>3, <1>7 DEF Waiting, Decides, IInv, Registered
    <2> QED
      BY <1>1, <1>2, <2>1, <2>2, TakeMove
  <1> QED
    BY <1>6, <1>7

\* What Reject does to a call: nothing, or it is rejected.
LEMMA RejectedCall ==
  ASSUME IInv, NEW s \in Service, NEW K \in SUBSET Key, Reject(s, K),
         NEW c \in Service, NEW i \in CallId
  PROVE  \/ /\ call'[c][i] = call[c][i]
            /\ c = s /\ call[c][i].session \in K \ {0} => call[c][i].state # "waiting"
         \/ /\ c = s /\ call[c][i].session \in K
            /\ call[c][i].state = "waiting" /\ call'[c][i].state = "rejected"
            /\ call'[c][i].session = call[c][i].session
  <1>1. /\ call'[c][i].session = call[c][i].session
        /\ call'[c][i].addr = call[c][i].addr
        /\ \/ call'[c][i].state = call[c][i].state
           \/ /\ c = s /\ call[s][i].session \in K
              /\ call[s][i].state = "waiting"
              /\ call'[s][i].state = "rejected"
        /\ c = s /\ call[s][i].session \in K \ {0} => call'[s][i].state # "waiting"
        /\ call' \in [Service -> [CallId -> CallFrame]]
    BY RejectFacts
  <1>2. call[c][i] \in CallFrame /\ call'[c][i] \in CallFrame
    BY <1>1 DEF IInv, TypeOK
  <1>3. CASE call'[c][i].state = call[c][i].state
    <2> PICK f \in CallFrame, g \in CallFrame : f = call[c][i] /\ g = call'[c][i]
      BY <1>2
    <2>1. f.state = g.state /\ f.session = g.session /\ f.addr = g.addr
      BY <1>1, <1>3
    <2>2. f = g
      BY <2>1 DEF CallFrame
    <2> QED
      BY <1>1, <2>2
  <1> QED
    BY <1>1, <1>3

\* A call whose request was not accepted stays void.
LEMMA VoidMoves ==
  ASSUME TypeOK, TypeOK', NEW c \in Service, NEW i \in CallId,
         call[c][i].session = 0, call'[c][i].session = 0,
         call[c][i].state # "idle", call'[c][i].state # "idle"
  PROVE  Moves(c, i)
  <1>1. StateOf(c, i) = "void" /\ StateOf(c, i)' = "void"
    BY DEF StateOf, IsVoid
  <1> QED
    BY <1>1, SettledMoves

\* An ERROR rejects the calls that it decides.
LEMMA DispatchErrorMoves ==
  ASSUME IInv, TypeOK', NEW s \in Service, DispatchError(s)
  PROVE  AllMove
  <1> PICK m \in Good(s) : m = Head(mailbox[s])
    BY TakesFacts DEF DispatchError
  <1>1. /\ UNCHANGED status /\ mailbox[s] # << >> /\ mailbox' = Popped(s)
        /\ m.type = "ERROR" /\ m.session \in Key /\ m.source \in Service
    BY DEF DispatchError, Takes, Good, Message
  <1>2. TypeOK
    BY DEF IInv
  <1> DEFINE L == IF m.session = 0 THEN WaitingFor(s, m.source) ELSE {m.session}
  <1>3. PICK K \in SUBSET Key : K = L
    BY <1>1 DEF WaitingFor
  <1>4. Reject(s, K)
    BY <1>1, <1>3 DEF DispatchError, SourceDown
  <1>5. ASSUME NEW i \in CallId, Waiting(s, i)
        PROVE  Decides(m, s, i) <=> call[s][i].session \in K
    <2>1. call[s][i].session # 0 /\ call[s][i].session \in Key
      BY <1>2, <1>5 DEF TypeOK, CallFrame, Waiting
    <2>2. CASE m.session # 0
      BY <1>1, <1>3, <2>1, <2>2, AnswerDecides DEF Decides
    <2>3. CASE m.session = 0
      <3>1. watching_request[s][call[s][i].session] = call[s][i].addr
        BY <1>5 DEF IInv, Watches
      <3> QED
        BY <1>1, <1>3, <2>1, <2>3, <3>1 DEF Decides, WaitingFor
    <2> QED
      BY <2>2, <2>3
  <1> SUFFICES ASSUME NEW c \in Service, NEW i \in CallId, status'[c] = "up"
               PROVE  Moves(c, i)
    BY <1>2, GoneMoves DEF AllMove
  <1>6. CASE /\ call'[c][i] = call[c][i]
             /\ c = s /\ call[c][i].session \in K \ {0} => call[c][i].state # "waiting"
    <2>1. c = s /\ Waiting(c, i) => ~Decides(m, c, i)
      BY <1>5, <1>6 DEF Waiting
    <2> QED
      BY <1>1, <1>2, <1>6, <2>1, TakeMove
  <1>7. CASE /\ c = s /\ call[c][i].session \in K
             /\ call[c][i].state = "waiting" /\ call'[c][i].state = "rejected"
             /\ call'[c][i].session = call[c][i].session
    <2>1. CASE call[c][i].session = 0
      BY <1>2, <1>7, <2>1, VoidMoves
    <2>2. CASE call[c][i].session # 0
      <3>1. Waiting(c, i) /\ Decides(m, c, i)
        BY <1>1, <1>5, <1>7, <2>2 DEF Waiting
      <3> QED
        BY <1>1, <1>2, <1>7, <3>1, SettleMoves
    <2> QED
      BY <2>1, <2>2
  <1> QED
    BY <1>4, <1>6, <1>7, RejectedCall

\* term() gives up the calls to a service that is down.
LEMMA TermMoves ==
  ASSUME IInv, TypeOK', NEW s \in Service, NEW x \in Service, Term(s, x)
  PROVE  AllMove
  <1>1. UNCHANGED <<status, mailbox>> /\ TypeOK
    BY DEF Term, coreVars, IInv
  <1>2. PICK K \in SUBSET Key : K = WaitingFor(s, x)
    BY DEF WaitingFor
  <1>3. Reject(s, K)
    BY <1>2 DEF Term, SourceDown
  <1> SUFFICES ASSUME NEW c \in Service, NEW i \in CallId, status'[c] = "up"
               PROVE  Moves(c, i)
    BY <1>1, GoneMoves DEF AllMove
  <1>4. CASE call'[c][i] = call[c][i]
    <2>1. Receives(c, i, mailbox[c])
      BY <1>1, <1>4 DEF Receives
    <2> QED
      BY <1>1, <2>1, PostMoves
  <1>5. CASE /\ call[c][i].state = "waiting" /\ call'[c][i].state = "rejected"
             /\ call'[c][i].session = call[c][i].session
    <2>1. CASE call[c][i].session = 0
      BY <1>1, <1>5, <2>1, VoidMoves
    <2>2. CASE call[c][i].session # 0
      BY <1>1, <1>5, <2>2, GiveUpMoves DEF Waiting
    <2> QED
      BY <2>1, <2>2
  <1> QED
    BY <1>3, <1>4, <1>5, RejectedCall

\* A returned call keeps its verdict.
LEMMA ContinueMoves ==
  ASSUME IInv, TypeOK', NEW s \in Service, NEW j \in CallId, Continue(s, j)
  PROVE  AllMove
  <1>1. UNCHANGED <<status, mailbox>> /\ TypeOK
    BY DEF Continue, coreVars, IInv
  <1>2. PICK st \in {"resolved", "rejected"}, st2 \in {"returned", "failed"} :
          /\ call[s][j].state = st
          /\ call' = [call EXCEPT ![s][j].state = st2]
          /\ st = "resolved" <=> st2 = "returned"
    BY DEF Continue
  <1>3. call \in [Service -> [CallId -> CallFrame]]
    BY <1>1 DEF TypeOK
  <1> SUFFICES ASSUME NEW c \in Service, NEW i \in CallId
               PROVE  Moves(c, i)
    BY DEF AllMove
  <1>4. CASE <<c, i>> # <<s, j>>
    <2>1. call'[c][i] = call[c][i]
      BY <1>2, <1>3, <1>4
    <2>2. Receives(c, i, mailbox[c])
      BY <1>1, <2>1 DEF Receives
    <2> QED
      BY <1>1, <2>2, PostMoves
  <1>5. CASE <<c, i>> = <<s, j>>
    <2>1. call'[c][i].state = st2 /\ call'[c][i].session = call[c][i].session
      BY <1>2, <1>3, <1>5 DEF CallFrame
    <2>2. IsVoid(c, i)' <=> IsVoid(c, i)
      BY <1>1, <1>2, <1>5, <2>1 DEF IsVoid
    <2>3. StateOf(c, i)' = StateOf(c, i)
      <3>1. CASE IsVoid(c, i)
        BY <2>2, <3>1 DEF StateOf
      <3>2. CASE ~IsVoid(c, i)
        BY <1>2, <1>5, <2>1, <2>2, <3>2 DEF StateOf
      <3> QED
        BY <3>1, <3>2
    <2>4. StateOf(c, i) # "open"
      BY <1>1, <1>2, <1>5, StateFacts DEF Waiting
    <2> QED
      BY <1>1, <2>3, <2>4, SettledMoves
  <1> QED
    BY <1>4, <1>5

\* A call that is made is open, unless its request was not accepted.  No
\* answer to it can be in the mailbox, but a notice that the callee is down.
LEMMA CallMoves ==
  ASSUME IInv, TypeOK', NEW s \in Service, NEW d \in Service, Call(s, d)
  PROVE  AllMove
  <1>1. PICK j \in CallId : Call(s, d)!(j)
    BY DEF Call
  <1>2. Idle(s, j) /\ UNCHANGED status /\ TypeOK
    BY <1>1 DEF IInv
  <1>3. /\ nextSession[s] = FirstSession[s] + j - 1
        /\ nextSession[s] \in Session
        /\ FirstSession[s] \in Session
        /\ call[s][j].session = 0
    BY <1>2, FreshSession
  <1> PICK n \in Key : n = IF Accepts(d) THEN nextSession[s] ELSE 0
    <2>1. 0 \in Key /\ nextSession[s] \in Key
      BY <1>3, BoundAssumption DEF Key, Session
    <2>2. (IF Accepts(d) THEN nextSession[s] ELSE 0) \in Key
      BY <2>1
    <2> QED
      BY <2>2
  <1> PICK m : m = [type |-> "REQUEST", session |-> n, source |-> s]
    OBVIOUS
  <1>4. /\ mailbox' = Posted(mailbox, d, m)
        /\ call' = [call EXCEPT ![s][j] = [state |-> "waiting", session |-> n, addr |-> d]]
        /\ m \in Message /\ m.type = "REQUEST"
    BY <1>1 DEF Post, Message
  <1>5. call \in [Service -> [CallId -> CallFrame]] /\ mailbox \in [Service -> Seq(Message)]
    BY <1>2 DEF TypeOK
  <1> SUFFICES ASSUME NEW c \in Service, NEW i \in CallId, status'[c] = "up"
               PROVE  Moves(c, i)
    BY <1>2, GoneMoves DEF AllMove
  <1>6. mailbox'[c] \in {mailbox[c], Append(mailbox[c], m)}
    BY <1>4, <1>5, PostedTo
  <1>7. CASE <<c, i>> # <<s, j>>
    <2>1. call'[c][i] = call[c][i]
      BY <1>4, <1>5, <1>7
    <2>2. Receives(c, i, mailbox[c])
      BY <1>2, <1>4, <1>6, <2>1 DEF Receives
    <2> QED
      BY <1>2, <2>2, PostMoves
  <1>8. CASE <<c, i>> = <<s, j>>
    <2>1. /\ call'[c][i] = [state |-> "waiting", session |-> n, addr |-> d]
          /\ call[c][i].state = "idle" /\ status[c] = "up"
      BY <1>2, <1>4, <1>5, <1>8 DEF Idle
    <2>2. StateOf(c, i) = "idle"
      BY <2>1 DEF StateOf, IsVoid
    <2>3. CASE n = 0
      <3>1. StateOf(c, i)' = "void"
        BY <2>1, <2>3 DEF StateOf, IsVoid
      <3>2. VerdictOf(c, i)' = "none"
        BY <1>2, <3>1, ToldFacts DEF Told
      <3> QED
        BY <3>1, <3>2 DEF Moves, Moved
    <2>4. CASE n # 0
      <3>1. StateOf(c, i)' = "open"
        BY <1>2, <2>1, <2>4 DEF StateOf, IsVoid
      <3>2. ASSUME NEW e \in Good(s), e.type = "RESPONSE", e.session = n
            PROVE  FALSE
        <4>1. PICK k \in CallId : call[s][k].session = n
          BY <2>4, <3>2 DEF Good, Called
        <4>2. PICK f \in Nat : f = FirstSession[s]
          BY <1>3 DEF Session
        <4>3. n = f + k - 1 /\ n = f + j - 1
          BY <1>3, <2>4, <4>1, <4>2 DEF IInv, Allocation
        <4>4. k \in Nat /\ j \in Nat
          BY BoundAssumption DEF CallId
        <4>5. f + k - 1 = f + j - 1
          BY <4>3
        <4>6. k = j
          BY <4>4, <4>5
        <4> QED
          BY <1>3, <2>4, <4>1, <4>6
      <3> DEFINE M == Good(s) \cup {m}
      <3> PICK p \in Seq(M) : p = mailbox'[c]
        <4>1. mailbox[c] \in Seq(M)
          BY <1>8, SeqMonotonic DEF IInv, Origins
        <4>2. Append(mailbox[c], m) \in Seq(M)
          BY <4>1, AppendProperties
        <4> QED
          BY <1>6, <4>1, <4>2
      <3> PICK v : v = VerdictOf(c, i)'
        OBVIOUS
      <3>3. \A e \in M : e.type = "RESPONSE" => ~Decides(e, c, i)'
        BY <1>4, <2>1, <3>2 DEF Decides
      <3>4. v = "none" \/ \E k \in 1 .. Len(p) : Decides(p[k], c, i)' /\ v = Tells(p[k])
        BY <1>2, <3>1, ToldFacts DEF Told, Says
      <3>5. \A k \in 1 .. Len(p) : p[k] \in M
        BY ElementOfSeq
      <3>6. v \in {"none", "failed"}
        BY <3>3, <3>4, <3>5 DEF Tells
      <3> QED
        BY <2>2, <3>1, <3>6 DEF Moves, Moved
    <2> QED
      BY <2>3, <2>4
  <1> QED
    BY <1>7, <1>8

\* The mailboxes and the calls are left alone; a service may go down.
LEMMA QuietMoves ==
  ASSUME TypeOK, TypeOK', UNCHANGED <<mailbox, call>>,
         \A c \in Service : status'[c] = "up" => status[c] = "up"
  PROVE  AllMove
  <1> SUFFICES ASSUME NEW c \in Service, NEW i \in CallId, status'[c] = "up"
               PROVE  Moves(c, i)
    BY GoneMoves DEF AllMove
  <1>1. Receives(c, i, mailbox[c])
    BY DEF Receives
  <1> QED
    BY <1>1, PostMoves

\* What s sends.
LEMMA SentMessage ==
  ASSUME NEW s \in Service, NEW n \in Key, NEW type \in {"RESPONSE", "ERROR"}
  PROVE  [type |-> type, session |-> n, source |-> s] \in Message
  BY DEF Message

LEMMA KeyFacts == Session \subseteq Key /\ 0 \in Key
  BY BoundAssumption DEF Session, Key

\* A handler answers, or changes nothing that a caller sees.
LEMMA HandleMoves ==
  ASSUME IInv, TypeOK', NEW s \in Service, NEW r \in Request, Handle(s, r)
  PROVE  AllMove
  <1>1. TypeOK /\ r[1] \in Service /\ r[2] \in Key
    BY KeyFacts DEF IInv, Request
  <1>2. CASE Ret(s, r) \/ Respond(s, r)
    <2>1. UNCHANGED <<status, call>>
      BY <1>2 DEF Ret, Respond, callerVars
    <2>2. PICK type \in {"RESPONSE", "ERROR"} :
            Post(r[1], [type |-> type, session |-> r[2], source |-> s])
      BY <1>2 DEF Ret, Respond
    <2> QED
      BY <1>1, <2>1, <2>2, SentMessage, PostMove
  <1>3. CASE Response(s, r) \/ HandlerReturn(s, r) \/ HandlerThrow(s, r)
    <2>1. UNCHANGED <<status, mailbox, call>>
      BY <1>3 DEF Response, HandlerReturn, HandlerThrow, coreVars, callerVars
    <2> QED
      BY <1>1, <2>1, QuietMoves
  <1> QED
    BY <1>2, <1>3 DEF Handle

\* A request is taken, and refused or not.
LEMMA DispatchRequestMoves ==
  ASSUME IInv, TypeOK', NEW s \in Service, DispatchRequest(s)
  PROVE  AllMove
  <1> PICK m \in Good(s) : m = Head(mailbox[s])
    BY TakesFacts DEF DispatchRequest
  <1>1. /\ UNCHANGED <<status, call>> /\ mailbox[s] # << >> /\ TypeOK
        /\ m.type = "REQUEST" /\ m.session \in Key /\ m.source \in Service
    BY DEF DispatchRequest, Takes, callerVars, IInv, Good, Message
  <1> PICK e : e = [type |-> "ERROR", session |-> m.session, source |-> s]
    OBVIOUS
  <1>2. e \in Message
    BY <1>1, SentMessage
  <1>3. mailbox' = Popped(s) \/ mailbox' = Posted(Popped(s), m.source, e)
    BY DEF DispatchRequest
  <1>4. \/ mailbox' = Popped(s)
        \/ \E x \in Service, m2 \in Message : mailbox' = Posted(Popped(s), x, m2)
    BY <1>1, <1>2, <1>3
  <1> SUFFICES ASSUME NEW c \in Service, NEW i \in CallId
               PROVE  Moves(c, i)
    BY DEF AllMove
  <1>5. c = s => ~Decides(Head(mailbox[c]), c, i)
    BY <1>1 DEF Decides
  <1> QED
    BY <1>1, <1>4, <1>5, TakeMove

\* The mailbox of a service that is gone is dropped; its own calls are void.
LEMMA DropMessageMoves ==
  ASSUME IInv, TypeOK', NEW s \in Service, DropMessage(s)
  PROVE  AllMove
  <1>1. /\ UNCHANGED <<status, call>> /\ mailbox[s] # << >> /\ status[s] = "gone" /\ TypeOK
    BY DEF DropMessage, callerVars, IInv
  <1> PICK x \in Service : x = Head(mailbox[s]).source
    <2>1. mailbox[s] \in Seq(Message)
      BY <1>1 DEF TypeOK
    <2>2. Head(mailbox[s]) \in Message
      BY <1>1, <2>1, HeadTailProperties
    <2> QED
      BY <2>2 DEF Message
  <1> PICK e : e = [type |-> "ERROR", session |-> 0, source |-> s]
    OBVIOUS
  <1>2. e \in Message
    BY SentMessage, KeyFacts
  <1>3. mailbox' = Posted(Popped(s), x, e)
    BY DEF DropMessage
  <1>4. \E x2 \in Service, m2 \in Message : mailbox' = Posted(Popped(s), x2, m2)
    BY <1>2, <1>3
  <1> SUFFICES ASSUME NEW c \in Service, NEW i \in CallId
               PROVE  Moves(c, i)
    BY DEF AllMove
  <1>5. ~ (c = s /\ Waiting(c, i))
    BY <1>1 DEF Waiting
  <1> QED
    BY <1>1, <1>4, <1>5, TakeMove

\* exit() sends its reports.
LEMMA ReportMoves ==
  ASSUME IInv, TypeOK', NEW s \in Service, Report(s)
  PROVE  AllMove
  <1>1. TypeOK /\ Session \subseteq Key /\ 0 \in Key
    BY KeyFacts DEF IInv
  <1>2. CASE ReportCaller(s)
    <2>1. PICK n \in Session :
            /\ watching_response[s][n] # NoAddr
            /\ Post(watching_response[s][n], [type |-> "ERROR", session |-> n, source |-> s])
            /\ UNCHANGED <<status, call>>
      BY <1>2 DEF ReportCaller, Watched, callerVars
    <2>2. watching_response[s][n] \in Service
      BY <1>1, <2>1 DEF TypeOK
    <2> QED
      BY <1>1, <2>1, <2>2, SentMessage, PostMove
  <1>3. CASE ReportDeferred(s)
    <2>1. PICK r \in unresponse[s] :
            /\ Post(r[1], [type |-> "ERROR", session |-> r[2], source |-> s])
            /\ UNCHANGED <<status, call>>
      BY <1>3 DEF ReportDeferred, callerVars
    <2>2. r \in Service \X Session
      BY <1>1 DEF TypeOK, Request
    <2>3. r[1] \in Service /\ r[2] \in Key
      BY <1>1, <2>2
    <2> QED
      BY <1>1, <2>1, <2>3, SentMessage, PostMove
  <1>4. CASE ReportCallee(s)
    <2>1. PICK x \in Awaited(s) :
            /\ Post(x, [type |-> "ERROR", session |-> 0, source |-> s])
            /\ UNCHANGED <<status, call>>
      BY <1>4 DEF ReportCallee
    <2>2. x \in Service
      BY <1>1 DEF Awaited, TypeOK
    <2> QED
      BY <1>1, <2>1, <2>2, SentMessage, PostMove
  <1>5. CASE ExitEnd(s)
    <2>1. UNCHANGED <<mailbox, call>> /\ \A c \in Service : status'[c] = "up" => status[c] = "up"
      BY <1>1, <1>5 DEF ExitEnd, callerVars, TypeOK
    <2> QED
      BY <1>1, <2>1, QuietMoves
  <1> QED
    BY <1>2, <1>3, <1>4, <1>5 DEF Report

\* The initial states map to the one of RpcCall.
LEMMA InitMaps == Init => Rpc!Init
  <1> SUFFICES ASSUME Init, NEW c \in Service, NEW i \in CallId
               PROVE  StateOf(c, i) = "idle" /\ VerdictOf(c, i) = "none"
    BY DEF Rpc!Init
  <1>1. StateOf(c, i) = "idle"
    BY DEF Init, NoFrame, StateOf, IsVoid
  <1> QED
    BY <1>1 DEF VerdictOf

\* Every step moves the calls as RpcCall allows.
LEMMA NextMoves ==
  ASSUME IInv, IInv', [Next]_vars
  PROVE  AllMove
  <1>1. TypeOK /\ TypeOK'
    BY DEF IInv
  <1>2. CASE UNCHANGED vars
    BY <1>1, <1>2, QuietMoves DEF vars, coreVars, callerVars
  <1>3. ASSUME NEW s \in Service, Dispatch(s)
        PROVE  AllMove
    BY <1>1, <1>3, DispatchResponseMoves, DispatchErrorMoves, DispatchRequestMoves DEF Dispatch
  <1>4. ASSUME NEW s \in Service, ExitBegin(s) \/ Retire(s)
        PROVE  AllMove
    <2>1. UNCHANGED <<mailbox, call>> /\ \A c \in Service : status'[c] = "up" => status[c] = "up"
      BY <1>1, <1>4 DEF ExitBegin, Retire, callerVars, TypeOK
    <2> QED
      BY <1>1, <2>1, QuietMoves
  <1>5. ASSUME NEW s \in Service, NEW n \in Session, ErrorTail(s, n)
        PROVE  AllMove
    BY <1>1, <1>5, QuietMoves DEF ErrorTail, coreVars, callerVars
  <1> QED
    BY <1>1, <1>2, <1>3, <1>4, <1>5, ReportMoves, DropMessageMoves, CallMoves, TermMoves,
       ContinueMoves, HandleMoves DEF Next

\* dispatch_message_impl, _error_dispatch, ret, response, exit and the core
\* keep what RpcCall promises of every call, for any services and bounds, even
\* where services use the same sessions: the first answer or notice of death
\* decides, it stands, and the caller is told so.
THEOREM RpcImplemented == Spec => ImplementsRpc
  <1>1. Init => Rpc!Init
    BY InitMaps
  <1>2. IInv /\ IInv' /\ [Next]_vars => Rpc!Next
    BY NextMoves, StepMaps DEF AllMove, IInv
  <1> QED
    BY <1>1, <1>2, Invariant, PTL DEF Spec, ImplementsRpc, Rpc!Spec
=============================================================================
