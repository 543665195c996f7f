----------------------------- MODULE HTTPProofs -----------------------------
(***************************************************************************)
(* The web server for any number of clients, sockets and requests: the     *)
(* list of its sockets, the answers of every client and the keep-alive.    *)
(***************************************************************************)
EXTENDS HTTP, SequenceTheorems, TLAPS

IsListed(s) == \E i \in DOMAIN connections : connections[i] = s

(* No two sockets have one client; who waits to be accepted has no socket   *)
(* and no answer yet, and who has not called has neither.                   *)
OwnersAreApart ==
  /\ \A s, t \in Sockets : owner[s] = owner[t] /\ owner[s] # Nobody => s = t
  /\ \A s \in Sockets :
       owner[s] # Nobody => state[owner[s]] \in {"open", "closed", "reset"}
  /\ \A i, j \in DOMAIN backlog : backlog[i] = backlog[j] => i = j
  /\ \A i \in DOMAIN backlog :
       /\ state[backlog[i]] \in {"open", "closed", "reset"}
       /\ \A s \in Sockets : owner[s] # backlog[i]
       /\ answers[backlog[i]] = <<>>
  /\ \A k \in Clients : state[k] = "out" => answers[k] = <<>>

(* The update thread is at a socket of the list, behind those it is going   *)
(* to delete; the socket it processes has a message, the one it has closed  *)
(* to take it off the list has no client.                                   *)
InPass == update.at \in {"process", "send"}
UpdateIsPlaced ==
  /\ InPass => update.i \in DOMAIN connections
  /\ At("process") => recv[Current] # <<>>
  /\ \A i, j \in DOMAIN update.toDelete :
       update.toDelete[i] = update.toDelete[j] => i = j
  /\ \A i \in DOMAIN update.toDelete :
       \E p \in DOMAIN connections :
         /\ connections[p] = update.toDelete[i]
         /\ InPass => p < update.i
  /\ At("accept") \/ At("push") => update.toDelete = <<>>
  /\ At("remove") \/ At("erase") => update.toDelete # <<>>
  /\ At("push") => /\ update.newcon \in Sockets
                   /\ owner[update.newcon] = Nobody /\ backlog # <<>>
  /\ At("erase") => owner[Head(update.toDelete)] = Nobody

(* The pieces of a client, in the answers it got and in the two queues of   *)
(* its socket.                                                              *)
StatusOf(request) ==
  IF request.accept = <<>> THEN ProcessRequest(request.uri, "text", "plain")
  ELSE ProcessRequest(request.uri, LookUp(request.accept[1]),
                                   LookUp(request.accept[2]))
Answers(k, response) ==
  /\ response.to[1] = k /\ response.to[2] \in 1 .. taken[k]
  /\ response.status = StatusOf(sent[k][response.to[2]])

AnswersAscend ==
  \A k \in Clients :
    /\ \A i \in DOMAIN answers[k] : Answers(k, answers[k][i])
    /\ \A i, j \in DOMAIN answers[k] :
         i < j => answers[k][i].to[2] < answers[k][j].to[2]

IsReply(s, i) == send[s][i] # Disconnect
RepliesAscend ==
  \A s \in Sockets : owner[s] # Nobody =>
    /\ \A i \in DOMAIN send[s] : IsReply(s, i) => Answers(owner[s], send[s][i])
    /\ \A i, j \in DOMAIN send[s] :
         i < j /\ IsReply(s, i) /\ IsReply(s, j)
           => send[s][i].to[2] < send[s][j].to[2]
    /\ \A i \in DOMAIN send[s], j \in DOMAIN answers[owner[s]] :
         IsReply(s, i) => answers[owner[s]][j].to[2] < send[s][i].to[2]

IsPiece(s, i) == recv[s][i] # Empty
PiecesAscend ==
  \A s \in Sockets : owner[s] # Nobody =>
    /\ \A i \in DOMAIN recv[s] :
         IsPiece(s, i) => recv[s][i][1] = owner[s]
                          /\ recv[s][i][2] \in 1 .. taken[owner[s]]
    /\ \A i, j \in DOMAIN recv[s] :
         i < j /\ IsPiece(s, i) /\ IsPiece(s, j)
           => recv[s][i][2] < recv[s][j][2]
    /\ \A i \in DOMAIN recv[s], j \in DOMAIN send[s] :
         IsPiece(s, i) /\ IsReply(s, j) => send[s][j].to[2] < recv[s][i][2]
    /\ \A i \in DOMAIN recv[s], j \in DOMAIN answers[owner[s]] :
         IsPiece(s, i) => answers[owner[s]][j].to[2] < recv[s][i][2]

HTTPInv ==
  /\ TypeOK /\ ListIsOpen /\ OwnersAreApart /\ UpdateIsPlaced
  /\ KeptAliveIsTimed /\ AnswersAscend /\ RepliesAscend /\ PiecesAscend

-----------------------------------------------------------------------------
(* The types, field by field, as the proofs use them.                       *)
LEMMA HTTPTypes ==
  ASSUME TypeOK
  PROVE  /\ connections \in Seq(Sockets) /\ Len(connections) \in Nat
         /\ DOMAIN connections = 1 .. Len(connections)
         /\ \A i \in DOMAIN connections : connections[i] \in Sockets
         /\ send \in [Sockets -> Seq(Responses \cup {Disconnect})]
         /\ recv \in [Sockets -> Seq(Pieces \cup {Empty})]
         /\ \A s \in Sockets : /\ Len(send[s]) \in Nat /\ Len(recv[s]) \in Nat
                               /\ DOMAIN send[s] = 1 .. Len(send[s])
                               /\ DOMAIN recv[s] = 1 .. Len(recv[s])
         /\ update.i \in Nat \ {0} /\ update.toDelete \in Seq(Sockets)
         /\ Len(update.toDelete) \in Nat
         /\ DOMAIN update.toDelete = 1 .. Len(update.toDelete)
         /\ \A i \in DOMAIN update.toDelete : update.toDelete[i] \in Sockets
         /\ update.at \in
              {"process", "send", "remove", "erase", "accept", "push"}
         /\ receive \in Nat /\ receive <= Len(connections)
         /\ owner \in [Sockets -> Clients \cup {Nobody}] /\ Nobody \notin Clients
         /\ backlog \in Seq(Clients) /\ Len(backlog) \in Nat
         /\ DOMAIN backlog = 1 .. Len(backlog)
         /\ \A i \in DOMAIN backlog : backlog[i] \in Clients
         /\ sent \in [Clients -> Seq(Requests)] /\ taken \in [Clients -> Nat]
         /\ \A k \in Clients : /\ Len(sent[k]) \in Nat
                               /\ DOMAIN sent[k] = 1 .. Len(sent[k])
                               /\ taken[k] <= Len(sent[k])
                               /\ Len(sent[k]) <= MaxPieces[k]
                               /\ MaxPieces[k] \in Nat
         /\ answers \in [Clients -> Seq(Responses)]
         /\ \A k \in Clients : /\ Len(answers[k]) \in Nat
                               /\ DOMAIN answers[k] = 1 .. Len(answers[k])
<1> USE DEF TypeOK, ProtocolTypeOK
<1>1. /\ connections \in Seq(Sockets) /\ Len(connections) \in Nat
      /\ DOMAIN connections = 1 .. Len(connections)
      /\ \A i \in DOMAIN connections : connections[i] \in Sockets
  BY LenProperties, ElementOfSeq
<1>2. \A s \in Sockets : /\ Len(send[s]) \in Nat /\ Len(recv[s]) \in Nat
                         /\ DOMAIN send[s] = 1 .. Len(send[s])
                         /\ DOMAIN recv[s] = 1 .. Len(recv[s])
  BY LenProperties
<1>3. /\ update.i \in Nat \ {0} /\ update.toDelete \in Seq(Sockets)
      /\ update.at \in {"process", "send", "remove", "erase", "accept", "push"}
  OBVIOUS
<1>4. /\ Len(update.toDelete) \in Nat
      /\ DOMAIN update.toDelete = 1 .. Len(update.toDelete)
      /\ \A i \in DOMAIN update.toDelete : update.toDelete[i] \in Sockets
  BY <1>3, LenProperties, ElementOfSeq
<1>5. receive \in Nat /\ receive <= Len(connections)
  BY <1>1
<1>6. /\ backlog \in Seq(Clients) /\ Len(backlog) \in Nat
      /\ DOMAIN backlog = 1 .. Len(backlog)
      /\ \A i \in DOMAIN backlog : backlog[i] \in Clients
  BY LenProperties, ElementOfSeq
<1>7. \A k \in Clients : /\ Len(sent[k]) \in Nat
                         /\ DOMAIN sent[k] = 1 .. Len(sent[k])
                         /\ taken[k] <= Len(sent[k])
                         /\ Len(sent[k]) <= MaxPieces[k]
                         /\ MaxPieces[k] \in Nat
  BY LenProperties, ProtocolAssumption
<1>8. \A k \in Clients : /\ Len(answers[k]) \in Nat
                         /\ DOMAIN answers[k] = 1 .. Len(answers[k])
  BY LenProperties
<1> QED BY <1>1, <1>2, <1>3, <1>4, <1>5, <1>6, <1>7, <1>8, ProtocolAssumption

(* The parts of the invariant that a step touches little of.                *)

(* Nothing is closed or taken off the list.                                 *)
LEMMA ListStays ==
  ASSUME ListIsOpen, UNCHANGED <<connections, owner>>, ~At("erase"), ~At("erase")'
  PROVE  ListIsOpen'
BY DEF ListIsOpen, At

(* No socket, client or answer changes.                                     *)
LEMMA OwnersStay ==
  ASSUME OwnersAreApart, UNCHANGED <<owner, backlog, state, answers>>
  PROVE  OwnersAreApart'
BY DEF OwnersAreApart

(* No answer, and the queues are those of the same client or empty. What    *)
(* was asked stays so: the pieces written are only added to.                *)
LEMMA AnswersStay ==
  ASSUME TypeOK, AnswersAscend, RepliesAscend, PiecesAscend,
         UNCHANGED <<answers, taken>>,
         \A s \in Sockets : owner'[s] # Nobody =>
           \/ /\ owner'[s] = owner[s]
              /\ send'[s] = send[s] /\ recv'[s] = recv[s]
           \/ send'[s] = <<>> /\ recv'[s] = <<>>,
         \A k \in Clients : \A n \in 1 .. taken[k] : sent'[k][n] = sent[k][n]
  PROVE  AnswersAscend' /\ RepliesAscend' /\ PiecesAscend'
<1>1. AnswersAscend'
  BY DEF AnswersAscend, Answers
<1>2. RepliesAscend'
  <2> SUFFICES ASSUME NEW s \in Sockets, owner'[s] # Nobody
               PROVE  /\ \A i \in DOMAIN send'[s] :
                           IsReply(s, i)' => Answers(owner[s], send[s][i])'
                      /\ \A i, j \in DOMAIN send'[s] :
                           i < j /\ IsReply(s, i)' /\ IsReply(s, j)'
                             => send'[s][i].to[2] < send'[s][j].to[2]
                      /\ \A i \in DOMAIN send'[s],
                            j \in DOMAIN answers'[owner'[s]] :
                           IsReply(s, i)' =>
                             answers'[owner'[s]][j].to[2] < send'[s][i].to[2]
    BY DEF RepliesAscend
  <2>1. CASE send'[s] = <<>>
    BY <2>1
  <2>2. CASE owner'[s] = owner[s] /\ send'[s] = send[s]
    <3>1. owner[s] \in Clients
      BY <2>2, HTTPTypes
    <3>2. \A i \in DOMAIN send'[s] :
            IsReply(s, i)' => Answers(owner[s], send[s][i])'
      BY <2>2, <3>1 DEF RepliesAscend, IsReply, Answers
    <3> QED BY <2>2, <3>2 DEF RepliesAscend, IsReply
  <2> QED BY <2>1, <2>2
<1>3. PiecesAscend'
  <2> SUFFICES ASSUME NEW s \in Sockets, owner'[s] # Nobody, recv'[s] # <<>>
               PROVE  /\ \A i \in DOMAIN recv'[s] : IsPiece(s, i)' =>
                           recv'[s][i][1] = owner'[s]
                           /\ recv'[s][i][2] \in 1 .. taken[owner'[s]]
                      /\ \A i, j \in DOMAIN recv'[s] :
                           i < j /\ IsPiece(s, i)' /\ IsPiece(s, j)'
                             => recv'[s][i][2] < recv'[s][j][2]
                      /\ \A i \in DOMAIN recv'[s], j \in DOMAIN send'[s] :
                           IsPiece(s, i)' /\ IsReply(s, j)'
                             => send'[s][j].to[2] < recv'[s][i][2]
                      /\ \A i \in DOMAIN recv'[s],
                            j \in DOMAIN answers'[owner'[s]] :
                           IsPiece(s, i)' =>
                             answers'[owner'[s]][j].to[2] < recv'[s][i][2]
    <3>1. \A s \in Sockets : recv'[s] = <<>> => DOMAIN recv'[s] = {}
      OBVIOUS
    <3> QED BY <3>1 DEF PiecesAscend
  <2>1. owner'[s] = owner[s] /\ send'[s] = send[s] /\ recv'[s] = recv[s]
    OBVIOUS
  <2>2. /\ \A i : IsPiece(s, i)' <=> IsPiece(s, i)
        /\ \A i : IsReply(s, i)' <=> IsReply(s, i)
        /\ answers'[owner'[s]] = answers[owner[s]]
        /\ taken'[owner'[s]] = taken[owner[s]]
    BY <2>1 DEF IsPiece, IsReply
  <2> QED BY <2>1, <2>2 DEF PiecesAscend
<1> QED BY <1>1, <1>2, <1>3

(* The update thread comes to place i of the list.                          *)
LEMMA ComesToPlace ==
  ASSUME NEW i \in Nat \ {0}, NEW list \in Seq(Sockets), NEW queue,
         NEW toDelete \in Seq(Sockets), update' = Place(i, list, queue, toDelete)
  PROVE  /\ update' \in [at : {"process", "send", "remove", "erase", "accept",
                               "push"},
                         i : Nat \ {0}, toDelete : Seq(Sockets),
                         newcon : Sockets \cup {Nobody}]
         /\ update'.i = i /\ update'.toDelete = toDelete
         /\ ~At("erase")' /\ ~At("push")'
         /\ InPass' <=> i <= Len(list)
         /\ At("process")' => i <= Len(list) /\ queue[list[i]] # <<>>
         /\ At("accept")' => toDelete = <<>>
         /\ At("remove")' => toDelete # <<>>
<1>1. /\ update'.i = i /\ update'.toDelete = toDelete
      /\ update'.at = IF i <= Len(list)
                      THEN IF queue[list[i]] = <<>> THEN "send" ELSE "process"
                      ELSE IF toDelete = <<>> THEN "accept" ELSE "remove"
  BY DEF Place
<1>2. update'.at \in {"process", "send", "remove", "erase", "accept", "push"}
  BY <1>1
<1>3. update' = [i |-> i, toDelete |-> toDelete, at |-> update'.at,
                  newcon |-> Nobody]
  BY <1>1 DEF Place
<1>4. update' \in [at : {"process", "send", "remove", "erase", "accept", "push"},
                   i : Nat \ {0}, toDelete : Seq(Sockets),
                   newcon : Sockets \cup {Nobody}]
  BY <1>2, <1>3
<1> QED BY <1>1, <1>4 DEF At, InPass

(* The pass goes on to the next socket, and has put the current one on the  *)
(* list of those to delete or not.                                          *)
LEMMA PassGoesOn ==
  ASSUME TypeOK, ListIsOpen, UpdateIsPlaced, InPass,
         UNCHANGED <<connections, recv>>, NextSocket \/ DeleteCurrent
  PROVE  /\ UpdateIsPlaced' /\ ~At("erase") /\ ~At("erase")'
         /\ update' \in [at : {"process", "send", "remove", "erase", "accept",
                               "push"},
                         i : Nat \ {0}, toDelete : Seq(Sockets),
                         newcon : Sockets \cup {Nobody}]
<1> DEFINE T == IF NextSocket THEN update.toDelete
                ELSE Append(update.toDelete, Current)
           n == update.i + 1
<1>1. /\ connections \in Seq(Sockets) /\ Len(connections) \in Nat
      /\ DOMAIN connections = 1 .. Len(connections)
      /\ update.i \in Nat \ {0} /\ update.i \in DOMAIN connections
      /\ Current \in Sockets
  BY HTTPTypes DEF UpdateIsPlaced, Current
<1>2. /\ update.toDelete \in Seq(Sockets) /\ Len(update.toDelete) \in Nat
      /\ DOMAIN update.toDelete = 1 .. Len(update.toDelete)
      /\ \A i \in DOMAIN update.toDelete : update.toDelete[i] \in Sockets
  BY HTTPTypes
<1>3. /\ \A i, j \in DOMAIN update.toDelete :
           update.toDelete[i] = update.toDelete[j] => i = j
      /\ \A i \in DOMAIN update.toDelete :
           \E p \in DOMAIN connections :
             connections[p] = update.toDelete[i] /\ p < update.i
  BY DEF UpdateIsPlaced
<1>4. /\ T \in Seq(Sockets) /\ n \in Nat \ {0}
      /\ \A i, j \in DOMAIN T : T[i] = T[j] => i = j
      /\ \A i \in DOMAIN T :
           \E p \in DOMAIN connections : connections[p] = T[i] /\ p < n
  <2>1. CASE NextSocket
    <3>1. T = update.toDelete
      BY <2>1
    <3>2. \A i \in DOMAIN T :
            \E p \in DOMAIN connections : connections[p] = T[i] /\ p < n
      <4> SUFFICES ASSUME NEW i \in DOMAIN update.toDelete
                   PROVE  \E p \in DOMAIN connections :
                            connections[p] = update.toDelete[i] /\ p < n
        BY <3>1
      <4>1. PICK p \in DOMAIN connections :
              connections[p] = update.toDelete[i] /\ p < update.i
        BY <1>3
      <4>2. p < n
        BY <1>1, <4>1
      <4> QED BY <4>1, <4>2
    <3>3. n \in Nat \ {0}
      BY <1>1
    <3> HIDE DEF T, n
    <3> QED BY <1>2, <1>3, <3>1, <3>2, <3>3
  <2>2. CASE ~NextSocket
    <3>1. T = Append(update.toDelete, Current)
      BY <2>2
    <3>2. /\ DOMAIN T = 1 .. Len(update.toDelete) + 1 /\ T \in Seq(Sockets)
          /\ \A i \in 1 .. Len(update.toDelete) : T[i] = update.toDelete[i]
          /\ T[Len(update.toDelete) + 1] = Current
      BY <1>1, <1>2, <3>1, AppendProperties
    <3> HIDE DEF T
    <3>3. ASSUME NEW i \in DOMAIN T
          PROVE  \E p \in DOMAIN connections : connections[p] = T[i] /\ p < n
      <4>1. CASE i \in 1 .. Len(update.toDelete)
        <5>1. PICK p \in DOMAIN connections :
                connections[p] = update.toDelete[i] /\ p < update.i
          BY <1>2, <1>3, <4>1
        <5>2. p < n /\ connections[p] = T[i]
          BY <1>1, <3>2, <4>1, <5>1
        <5> QED BY <5>2
      <4>2. CASE i = Len(update.toDelete) + 1
        <5>1. update.i < n /\ connections[update.i] = T[i]
          BY <1>1, <3>2, <4>2 DEF Current
        <5> QED BY <1>1, <5>1
      <4> QED BY <1>2, <3>2, <4>1, <4>2
    <3>4. \A i \in 1 .. Len(update.toDelete) : update.toDelete[i] # Current
      <4> SUFFICES ASSUME NEW i \in DOMAIN update.toDelete,
                          update.toDelete[i] = Current
                   PROVE  FALSE
        BY <1>2
      <4>1. PICK p \in DOMAIN connections :
              connections[p] = update.toDelete[i] /\ p < update.i
        BY <1>3
      <4>2. p = update.i
        BY <1>1, <4>1 DEF ListIsOpen, Current
      <4> QED BY <1>1, <4>1, <4>2
    <3>5. ASSUME NEW i \in DOMAIN T, NEW j \in DOMAIN T, T[i] = T[j] PROVE i = j
      <4>1. i \in 1 .. Len(update.toDelete) \/ i = Len(update.toDelete) + 1
        BY <1>2, <3>2
      <4>2. j \in 1 .. Len(update.toDelete) \/ j = Len(update.toDelete) + 1
        BY <1>2, <3>2
      <4> QED BY <1>2, <1>3, <3>2, <3>4, <3>5, <4>1, <4>2
    <3> QED BY <1>1, <3>2, <3>3, <3>5
  <2> QED BY <2>1, <2>2
<1>5. update' = Place(n, connections, recv, T)
  BY DEF NextSocket, DeleteCurrent
<1> HIDE DEF T, n
<1>6. /\ update'.i = n /\ update'.toDelete = T /\ ~At("erase")' /\ ~At("push")'
      /\ update' \in [at : {"process", "send", "remove", "erase", "accept",
                            "push"},
                      i : Nat \ {0}, toDelete : Seq(Sockets),
                      newcon : Sockets \cup {Nobody}]
      /\ InPass' <=> n <= Len(connections)
      /\ At("process")' => n <= Len(connections) /\ recv[connections[n]] # <<>>
      /\ At("accept")' => T = <<>>
      /\ At("remove")' => T # <<>>
  BY <1>1, <1>4, <1>5, ComesToPlace
<1>7. UpdateIsPlaced'
  <2>1. /\ InPass' => update'.i \in DOMAIN connections'
        /\ At("process")' => recv'[connections'[update'.i]] # <<>>
        /\ At("accept")' => update'.toDelete = <<>>
    BY <1>1, <1>4, <1>6
  <2>2. /\ At("remove")' => update'.toDelete # <<>>
        /\ ~At("erase")' /\ ~At("push")'
    BY <1>6 DEF At, InPass
  <2>3. /\ \A i, j \in DOMAIN update'.toDelete :
             update'.toDelete[i] = update'.toDelete[j] => i = j
        /\ \A i \in DOMAIN update'.toDelete :
             \E p \in DOMAIN connections' :
               connections'[p] = update'.toDelete[i] /\ p < update'.i
    BY <1>4, <1>6
  <2> QED BY <1>6, <2>1, <2>2, <2>3 DEF UpdateIsPlaced, Current
<1>8. ~At("erase")
  BY DEF InPass, At
<1> QED BY <1>6, <1>7, <1>8

(* A new pass begins.                                                       *)
LEMMA PassBegins ==
  ASSUME connections' \in Seq(Sockets), NextPass(connections', recv')
  PROVE  /\ UpdateIsPlaced' /\ ~At("erase")'
         /\ update' \in [at : {"process", "send", "remove", "erase", "accept",
                               "push"},
                         i : Nat \ {0}, toDelete : Seq(Sockets),
                         newcon : Sockets \cup {Nobody}]
<1>1. /\ update'.i = 1 /\ update'.toDelete = <<>>
      /\ ~At("erase")' /\ ~At("push")'
      /\ update' \in [at : {"process", "send", "remove", "erase", "accept",
                            "push"},
                      i : Nat \ {0}, toDelete : Seq(Sockets),
                      newcon : Sockets \cup {Nobody}]
      /\ InPass' <=> 1 <= Len(connections')
      /\ At("process")' =>
           1 <= Len(connections') /\ recv'[connections'[1]] # <<>>
      /\ At("remove")' => FALSE
  <2>1. <<>> \in Seq(Sockets) /\ 1 \in Nat \ {0}
    BY EmptySeq
  <2> DEFINE list == connections'
             queue == recv'
  <2>2. update' = Place(1, list, queue, <<>>) /\ list \in Seq(Sockets)
    BY DEF NextPass
  <2> HIDE DEF list, queue
  <2>3. /\ update'.i = 1 /\ update'.toDelete = <<>>
        /\ ~At("erase")' /\ ~At("push")'
        /\ update' \in [at : {"process", "send", "remove", "erase", "accept",
                              "push"},
                        i : Nat \ {0}, toDelete : Seq(Sockets),
                        newcon : Sockets \cup {Nobody}]
        /\ InPass' <=> 1 <= Len(list)
        /\ At("process")' => 1 <= Len(list) /\ queue[list[1]] # <<>>
        /\ At("remove")' => <<>> # <<>>
    BY <2>1, <2>2, ComesToPlace
  <2> QED BY <2>3 DEF list, queue
<1>2. Len(connections') \in Nat /\ DOMAIN connections' = 1 .. Len(connections')
  BY LenProperties
<1>3. DOMAIN update'.toDelete = {}
  BY <1>1
<1>4. At("accept")' \/ InPass'
  BY <1>1 DEF At, InPass
<1> QED BY <1>1, <1>2, <1>3, <1>4 DEF UpdateIsPlaced, Current

-----------------------------------------------------------------------------
(* The steps of the update thread. *)

(* SendNextMessage without a message: nothing left, a disconnect, an error. *)
LEMMA SocketIsLeft ==
  ASSUME HTTPInv, NothingToSend \/ SendDisconnect \/ SendFails, UNCHANGED http
  PROVE  HTTPInv'
<1>1. /\ TypeOK /\ ListIsOpen /\ OwnersAreApart /\ UpdateIsPlaced
      /\ KeptAliveIsTimed /\ AnswersAscend /\ RepliesAscend /\ PiecesAscend
  BY DEF HTTPInv
<1>2. /\ InPass
      /\ NextSocket \/ DeleteCurrent
      /\ UNCHANGED <<connections, recv>>
      /\ UNCHANGED <<send, receive, owner, backlog, state, sent, taken, answers,
                     m_webConnections, m_acceptType, m_acceptSubType>>
  BY DEF NothingToSend, SendDisconnect, SendFails, Sendable, At, InPass, queues,
         network, http
<1>3. /\ UpdateIsPlaced' /\ ~At("erase") /\ ~At("erase")'
      /\ update' \in [at : {"process", "send", "remove", "erase", "accept",
                            "push"},
                      i : Nat \ {0}, toDelete : Seq(Sockets),
                      newcon : Sockets \cup {Nobody}]
  BY <1>1, <1>2, PassGoesOn
<1>4. TypeOK'
  BY <1>1, <1>2, <1>3 DEF TypeOK, ProtocolTypeOK
<1>5. ListIsOpen' /\ OwnersAreApart'
  BY <1>1, <1>2, <1>3, ListStays, OwnersStay
<1>6. KeptAliveIsTimed'
  BY <1>1, <1>2 DEF KeptAliveIsTimed, IsEnding
<1>7. AnswersAscend' /\ RepliesAscend' /\ PiecesAscend'
  BY <1>1, <1>2, AnswersStay
<1> QED BY <1>3, <1>4, <1>5, <1>6, <1>7 DEF HTTPInv

(* Listed sockets are open while no socket is being closed.                 *)
LEMMA CurrentIsOwned ==
  ASSUME HTTPInv, InPass
  PROVE  /\ Current \in Sockets /\ owner[Current] \in Clients
         /\ owner[Current] # Nobody /\ update.i \in DOMAIN connections
<1>1. update.i \in DOMAIN connections /\ Current \in Sockets
  BY HTTPTypes DEF HTTPInv, UpdateIsPlaced, Current
<1>2. owner[Current] # Nobody
  BY <1>1 DEF HTTPInv, ListIsOpen, InPass, At, Current
<1> QED BY <1>1, <1>2, HTTPTypes DEF HTTPInv

(* SendNextMessage of a response: it goes from the queue to the answers.    *)
LEMMA ResponseIsSent ==
  ASSUME HTTPInv, SendNext, UNCHANGED http
  PROVE  HTTPInv'
<1> DEFINE c == Current
           k == owner[Current]
           r == Head(send[Current])
<1>1. /\ TypeOK /\ ListIsOpen /\ OwnersAreApart /\ UpdateIsPlaced
      /\ KeptAliveIsTimed /\ AnswersAscend /\ RepliesAscend /\ PiecesAscend
  BY DEF HTTPInv
<1>2. /\ At("send") /\ InPass /\ send[c] # <<>> /\ r # Disconnect
      /\ answers' = IF state[k] = "open"
                    THEN [answers EXCEPT ![k] = Append(@, r)] ELSE answers
      /\ send' = [send EXCEPT ![c] = Tail(@)]
      /\ IF Len(send[c]) = 1 THEN NextSocket ELSE UNCHANGED update
      /\ UNCHANGED <<connections, recv, receive, owner, backlog, state, sent,
                     taken, m_webConnections, m_acceptType, m_acceptSubType>>
  BY DEF SendNext, Sendable, InPass, At, http
<1>3. /\ c \in Sockets /\ k \in Clients /\ k # Nobody
      /\ \A s \in Sockets : owner[s] = k => s = c
  BY <1>1, <1>2, CurrentIsOwned DEF OwnersAreApart
<1>4. /\ send \in [Sockets -> Seq(Responses \cup {Disconnect})]
      /\ answers \in [Clients -> Seq(Responses)]
      /\ Len(send[c]) \in Nat \ {0} /\ DOMAIN send[c] = 1 .. Len(send[c])
      /\ Len(answers[k]) \in Nat /\ DOMAIN answers[k] = 1 .. Len(answers[k])
      /\ \A s \in Sockets : send[s] \in Seq(Responses \cup {Disconnect})
      /\ answers[k] \in Seq(Responses)
  <2>1. Len(send[c]) # 0
    BY <1>1, <1>2, <1>3, HTTPTypes, EmptySeq
  <2> QED BY <1>1, <1>3, <2>1, HTTPTypes
<1>5. /\ r = send[c][1] /\ r \in Responses /\ 1 \in DOMAIN send[c] /\ IsReply(c, 1)
      /\ Tail(send[c]) \in Seq(Responses \cup {Disconnect})
      /\ DOMAIN Tail(send[c]) = 1 .. Len(send[c]) - 1
      /\ \A i \in 1 .. Len(send[c]) - 1 :
           Tail(send[c])[i] = send[c][i + 1] /\ i + 1 \in DOMAIN send[c]
  <2>1. /\ r = send[c][1] /\ r \in Responses \cup {Disconnect}
        /\ Tail(send[c]) \in Seq(Responses \cup {Disconnect})
        /\ Len(Tail(send[c])) = Len(send[c]) - 1
        /\ \A i \in 1 .. Len(Tail(send[c])) : Tail(send[c])[i] = send[c][i + 1]
    BY <1>2, <1>3, <1>4, HeadTailProperties
  <2>2. DOMAIN Tail(send[c]) = 1 .. Len(Tail(send[c]))
    BY <2>1, LenProperties
  <2> QED BY <1>2, <1>4, <2>1, <2>2 DEF IsReply
<1>6. /\ Append(answers[k], r) \in Seq(Responses)
      /\ DOMAIN Append(answers[k], r) = 1 .. Len(answers[k]) + 1
      /\ \A i \in 1 .. Len(answers[k]) : Append(answers[k], r)[i] = answers[k][i]
      /\ Append(answers[k], r)[Len(answers[k]) + 1] = r
  BY <1>4, <1>5, AppendProperties, LenProperties
<1> HIDE DEF c, k, r
<1>7. \* the answers, before and after
      /\ \A l \in Clients : l # k => answers'[l] = answers[l]
      /\ answers'[k] = answers[k] \/ answers'[k] = Append(answers[k], r)
  BY <1>2, <1>3, <1>4
<1>8. /\ \A s \in Sockets : s # c => send'[s] = send[s]
      /\ send'[c] = Tail(send[c])
  BY <1>2, <1>3, <1>4
<1>9. /\ UpdateIsPlaced' /\ ~At("erase") /\ ~At("erase")'
      /\ update' \in [at : {"process", "send", "remove", "erase", "accept",
                            "push"},
                      i : Nat \ {0}, toDelete : Seq(Sockets),
                      newcon : Sockets \cup {Nobody}]
  <2>1. CASE Len(send[c]) = 1
    BY <1>1, <1>2, <2>1, PassGoesOn
  <2>2. CASE Len(send[c]) # 1
    <3>1. update' = update
      BY <1>2, <2>2
    <3>2. ~At("erase") /\ ~At("erase")'
      BY <1>2, <3>1 DEF At
    <3> QED BY <1>1, <1>2, <3>1, <3>2
            DEF UpdateIsPlaced, InPass, At, Current, TypeOK, ProtocolTypeOK
  <2> QED BY <2>1, <2>2
<1>10. TypeOK'
  <2>1. answers' \in [Clients -> Seq(Responses)]
    BY <1>2, <1>3, <1>4, <1>6
  <2>2. send' \in [Sockets -> Seq(Responses \cup {Disconnect})]
    BY <1>2, <1>3, <1>4, <1>5
  <2> QED BY <1>1, <1>2, <1>9, <2>1, <2>2 DEF TypeOK, ProtocolTypeOK
<1>11. ListIsOpen'
  BY <1>1, <1>2, <1>9, ListStays
<1>12. OwnersAreApart'
  <2>1. \A i \in DOMAIN backlog : backlog[i] # k /\ backlog[i] \in Clients
    BY <1>1, <1>3, HTTPTypes DEF OwnersAreApart, k, c
  <2>2. state[k] # "out"
    BY <1>1, <1>3 DEF OwnersAreApart, k, c
  <2> QED BY <1>1, <1>2, <1>7, <2>1, <2>2 DEF OwnersAreApart
<1>13. KeptAliveIsTimed'
  <2> SUFFICES ASSUME NEW s \in Sockets, owner[s] # Nobody, ~IsEnding(s)',
                      send'[s] # <<>> \/ answers'[owner[s]] # <<>>
               PROVE  m_webConnections[s] # "none"
    BY <1>2 DEF KeptAliveIsTimed
  <2>1. CASE s = c
    <3>1. ~IsEnding(c)
      <4> SUFFICES ASSUME NEW i \in DOMAIN send[c], send[c][i] = Disconnect
                   PROVE  FALSE
        BY DEF IsEnding
      <4>1. i # 1
        BY <1>2, <1>5
      <4>2. i - 1 \in 1 .. Len(send[c]) - 1 /\ (i - 1) + 1 = i
        BY <1>4, <4>1
      <4>3. i - 1 \in DOMAIN send'[c] /\ send'[c][i - 1] = Disconnect
        BY <1>5, <1>8, <4>2
      <4> QED BY <2>1, <4>3 DEF IsEnding
    <3> QED BY <1>1, <1>2, <2>1, <3>1 DEF KeptAliveIsTimed
  <2>2. CASE s # c
    <3>1. owner[s] # k /\ owner[s] \in Clients
      BY <1>1, <1>3, <2>2, HTTPTypes
    <3>2. send'[s] = send[s] /\ answers'[owner[s]] = answers[owner[s]]
      BY <1>7, <1>8, <2>2, <3>1
    <3>3. ~IsEnding(s)
      BY <3>2 DEF IsEnding
    <3> QED BY <1>1, <3>2, <3>3 DEF KeptAliveIsTimed
  <2> QED BY <2>1, <2>2
<1>14. \* the replies of the current socket
       /\ \A i \in DOMAIN send[c] : IsReply(c, i) => Answers(k, send[c][i])
       /\ \A i, j \in DOMAIN send[c] :
            i < j /\ IsReply(c, i) /\ IsReply(c, j)
              => send[c][i].to[2] < send[c][j].to[2]
       /\ \A i \in DOMAIN send[c], j \in DOMAIN answers[k] :
            IsReply(c, i) => answers[k][j].to[2] < send[c][i].to[2]
  BY <1>1, <1>3 DEF RepliesAscend, k, c
<1>15. \A l \in Clients : \A x : Answers(l, x)' <=> Answers(l, x)
  BY <1>2 DEF Answers
<1>16. AnswersAscend'
  <2> SUFFICES ASSUME NEW l \in Clients
               PROVE  /\ \A i \in DOMAIN answers'[l] : Answers(l, answers'[l][i])
                      /\ \A i, j \in DOMAIN answers'[l] :
                           i < j => answers'[l][i].to[2] < answers'[l][j].to[2]
    BY <1>2 DEF AnswersAscend, Answers
  <2>1. /\ \A i \in DOMAIN answers[l] : Answers(l, answers[l][i])
        /\ \A i, j \in DOMAIN answers[l] :
             i < j => answers[l][i].to[2] < answers[l][j].to[2]
    BY <1>1 DEF AnswersAscend
  <2>2. CASE answers'[l] = answers[l]
    BY <2>1, <2>2
  <2>3. CASE l = k /\ answers'[k] = Append(answers[k], r)
    <3>1. Answers(k, r)
      BY <1>5, <1>14
    <3>2. \A j \in DOMAIN answers[k] : answers[k][j].to[2] < r.to[2]
      BY <1>5, <1>14
    <3>3. ASSUME NEW i \in DOMAIN answers'[k]
          PROVE  Answers(k, answers'[k][i])
      <4>1. i \in 1 .. Len(answers[k]) \/ i = Len(answers[k]) + 1
        BY <1>4, <1>6, <2>3
      <4> QED BY <1>4, <1>6, <2>1, <2>3, <3>1, <4>1
    <3>4. ASSUME NEW i \in DOMAIN answers'[k], NEW j \in DOMAIN answers'[k], i < j
          PROVE  answers'[k][i].to[2] < answers'[k][j].to[2]
      <4>1. i \in 1 .. Len(answers[k])
        BY <1>4, <1>6, <2>3, <3>4
      <4>2. j \in 1 .. Len(answers[k]) \/ j = Len(answers[k]) + 1
        BY <1>4, <1>6, <2>3
      <4> QED BY <1>4, <1>6, <2>1, <2>3, <3>2, <3>4, <4>1, <4>2
    <3> QED BY <2>3, <3>3, <3>4
  <2> QED BY <1>7, <2>2, <2>3
<1>17. \* what the answers of the client are now, by the old queue
       \A j \in DOMAIN answers'[k] :
         \/ \E o \in DOMAIN answers[k] : answers'[k][j] = answers[k][o]
         \/ answers'[k][j] = send[c][1]
  <2>1. CASE answers'[k] = answers[k]
    BY <2>1
  <2>2. CASE answers'[k] = Append(answers[k], r)
    <3> SUFFICES ASSUME NEW j \in DOMAIN answers'[k]
                 PROVE  \/ \E o \in DOMAIN answers[k] :
                             answers'[k][j] = answers[k][o]
                        \/ answers'[k][j] = send[c][1]
      OBVIOUS
    <3>1. j \in 1 .. Len(answers[k]) \/ j = Len(answers[k]) + 1
      BY <1>4, <1>6, <2>2
    <3> QED BY <1>4, <1>5, <1>6, <2>2, <3>1
  <2> QED BY <1>7, <2>1, <2>2
<1>18. RepliesAscend'
  <2> SUFFICES ASSUME NEW s \in Sockets, owner[s] # Nobody
               PROVE  /\ \A i \in DOMAIN send'[s] : send'[s][i] # Disconnect =>
                           Answers(owner[s], send'[s][i])
                      /\ \A i, j \in DOMAIN send'[s] :
                           i < j /\ send'[s][i] # Disconnect
                                 /\ send'[s][j] # Disconnect
                             => send'[s][i].to[2] < send'[s][j].to[2]
                      /\ \A i \in DOMAIN send'[s], j \in DOMAIN answers'[owner[s]] :
                           send'[s][i] # Disconnect =>
                             answers'[owner[s]][j].to[2] < send'[s][i].to[2]
    <3>1. \A s \in Sockets : owner'[s] = owner[s]
                              /\ (owner[s] # Nobody => owner[s] \in Clients)
      BY <1>1, <1>2, HTTPTypes
    <3>2. \A s \in Sockets : owner[s] # Nobody =>
            \A x : Answers(owner[s], x)' <=> Answers(owner[s], x)
      BY <1>2 DEF Answers
    <3> QED BY <3>1, <3>2 DEF RepliesAscend, IsReply
  <2>1. CASE s # c
    <3>1. owner[s] # k /\ owner[s] \in Clients
      BY <1>1, <1>3, <2>1, HTTPTypes
    <3>2. send'[s] = send[s] /\ answers'[owner[s]] = answers[owner[s]]
      BY <1>7, <1>8, <2>1, <3>1
    <3> QED BY <1>1, <3>2 DEF RepliesAscend, IsReply
  <2>2. CASE s = c
    <3>1. owner[s] = k
      BY <2>2 DEF k, c
    <3>2. /\ DOMAIN send'[c] = 1 .. Len(send[c]) - 1
          /\ \A i \in 1 .. Len(send[c]) - 1 :
               /\ send'[c][i] = send[c][i + 1] /\ i + 1 \in DOMAIN send[c]
               /\ send'[c][i] # Disconnect => IsReply(c, i + 1)
      BY <1>5, <1>8 DEF IsReply
    <3>3. ASSUME NEW i \in DOMAIN send'[c], NEW j \in DOMAIN send'[c], i < j,
                 send'[c][i] # Disconnect, send'[c][j] # Disconnect
          PROVE  send'[c][i].to[2] < send'[c][j].to[2]
      <4>1. i + 1 < j + 1
        BY <1>4, <3>2, <3>3
      <4> QED BY <1>14, <3>2, <3>3, <4>1
    <3>4. ASSUME NEW i \in DOMAIN send'[c], NEW j \in DOMAIN answers'[k],
                 send'[c][i] # Disconnect
          PROVE  answers'[k][j].to[2] < send'[c][i].to[2]
      <4>1. 1 < i + 1
        BY <1>4, <3>2
      <4>2. send[c][1].to[2] < send[c][i + 1].to[2]
        BY <1>5, <1>14, <3>2, <3>4, <4>1
      <4> QED BY <1>14, <1>17, <3>2, <3>4, <4>2
    <3>5. \A i \in DOMAIN send'[c] :
            send'[c][i] # Disconnect => Answers(k, send'[c][i])
      BY <1>14, <3>2
    <3> QED BY <2>2, <3>1, <3>3, <3>4, <3>5
  <2> QED BY <2>1, <2>2
<1>19. PiecesAscend'
  <2> SUFFICES ASSUME NEW s \in Sockets, owner[s] # Nobody
               PROVE  /\ \A i \in DOMAIN recv[s], j \in DOMAIN send'[s] :
                           IsPiece(s, i) /\ send'[s][j] # Disconnect
                             => send'[s][j].to[2] < recv[s][i][2]
                      /\ \A i \in DOMAIN recv[s], j \in DOMAIN answers'[owner[s]] :
                           IsPiece(s, i) =>
                             answers'[owner[s]][j].to[2] < recv[s][i][2]
    BY <1>1, <1>2 DEF PiecesAscend, IsPiece, IsReply
  <2>1. /\ \A i \in DOMAIN recv[s], j \in DOMAIN send[s] :
             IsPiece(s, i) /\ IsReply(s, j) => send[s][j].to[2] < recv[s][i][2]
        /\ \A i \in DOMAIN recv[s], j \in DOMAIN answers[owner[s]] :
             IsPiece(s, i) => answers[owner[s]][j].to[2] < recv[s][i][2]
    BY <1>1 DEF PiecesAscend
  <2>2. CASE s # c
    <3>1. owner[s] # k /\ owner[s] \in Clients
      BY <1>1, <1>3, <2>2, HTTPTypes
    <3>2. send'[s] = send[s] /\ answers'[owner[s]] = answers[owner[s]]
      BY <1>7, <1>8, <2>2, <3>1
    <3> QED BY <2>1, <3>2 DEF IsReply
  <2>3. CASE s = c
    <3>1. owner[s] = k
      BY <2>3 DEF k, c
    <3>2. \A j \in DOMAIN send'[c] :
            send'[c][j] = send[c][j + 1] /\ j + 1 \in DOMAIN send[c]
      BY <1>5, <1>8
    <3>3. \A i \in DOMAIN recv[c] : IsPiece(c, i) =>
            send[c][1].to[2] < recv[c][i][2]
      BY <1>5, <2>1, <2>3
    <3> QED BY <1>17, <2>1, <2>3, <3>1, <3>2, <3>3 DEF IsReply
  <2> QED BY <2>2, <2>3
<1> QED BY <1>9, <1>10, <1>11, <1>12, <1>13, <1>16, <1>18, <1>19 DEF HTTPInv

(* RemoveConnection closes a socket: it stays in the list.                  *)
LEMMA SocketIsClosed ==
  ASSUME HTTPInv, CloseSocket, UNCHANGED http
  PROVE  HTTPInv'
<1> DEFINE c == Head(update.toDelete)
           k == owner[c]
<1>1. /\ TypeOK /\ ListIsOpen /\ OwnersAreApart /\ UpdateIsPlaced
      /\ KeptAliveIsTimed /\ AnswersAscend /\ RepliesAscend /\ PiecesAscend
  BY DEF HTTPInv
<1>2. /\ At("remove") /\ ~At("erase") /\ ~InPass
      /\ owner' = [owner EXCEPT ![c] = Nobody]
      /\ state' = [state EXCEPT ![k] = IF @ = "open" THEN "dropped" ELSE @]
      /\ update' = [update EXCEPT !.at = "erase"]
      /\ UNCHANGED <<connections, send, recv, receive, backlog, sent, taken,
                     answers, m_webConnections, m_acceptType, m_acceptSubType>>
  BY DEF CloseSocket, Goto, At, InPass, queues, http
<1>3. /\ update'.at = "erase" /\ update'.i = update.i
      /\ update'.toDelete = update.toDelete
      /\ update' \in [at : {"process", "send", "remove", "erase", "accept",
                            "push"},
                      i : Nat \ {0}, toDelete : Seq(Sockets),
                      newcon : Sockets \cup {Nobody}]
  BY <1>1, <1>2 DEF TypeOK, ProtocolTypeOK
<1>4. c \in Sockets /\ k \in Clients /\ k # Nobody /\ IsListed(c)
  <2>1. update.toDelete # <<>>
    BY <1>1, <1>2 DEF UpdateIsPlaced, At
  <2>2. c = update.toDelete[1] /\ 1 \in DOMAIN update.toDelete
    BY <1>1, <2>1, HTTPTypes, EmptySeq
  <2>3. IsListed(c) /\ c \in Sockets
    BY <1>1, <2>2, HTTPTypes DEF UpdateIsPlaced, IsListed
  <2>4. k # Nobody
    BY <1>1, <1>2, <2>3 DEF ListIsOpen, IsListed
  <2> QED BY <1>1, <2>3, <2>4, HTTPTypes
<1> HIDE DEF c, k
<1>5. /\ owner'[c] = Nobody /\ \A s \in Sockets : s # c => owner'[s] = owner[s]
      /\ owner' \in [Sockets -> Clients \cup {Nobody}]
  BY <1>1, <1>2, <1>4, HTTPTypes
<1>6. /\ state' \in [Clients -> {"out", "open", "closed", "reset", "dropped"}]
      /\ \A l \in Clients : l # k => state'[l] = state[l]
      /\ state'[k] # "out" \/ state[k] = "out"
  <2>1. state \in [Clients -> {"out", "open", "closed", "reset", "dropped"}]
    BY <1>1 DEF TypeOK, ProtocolTypeOK
  <2>2. state'[k] = IF state[k] = "open" THEN "dropped" ELSE state[k]
    BY <1>2, <1>4, <2>1
  <2> QED BY <1>2, <1>4, <2>1, <2>2
<1>7. TypeOK'
  BY <1>1, <1>2, <1>3, <1>5, <1>6 DEF TypeOK, ProtocolTypeOK
<1>8. ListIsOpen'
  <2>1. \A s \in Sockets :
          IsListed(s) <=> owner'[s] # Nobody \/ s = c
    BY <1>1, <1>2, <1>4, <1>5 DEF ListIsOpen, IsListed
  <2>2. At("erase")' /\ Head(update'.toDelete) = c
    BY <1>3 DEF At, c
  <2> QED BY <1>1, <1>2, <2>1, <2>2 DEF ListIsOpen, IsListed
<1>9. OwnersAreApart'
  <2>1. \A s \in Sockets : owner'[s] # Nobody => s # c /\ owner'[s] = owner[s]
    BY <1>5
  <2>2. /\ \A s \in Sockets : s # c => owner[s] # k
        /\ \A i \in DOMAIN backlog : backlog[i] # k /\ backlog[i] \in Clients
        /\ state[k] # "out"
    BY <1>1, <1>4, HTTPTypes DEF OwnersAreApart, k
  <2>3. \A s, t \in Sockets : owner'[s] = owner'[t] /\ owner'[s] # Nobody => s = t
    BY <1>1, <2>1 DEF OwnersAreApart
  <2>4. \A s \in Sockets :
          owner'[s] # Nobody => state'[owner'[s]] \in {"open", "closed", "reset"}
    <3> SUFFICES ASSUME NEW s \in Sockets, owner'[s] # Nobody
                 PROVE  state'[owner[s]] \in {"open", "closed", "reset"}
      BY <2>1
    <3>1. owner[s] # k /\ owner[s] \in Clients /\ owner[s] # Nobody
      BY <1>1, <2>1, <2>2, HTTPTypes
    <3> QED BY <1>1, <1>6, <3>1 DEF OwnersAreApart
  <2>5. \A i \in DOMAIN backlog :
          /\ state'[backlog[i]] \in {"open", "closed", "reset"}
          /\ \A s \in Sockets : owner'[s] # backlog[i]
          /\ answers[backlog[i]] = <<>>
    <3> SUFFICES ASSUME NEW i \in DOMAIN backlog
                 PROVE  /\ state'[backlog[i]] \in {"open", "closed", "reset"}
                        /\ \A s \in Sockets : owner'[s] # backlog[i]
                        /\ answers[backlog[i]] = <<>>
      OBVIOUS
    <3>1. state'[backlog[i]] = state[backlog[i]] /\ backlog[i] # Nobody
      BY <1>1, <1>6, <2>2, HTTPTypes
    <3>2. \A s \in Sockets : owner'[s] # backlog[i]
      BY <1>1, <2>1, <3>1 DEF OwnersAreApart
    <3> QED BY <1>1, <3>1, <3>2 DEF OwnersAreApart
  <2>6. \A l \in Clients : state'[l] = "out" => answers[l] = <<>>
    BY <1>1, <1>6, <2>2 DEF OwnersAreApart
  <2>7. \A i, j \in DOMAIN backlog : backlog[i] = backlog[j] => i = j
    BY <1>1 DEF OwnersAreApart
  <2> QED BY <1>2, <2>3, <2>4, <2>5, <2>6, <2>7 DEF OwnersAreApart
<1>10. UpdateIsPlaced'
  <2>1. ~InPass' /\ ~At("process")' /\ ~At("accept")' /\ ~At("push")'
    BY <1>3 DEF InPass, At
  <2>2. update.toDelete # <<>>
    BY <1>1, <1>2 DEF UpdateIsPlaced, At
  <2>3. owner'[Head(update'.toDelete)] = Nobody
    BY <1>3, <1>5 DEF c
  <2> QED BY <1>1, <1>2, <1>3, <2>1, <2>2, <2>3 DEF UpdateIsPlaced
<1>11. KeptAliveIsTimed'
  BY <1>1, <1>2, <1>5 DEF KeptAliveIsTimed, IsEnding
<1>12. AnswersAscend' /\ RepliesAscend' /\ PiecesAscend'
  <2>1. \A s \in Sockets : owner'[s] # Nobody =>
          owner'[s] = owner[s] /\ send'[s] = send[s] /\ recv'[s] = recv[s]
    BY <1>2, <1>5
  <2> QED BY <1>1, <1>2, <2>1, AnswersStay
<1> QED BY <1>7, <1>8, <1>9, <1>10, <1>11, <1>12 DEF HTTPInv

(* Erased of a socket that is listed once: the others stay, in their order. *)
LEMMA ErasedIsGone ==
  ASSUME TypeOK, NEW s \in Sockets, IsListed(s),
         \A i, j \in DOMAIN connections : connections[i] = connections[j] => i = j
  PROVE  /\ Erased(s) \in Seq(Sockets)
         /\ \A i, j \in DOMAIN Erased(s) : Erased(s)[i] = Erased(s)[j] => i = j
         /\ \A t \in Sockets :
              (\E i \in DOMAIN Erased(s) : Erased(s)[i] = t)
              <=> IsListed(t) /\ t # s
<1> DEFINE n == Len(connections)
           f == Found(s)
           A == SubSeq(connections, 1, f - 1)
           B == SubSeq(connections, f + 1, n)
<1>1. connections \in Seq(Sockets) /\ n \in Nat /\ DOMAIN connections = 1 .. n
  BY HTTPTypes
<1>2. f \in 1 .. n /\ connections[f] = s
  <2>1. PICK i \in DOMAIN connections : connections[i] = s
    BY DEF IsListed
  <2>2. \A j \in DOMAIN connections : connections[j] = s => j <= i
    BY <1>1, <2>1
  <2> QED BY <1>1, <2>1, <2>2 DEF Found
<1> HIDE DEF f, n
<1>3. /\ A \in Seq(Sockets) /\ Len(A) = f - 1
      /\ \A i \in 1 .. f - 1 : A[i] = connections[i]
  <2>1. 1 \in Int /\ f - 1 \in Int /\ \A i \in 1 .. f - 1 : connections[i] \in Sockets
    BY <1>1, <1>2, HTTPTypes
  <2> QED BY <1>1, <1>2, <2>1, SubSeqProperties
<1>4. /\ B \in Seq(Sockets) /\ Len(B) = n - f
      /\ \A i \in 1 .. n - f : B[i] = connections[f + i]
  <2>1. f + 1 \in Int /\ n \in Int
        /\ \A i \in f + 1 .. n : connections[i] \in Sockets
    BY <1>1, <1>2, HTTPTypes
  <2> QED BY <1>1, <1>2, <2>1, SubSeqProperties
<1>5. Erased(s) = A \o B
  BY DEF Erased, f, n
<1> HIDE DEF A, B
<1>6. /\ Erased(s) \in Seq(Sockets) /\ Len(Erased(s)) = n - 1
      /\ DOMAIN Erased(s) = 1 .. n - 1
      /\ \A i \in 1 .. n - 1 :
           Erased(s)[i] = connections[IF i < f THEN i ELSE i + 1]
  <2>1. /\ A \o B \in Seq(Sockets) /\ Len(A \o B) = Len(A) + Len(B)
        /\ \A i \in 1 .. Len(A) + Len(B) :
             (A \o B)[i] = IF i <= Len(A) THEN A[i] ELSE B[i - Len(A)]
    BY <1>3, <1>4, ConcatProperties
  <2>2. Len(A) + Len(B) = n - 1 /\ n - 1 \in Nat
    BY <1>1, <1>2, <1>3, <1>4
  <2>3. ASSUME NEW i \in 1 .. n - 1
        PROVE  (A \o B)[i] = connections[IF i < f THEN i ELSE i + 1]
    <3>1. CASE i < f
      <4>1. i <= Len(A) /\ i \in 1 .. f - 1
        BY <1>1, <1>2, <1>3, <3>1
      <4> QED BY <1>3, <2>1, <2>2, <3>1, <4>1
    <3>2. CASE ~(i < f)
      <4>1. ~(i <= Len(A)) /\ i - Len(A) \in 1 .. n - f
            /\ f + (i - Len(A)) = i + 1
        BY <1>1, <1>2, <1>3, <3>2
      <4> QED BY <1>4, <2>1, <2>2, <3>2, <4>1
    <3> QED BY <3>1, <3>2
  <2> QED BY <1>5, <2>1, <2>2, <2>3, LenProperties
<1>7. ASSUME NEW i \in DOMAIN Erased(s), NEW j \in DOMAIN Erased(s),
             Erased(s)[i] = Erased(s)[j]
      PROVE  i = j
  <2> DEFINE p == IF i < f THEN i ELSE i + 1
             q == IF j < f THEN j ELSE j + 1
  <2>1. p \in 1 .. n /\ q \in 1 .. n /\ (p = q => i = j)
    BY <1>1, <1>2, <1>6
  <2>2. connections[p] = connections[q]
    BY <1>6, <1>7
  <2> QED BY <1>1, <2>1, <2>2
<1>8. ASSUME NEW t \in Sockets
      PROVE  (\E i \in DOMAIN Erased(s) : Erased(s)[i] = t) <=> IsListed(t) /\ t # s
  <2>1. ASSUME NEW i \in DOMAIN Erased(s), Erased(s)[i] = t
        PROVE  IsListed(t) /\ t # s
    <3> DEFINE p == IF i < f THEN i ELSE i + 1
    <3>1. p \in 1 .. n /\ p # f
      BY <1>1, <1>2, <1>6
    <3>2. connections[p] = t
      BY <1>6, <2>1
    <3> QED BY <1>1, <1>2, <3>1, <3>2 DEF IsListed
  <2>2. ASSUME IsListed(t), t # s
        PROVE  \E i \in DOMAIN Erased(s) : Erased(s)[i] = t
    <3>1. PICK p \in 1 .. n : connections[p] = t
      BY <1>1, <2>2 DEF IsListed
    <3>2. p # f
      BY <1>2, <2>2, <3>1
    <3>3. CASE p < f
      <4>1. p \in 1 .. n - 1
        BY <1>1, <1>2, <3>1, <3>3
      <4> QED BY <1>6, <3>1, <3>3, <4>1
    <3>4. CASE p > f
      <4>1. p - 1 \in 1 .. n - 1 /\ ~(p - 1 < f) /\ (p - 1) + 1 = p
        BY <1>1, <1>2, <3>1, <3>4
      <4>2. Erased(s)[p - 1] = t
        BY <1>6, <3>1, <4>1
      <4> QED BY <1>6, <4>1, <4>2
    <3> QED BY <1>1, <1>2, <3>1, <3>2, <3>3, <3>4
  <2> QED BY <2>1, <2>2
<1> QED BY <1>6, <1>7, <1>8

(* RemoveConnection takes the closed socket off the list.                   *)
LEMMA SocketIsErased ==
  ASSUME HTTPInv, EraseSocket, UNCHANGED http
  PROVE  HTTPInv'
<1> DEFINE D == update.toDelete
           c == Head(D)
<1>1. /\ TypeOK /\ ListIsOpen /\ OwnersAreApart /\ UpdateIsPlaced
      /\ KeptAliveIsTimed /\ AnswersAscend /\ RepliesAscend /\ PiecesAscend
  BY DEF HTTPInv
<1>2. /\ At("erase") /\ ~InPass /\ receive = 0
      /\ connections' = Erased(c)
      /\ update' = [update EXCEPT !.toDelete = Tail(D),
                     !.at = IF Len(D) = 1 THEN "accept" ELSE "remove"]
      /\ UNCHANGED <<send, recv, receive, owner, backlog, state, sent, taken,
                     answers, m_webConnections, m_acceptType, m_acceptSubType>>
  BY DEF EraseSocket, ListIsLocked, At, InPass, queues, network, http
<1>3. /\ D \in Seq(Sockets) /\ D # <<>> /\ Len(D) \in Nat \ {0}
      /\ DOMAIN D = 1 .. Len(D) /\ c = D[1] /\ c \in Sockets
      /\ \A i \in 1 .. Len(D) : D[i] \in Sockets
      /\ IsListed(c) /\ owner[c] = Nobody
  <2>1. D # <<>> /\ owner[c] = Nobody
    BY <1>1, <1>2 DEF UpdateIsPlaced, At
  <2>2. /\ D \in Seq(Sockets) /\ Len(D) \in Nat /\ DOMAIN D = 1 .. Len(D)
        /\ \A i \in 1 .. Len(D) : D[i] \in Sockets
    BY <1>1, HTTPTypes
  <2>3. Len(D) # 0 /\ c = D[1]
    BY <2>1, <2>2, EmptySeq
  <2>4. 1 \in DOMAIN D
    BY <2>2, <2>3
  <2>5. IsListed(c)
    BY <1>1, <2>3, <2>4 DEF UpdateIsPlaced, IsListed
  <2> QED BY <2>1, <2>2, <2>3, <2>4, <2>5
<1>4. /\ Tail(D) \in Seq(Sockets) /\ DOMAIN Tail(D) = 1 .. Len(D) - 1
      /\ \A i \in 1 .. Len(D) - 1 : Tail(D)[i] = D[i + 1] /\ i + 1 \in 2 .. Len(D)
      /\ Len(D) = 1 => Tail(D) = <<>>
      /\ Len(D) # 1 => Tail(D) # <<>>
  <2>1. /\ Tail(D) \in Seq(Sockets) /\ Len(Tail(D)) = Len(D) - 1
        /\ \A i \in 1 .. Len(Tail(D)) : Tail(D)[i] = D[i + 1]
    BY <1>3, HeadTailProperties
  <2>2. DOMAIN Tail(D) = 1 .. Len(Tail(D))
    BY <2>1, LenProperties
  <2>3. /\ Len(D) = 1 => Tail(D) = <<>>
        /\ Len(D) # 1 => Tail(D) # <<>>
    <3>1. Len(Tail(D)) = 0 <=> Len(D) = 1
      BY <1>3, <2>1
    <3>2. Tail(D) = <<>> <=> Len(Tail(D)) = 0
      BY <2>1, EmptySeq
    <3> QED BY <3>1, <3>2
  <2>4. \A i \in 1 .. Len(D) - 1 : i + 1 \in 2 .. Len(D)
    BY <1>3
  <2> QED BY <2>1, <2>2, <2>3, <2>4
<1>5. /\ connections' \in Seq(Sockets)
      /\ \A i, j \in DOMAIN connections' : connections'[i] = connections'[j] => i = j
      /\ \A t \in Sockets :
           (\E i \in DOMAIN connections' : connections'[i] = t)
           <=> IsListed(t) /\ t # c
  BY <1>1, <1>2, <1>3, ErasedIsGone DEF ListIsOpen
<1>6. /\ update' \in [at : {"process", "send", "remove", "erase", "accept",
                            "push"},
                      i : Nat \ {0}, toDelete : Seq(Sockets),
                      newcon : Sockets \cup {Nobody}]
      /\ update'.toDelete = Tail(D)
      /\ update'.at = IF Len(D) = 1 THEN "accept" ELSE "remove"
  <2> DEFINE a == IF Len(D) = 1 THEN "accept" ELSE "remove"
  <2>1. a \in {"process", "send", "remove", "erase", "accept", "push"}
    OBVIOUS
  <2>2. update \in [at : {"process", "send", "remove", "erase", "accept", "push"},
                    i : Nat \ {0}, toDelete : Seq(Sockets),
                    newcon : Sockets \cup {Nobody}]
    BY <1>1 DEF TypeOK, ProtocolTypeOK
  <2>3. update' = [update EXCEPT !.toDelete = Tail(D), !.at = a]
    BY <1>2
  <2> HIDE DEF a
  <2>4. /\ update' \in [at : {"process", "send", "remove", "erase", "accept",
                              "push"},
                        i : Nat \ {0}, toDelete : Seq(Sockets),
                        newcon : Sockets \cup {Nobody}]
        /\ update'.toDelete = Tail(D) /\ update'.at = a
    BY <1>4, <2>1, <2>2, <2>3
  <2> QED BY <2>4 DEF a
<1> HIDE DEF D, c
<1>7. ~At("erase")' /\ ~InPass' /\ ~At("process")'
  BY <1>6 DEF At, InPass
<1>8. TypeOK'
  <2>1. receive' \in 0 .. Len(connections')
    BY <1>2, <1>5, LenProperties
  <2> QED BY <1>1, <1>2, <1>5, <1>6, <2>1 DEF TypeOK, ProtocolTypeOK
<1>9. ListIsOpen'
  <2>1. \A t \in Sockets : IsListed(t) <=> owner[t] # Nobody \/ t = c
    BY <1>1, <1>2 DEF ListIsOpen, IsListed, c, D
  <2> QED BY <1>2, <1>3, <1>5, <1>7, <2>1 DEF ListIsOpen
<1>10. OwnersAreApart'
  BY <1>1, <1>2, OwnersStay
<1>11. UpdateIsPlaced'
  <2>1. \A i, j \in DOMAIN D : D[i] = D[j] => i = j
    BY <1>1 DEF UpdateIsPlaced, D
  <2>2. \A i, j \in DOMAIN Tail(D) : Tail(D)[i] = Tail(D)[j] => i = j
    BY <1>3, <1>4, <2>1
  <2>3. \A i \in DOMAIN Tail(D) :
          \E p \in DOMAIN connections' : connections'[p] = Tail(D)[i]
    <3> SUFFICES ASSUME NEW i \in 1 .. Len(D) - 1
                 PROVE  \E p \in DOMAIN connections' : connections'[p] = D[i + 1]
      BY <1>4
    <3>1. i + 1 \in DOMAIN D /\ 1 \in DOMAIN D /\ i + 1 # 1
      BY <1>3, <1>4
    <3>2. D[i + 1] # c /\ D[i + 1] \in Sockets
      BY <1>3, <2>1, <3>1
    <3>3. IsListed(D[i + 1])
      BY <1>1, <3>1 DEF UpdateIsPlaced, IsListed, D
    <3> QED BY <1>5, <3>2, <3>3
  <2>4. /\ At("accept")' => Tail(D) = <<>>
        /\ ~At("accept")' => Tail(D) # <<>>
        /\ ~At("push")' /\ At("remove")' = ~At("accept")'
    BY <1>4, <1>6 DEF At
  <2> QED BY <1>6, <1>7, <2>2, <2>3, <2>4 DEF UpdateIsPlaced
<1>12. KeptAliveIsTimed'
  BY <1>1, <1>2 DEF KeptAliveIsTimed, IsEnding
<1>13. AnswersAscend' /\ RepliesAscend' /\ PiecesAscend'
  BY <1>1, <1>2, AnswersStay
<1> QED BY <1>8, <1>9, <1>10, <1>11, <1>12, <1>13 DEF HTTPInv

(* AcceptConnections finds nobody: the next pass begins.                    *)
LEMMA NobodyIsAccepted ==
  ASSUME HTTPInv, NothingToAccept, UNCHANGED http
  PROVE  HTTPInv'
<1>1. /\ TypeOK /\ ListIsOpen /\ OwnersAreApart /\ UpdateIsPlaced
      /\ KeptAliveIsTimed /\ AnswersAscend /\ RepliesAscend /\ PiecesAscend
  BY DEF HTTPInv
<1>2. /\ ~At("erase") /\ NextPass(connections, recv)
      /\ UNCHANGED <<connections, send, recv, receive, owner, backlog, state,
                     sent, taken, answers, m_webConnections, m_acceptType,
                     m_acceptSubType>>
  BY DEF NothingToAccept, At, queues, network, http
<1>3. NextPass(connections', recv') /\ connections' \in Seq(Sockets)
  BY <1>1, <1>2, HTTPTypes DEF NextPass, Place
<1>4. /\ UpdateIsPlaced' /\ ~At("erase")'
      /\ update' \in [at : {"process", "send", "remove", "erase", "accept",
                            "push"},
                      i : Nat \ {0}, toDelete : Seq(Sockets),
                      newcon : Sockets \cup {Nobody}]
  BY <1>3, PassBegins
<1>5. TypeOK'
  BY <1>1, <1>2, <1>4 DEF TypeOK, ProtocolTypeOK
<1>6. ListIsOpen' /\ OwnersAreApart'
  BY <1>1, <1>2, <1>4, ListStays, OwnersStay
<1>7. KeptAliveIsTimed'
  BY <1>1, <1>2 DEF KeptAliveIsTimed, IsEnding
<1>8. AnswersAscend' /\ RepliesAscend' /\ PiecesAscend'
  BY <1>1, <1>2, AnswersStay
<1> QED BY <1>4, <1>5, <1>6, <1>7, <1>8 DEF HTTPInv

(* AcceptConnections gives the first who waits a free socket.               *)
LEMMA ClientIsAccepted ==
  ASSUME HTTPInv, NEW s \in Sockets, AcceptConnections(s), UNCHANGED http
  PROVE  HTTPInv'
<1>1. /\ TypeOK /\ ListIsOpen /\ OwnersAreApart /\ UpdateIsPlaced
      /\ KeptAliveIsTimed /\ AnswersAscend /\ RepliesAscend /\ PiecesAscend
  BY DEF HTTPInv
<1>2. /\ At("accept") /\ ~At("erase") /\ backlog # <<>> /\ owner[s] = Nobody
      /\ update' = [update EXCEPT !.at = "push", !.newcon = s]
      /\ UNCHANGED <<connections, send, recv, receive, owner, backlog, state,
                     sent, taken, answers, m_webConnections, m_acceptType,
                     m_acceptSubType>>
  BY DEF AcceptConnections, FreeSockets, At, queues, network, http
<1>3. update \in [at : {"process", "send", "remove", "erase", "accept", "push"},
                  i : Nat \ {0}, toDelete : Seq(Sockets),
                  newcon : Sockets \cup {Nobody}]
  BY <1>1 DEF TypeOK, ProtocolTypeOK
<1>4. /\ update' \in [at : {"process", "send", "remove", "erase", "accept",
                            "push"},
                      i : Nat \ {0}, toDelete : Seq(Sockets),
                      newcon : Sockets \cup {Nobody}]
      /\ update'.at = "push" /\ update'.newcon = s
      /\ update'.toDelete = update.toDelete /\ update'.i = update.i
  BY <1>2, <1>3
<1>5. ~At("erase")' /\ ~At("process")' /\ ~InPass'
  BY <1>4 DEF At, InPass
<1>6. TypeOK'
  BY <1>1, <1>2, <1>4 DEF TypeOK, ProtocolTypeOK
<1>7. ListIsOpen' /\ OwnersAreApart'
  BY <1>1, <1>2, <1>5, ListStays, OwnersStay
<1>8. UpdateIsPlaced'
  BY <1>1, <1>2, <1>4, <1>5 DEF UpdateIsPlaced, At
<1>9. KeptAliveIsTimed'
  BY <1>1, <1>2 DEF KeptAliveIsTimed, IsEnding
<1>10. AnswersAscend' /\ RepliesAscend' /\ PiecesAscend'
  BY <1>1, <1>2, AnswersStay
<1> QED BY <1>6, <1>7, <1>8, <1>9, <1>10 DEF HTTPInv

(* The socket comes into the list, with the queues of the last one that had *)
(* its number cleared.                                                      *)
LEMMA SocketIsListed ==
  ASSUME HTTPInv, PushConnection, UNCHANGED http
  PROVE  HTTPInv'
<1> DEFINE k == Head(backlog)
           n == Len(connections)
           s == update.newcon
<1>0. s \in Sockets
  BY DEF HTTPInv, UpdateIsPlaced, PushConnection
<1>1. /\ TypeOK /\ ListIsOpen /\ OwnersAreApart /\ UpdateIsPlaced
      /\ KeptAliveIsTimed /\ AnswersAscend /\ RepliesAscend /\ PiecesAscend
  BY DEF HTTPInv
<1>2. /\ ~At("erase") /\ backlog # <<>> /\ receive = 0
      /\ owner[s] = Nobody
      /\ connections' = Append(connections, s)
      /\ send' = [send EXCEPT ![s] = <<>>]
      /\ recv' = [recv EXCEPT ![s] = <<>>]
      /\ owner' = [owner EXCEPT ![s] = k]
      /\ backlog' = Tail(backlog)
      /\ NextPass(connections', recv')
      /\ UNCHANGED <<receive, state, sent, taken, answers, m_webConnections,
                     m_acceptType, m_acceptSubType>>
  BY <1>1 DEF PushConnection, UpdateIsPlaced, ListIsLocked, AddCon, At, http
<1>3. /\ backlog \in Seq(Clients) /\ Len(backlog) \in Nat \ {0}
      /\ DOMAIN backlog = 1 .. Len(backlog) /\ k = backlog[1] /\ k \in Clients
      /\ k # Nobody /\ 1 \in DOMAIN backlog
  <2>1. /\ backlog \in Seq(Clients) /\ Len(backlog) \in Nat
        /\ DOMAIN backlog = 1 .. Len(backlog)
        /\ \A i \in DOMAIN backlog : backlog[i] \in Clients /\ backlog[i] # Nobody
    BY <1>1, HTTPTypes
  <2>2. Len(backlog) # 0 /\ k = backlog[1]
    BY <1>2, <2>1, EmptySeq
  <2> QED BY <2>1, <2>2
<1>4. /\ Tail(backlog) \in Seq(Clients)
      /\ DOMAIN Tail(backlog) = 1 .. Len(backlog) - 1
      /\ \A i \in 1 .. Len(backlog) - 1 :
           Tail(backlog)[i] = backlog[i + 1] /\ i + 1 \in 2 .. Len(backlog)
  <2>1. /\ Tail(backlog) \in Seq(Clients) /\ Len(Tail(backlog)) = Len(backlog) - 1
        /\ \A i \in 1 .. Len(Tail(backlog)) : Tail(backlog)[i] = backlog[i + 1]
    BY <1>2, <1>3, HeadTailProperties
  <2>2. DOMAIN Tail(backlog) = 1 .. Len(Tail(backlog))
    BY <2>1, LenProperties
  <2>3. \A i \in 1 .. Len(backlog) - 1 : i + 1 \in 2 .. Len(backlog)
    BY <1>3
  <2> QED BY <2>1, <2>2, <2>3
<1>5. /\ connections \in Seq(Sockets) /\ n \in Nat /\ DOMAIN connections = 1 .. n
  BY <1>1, HTTPTypes
<1>6. /\ connections' \in Seq(Sockets) /\ DOMAIN connections' = 1 .. n + 1
      /\ \A i \in 1 .. n : connections'[i] = connections[i]
      /\ connections'[n + 1] = s
      /\ Len(connections') = n + 1
  BY <1>0, <1>2, <1>5, AppendProperties
<1> HIDE DEF k, n, s
<1>7. /\ UpdateIsPlaced' /\ ~At("erase")'
      /\ update' \in [at : {"process", "send", "remove", "erase", "accept",
                            "push"},
                      i : Nat \ {0}, toDelete : Seq(Sockets),
                      newcon : Sockets \cup {Nobody}]
  BY <1>2, <1>6, PassBegins
<1>8. /\ owner' \in [Sockets -> Clients \cup {Nobody}]
      /\ owner'[s] = k /\ \A t \in Sockets : t # s => owner'[t] = owner[t]
      /\ send'[s] = <<>> /\ \A t \in Sockets : t # s => send'[t] = send[t]
      /\ recv'[s] = <<>> /\ \A t \in Sockets : t # s => recv'[t] = recv[t]
      /\ send' \in [Sockets -> Seq(Responses \cup {Disconnect})]
      /\ recv' \in [Sockets -> Seq(Pieces \cup {Empty})]
  <2>1. /\ <<>> \in Seq(Responses \cup {Disconnect})
        /\ <<>> \in Seq(Pieces \cup {Empty})
    BY EmptySeq
  <2>2. owner \in [Sockets -> Clients \cup {Nobody}]
    BY <1>1, HTTPTypes
  <2>3. send \in [Sockets -> Seq(Responses \cup {Disconnect})]
    BY <1>1, HTTPTypes
  <2>4. recv \in [Sockets -> Seq(Pieces \cup {Empty})]
    BY <1>1, HTTPTypes
  <2>5. /\ owner' \in [Sockets -> Clients \cup {Nobody}]
        /\ owner'[s] = k /\ \A t \in Sockets : t # s => owner'[t] = owner[t]
    BY <1>0, <1>2, <1>3, <2>2
  <2>6. /\ send' \in [Sockets -> Seq(Responses \cup {Disconnect})]
        /\ send'[s] = <<>> /\ \A t \in Sockets : t # s => send'[t] = send[t]
    BY <1>0, <1>2, <2>1, <2>3
  <2>7. /\ recv' \in [Sockets -> Seq(Pieces \cup {Empty})]
        /\ recv'[s] = <<>> /\ \A t \in Sockets : t # s => recv'[t] = recv[t]
    BY <1>0, <1>2, <2>1, <2>4
  <2> QED BY <2>5, <2>6, <2>7
<1>9. TypeOK'
  <2>1. receive' \in 0 .. Len(connections')
    BY <1>2, <1>5, <1>6
  <2> QED BY <1>1, <1>2, <1>4, <1>6, <1>7, <1>8, <2>1 DEF TypeOK, ProtocolTypeOK
<1>10. ListIsOpen'
  <2>1. \A t \in Sockets : IsListed(t) <=> owner[t] # Nobody
    BY <1>1, <1>2 DEF ListIsOpen, IsListed
  <2>2. \A i \in 1 .. n : connections[i] # s
    BY <1>0, <1>2, <1>5, <2>1 DEF IsListed
  <2>3. ASSUME NEW i \in DOMAIN connections', NEW j \in DOMAIN connections',
               connections'[i] = connections'[j]
        PROVE  i = j
    <3>1. i \in 1 .. n \/ i = n + 1
      BY <1>5, <1>6
    <3>2. j \in 1 .. n \/ j = n + 1
      BY <1>5, <1>6
    <3>3. \A a, b \in 1 .. n : connections[a] = connections[b] => a = b
      BY <1>1, <1>5 DEF ListIsOpen
    <3> QED BY <1>6, <2>2, <2>3, <3>1, <3>2, <3>3
  <2>4. ASSUME NEW t \in Sockets
        PROVE  (\E i \in DOMAIN connections' : connections'[i] = t)
               <=> owner'[t] # Nobody
    <3>1. CASE t = s
      <4>1. n + 1 \in DOMAIN connections'
        BY <1>5, <1>6
      <4> QED BY <1>3, <1>6, <1>8, <3>1, <4>1
    <3>2. CASE t # s
      <4>1. \A i \in DOMAIN connections' : i \in 1 .. n \/ i = n + 1
        BY <1>5, <1>6
      <4>2. \A i \in 1 .. n : i \in DOMAIN connections'
        BY <1>5, <1>6
      <4>3. (\E i \in DOMAIN connections' : connections'[i] = t) <=> IsListed(t)
        BY <1>5, <1>6, <3>2, <4>1, <4>2 DEF IsListed
      <4> QED BY <1>8, <2>1, <3>2, <4>3
    <3> QED BY <3>1, <3>2
  <2> QED BY <1>7, <2>3, <2>4 DEF ListIsOpen
<1>11. OwnersAreApart'
  <2>1. /\ \A i, j \in DOMAIN backlog : backlog[i] = backlog[j] => i = j
        /\ \A i \in DOMAIN backlog :
             /\ state[backlog[i]] \in {"open", "closed", "reset"}
             /\ \A t \in Sockets : owner[t] # backlog[i]
             /\ answers[backlog[i]] = <<>>
        /\ \A l \in Clients : state[l] = "out" => answers[l] = <<>>
        /\ \A t \in Sockets : owner[t] # Nobody =>
             state[owner[t]] \in {"open", "closed", "reset"}
        /\ \A t, u \in Sockets : owner[t] = owner[u] /\ owner[t] # Nobody => t = u
    BY <1>1 DEF OwnersAreApart
  <2>2. \A i, j \in DOMAIN Tail(backlog) :
          Tail(backlog)[i] = Tail(backlog)[j] => i = j
    BY <1>3, <1>4, <2>1
  <2>3. /\ \A t \in Sockets : owner[t] # k
        /\ state[k] \in {"open", "closed", "reset"}
    BY <1>3, <2>1
  <2>4. ASSUME NEW t \in Sockets, NEW u \in Sockets,
               owner'[t] = owner'[u], owner'[t] # Nobody
        PROVE  t = u
    <3>1. CASE t = s
      BY <1>8, <2>3, <2>4, <3>1
    <3>2. CASE u = s
      BY <1>8, <2>3, <2>4, <3>2
    <3>3. CASE t # s /\ u # s
      BY <1>8, <2>1, <2>4, <3>3
    <3> QED BY <3>1, <3>2, <3>3
  <2>5. \A t \in Sockets : owner'[t] # Nobody =>
          state[owner'[t]] \in {"open", "closed", "reset"}
    BY <1>8, <2>1, <2>3
  <2>6. ASSUME NEW i \in DOMAIN Tail(backlog)
        PROVE  /\ state[Tail(backlog)[i]] \in {"open", "closed", "reset"}
               /\ \A t \in Sockets : owner'[t] # Tail(backlog)[i]
               /\ answers[Tail(backlog)[i]] = <<>>
    <3>1. /\ i + 1 \in DOMAIN backlog /\ i + 1 # 1
          /\ Tail(backlog)[i] = backlog[i + 1]
      BY <1>3, <1>4
    <3>2. backlog[i + 1] # k
      BY <1>3, <2>1, <3>1
    <3>3. /\ state[backlog[i + 1]] \in {"open", "closed", "reset"}
          /\ \A t \in Sockets : owner[t] # backlog[i + 1]
          /\ answers[backlog[i + 1]] = <<>>
      BY <2>1, <3>1
    <3>4. \A t \in Sockets : owner'[t] # backlog[i + 1]
      BY <1>8, <3>2, <3>3
    <3> QED BY <3>1, <3>3, <3>4
  <2> QED BY <1>2, <2>1, <2>2, <2>4, <2>5, <2>6 DEF OwnersAreApart
<1>12. KeptAliveIsTimed'
  <2> SUFFICES ASSUME NEW t \in Sockets, owner'[t] # Nobody, ~IsEnding(t)',
                      send'[t] # <<>> \/ answers[owner'[t]] # <<>>
               PROVE  m_webConnections[t] # "none"
    BY <1>2 DEF KeptAliveIsTimed
  <2>1. answers[k] = <<>>
    BY <1>1, <1>3 DEF OwnersAreApart
  <2>2. t # s
    BY <1>8, <2>1
  <2>3. ~IsEnding(t)
    BY <1>8, <2>2 DEF IsEnding
  <2> QED BY <1>1, <1>8, <2>2, <2>3 DEF KeptAliveIsTimed
<1>13. AnswersAscend' /\ RepliesAscend' /\ PiecesAscend'
  <2>1. \A t \in Sockets :
          \/ /\ owner'[t] = owner[t]
             /\ send'[t] = send[t] /\ recv'[t] = recv[t]
          \/ send'[t] = <<>> /\ recv'[t] = <<>>
    BY <1>8
  <2>2. UNCHANGED <<answers, taken>>
        /\ \A l \in Clients : \A m \in 1 .. taken[l] : sent'[l][m] = sent[l][m]
    BY <1>2
  <2> QED BY <1>1, <2>1, <2>2, AnswersStay
<1> QED BY <1>7, <1>9, <1>10, <1>11, <1>12, <1>13 DEF HTTPInv

-----------------------------------------------------------------------------
(* The steps of the receive thread and of the clients. *)

(* The update thread is where it is, and its socket has the messages it had *)
(* or is not processed.                                                     *)
LEMMA UpdateStays ==
  ASSUME UpdateIsPlaced, UNCHANGED <<connections, owner, update>>,
         backlog' = <<>> => backlog = <<>>,
         ~At("process") \/ recv' = recv
  PROVE  UpdateIsPlaced'
BY DEF UpdateIsPlaced, InPass, At, Current

(* A walk along the list begins.                                            *)
LEMMA WalkBegins ==
  ASSUME HTTPInv, StartReceive, UNCHANGED http
  PROVE  HTTPInv'
<1>1. /\ TypeOK /\ ListIsOpen /\ OwnersAreApart /\ UpdateIsPlaced
      /\ KeptAliveIsTimed /\ AnswersAscend /\ RepliesAscend /\ PiecesAscend
  BY DEF HTTPInv
<1>2. /\ receive' = 1 /\ connections # <<>>
      /\ UNCHANGED <<connections, send, recv, update, owner, backlog, state,
                     sent, taken, answers, m_webConnections, m_acceptType,
                     m_acceptSubType>>
  BY DEF StartReceive, queues, network, http
<1>3. TypeOK'
  <2>1. Len(connections) \in Nat /\ Len(connections) # 0
    BY <1>1, <1>2, HTTPTypes, EmptySeq
  <2>2. receive' \in 0 .. Len(connections)
    BY <1>2, <2>1
  <2> QED BY <1>1, <1>2, <2>2 DEF TypeOK, ProtocolTypeOK
<1>4. ListIsOpen' /\ OwnersAreApart' /\ UpdateIsPlaced'
  BY <1>1, <1>2, OwnersStay, UpdateStays DEF ListIsOpen, At
<1>5. KeptAliveIsTimed'
  BY <1>1, <1>2 DEF KeptAliveIsTimed, IsEnding
<1>6. AnswersAscend' /\ RepliesAscend' /\ PiecesAscend'
  BY <1>1, <1>2, AnswersStay
<1> QED BY <1>3, <1>4, <1>5, <1>6 DEF HTTPInv

(* The walk comes to a socket: what its client has written since becomes a  *)
(* message, named by the first new piece.                                   *)
LEMMA SocketIsRead ==
  ASSUME HTTPInv, ReceiveNextMessage, UNCHANGED http
  PROVE  HTTPInv'
<1> DEFINE s == connections[receive]
           k == owner[s]
<1>1. /\ TypeOK /\ ListIsOpen /\ OwnersAreApart /\ UpdateIsPlaced
      /\ KeptAliveIsTimed /\ AnswersAscend /\ RepliesAscend /\ PiecesAscend
  BY DEF HTTPInv
<1>2. /\ receive # 0 /\ ~At("process") /\ receive' = NextPlace
      /\ \/ /\ Readable(s)
            /\ recv' = [recv EXCEPT ![s] = @ \o Message(k)]
            /\ taken' = [taken EXCEPT ![k] = Len(sent[k])]
         \/ recv' = recv /\ taken' = taken
      /\ UNCHANGED <<connections, send, update, owner, backlog, state, sent,
                     answers, m_webConnections, m_acceptType, m_acceptSubType>>
  BY DEF ReceiveNextMessage, ProtocolIsLocked, At, http
<1>3. s \in Sockets
  BY <1>1, <1>2, HTTPTypes
<1>4. receive' \in 0 .. Len(connections)
  <2>1. receive \in Nat /\ Len(connections) \in Nat
    BY <1>1, HTTPTypes
  <2> QED BY <1>2, <2>1 DEF NextPlace
<1>5. ListIsOpen' /\ OwnersAreApart' /\ UpdateIsPlaced'
  BY <1>1, <1>2, OwnersStay, UpdateStays DEF ListIsOpen, At
<1>6. KeptAliveIsTimed'
  BY <1>1, <1>2 DEF KeptAliveIsTimed, IsEnding
<1> HIDE DEF s, k
<1>7. CASE recv' = recv /\ taken' = taken
  <2>1. TypeOK'
    BY <1>1, <1>2, <1>4, <1>7 DEF TypeOK, ProtocolTypeOK
  <2>2. AnswersAscend' /\ RepliesAscend' /\ PiecesAscend'
    BY <1>1, <1>2, <1>7, AnswersStay
  <2> QED BY <1>5, <1>6, <2>1, <2>2 DEF HTTPInv
<1>8. CASE /\ Readable(s)
           /\ recv' = [recv EXCEPT ![s] = @ \o Message(k)]
           /\ taken' = [taken EXCEPT ![k] = Len(sent[k])]
  <2> DEFINE e == IF Len(sent[k]) > taken[k] THEN <<k, taken[k] + 1>> ELSE Empty
             n == Len(recv[s])
  <2>1. k \in Clients /\ k # Nobody /\ \A t \in Sockets : owner[t] = k => t = s
    BY <1>1, <1>3, <1>8, HTTPTypes DEF OwnersAreApart, Readable, k
  <2>2. /\ taken \in [Clients -> Nat] /\ taken[k] \in Nat /\ Len(sent[k]) \in Nat
        /\ taken[k] <= Len(sent[k]) /\ Len(sent[k]) <= MaxPieces[k]
        /\ MaxPieces[k] \in Nat /\ n \in Nat /\ DOMAIN recv[s] = 1 .. n
        /\ recv \in [Sockets -> Seq(Pieces \cup {Empty})]
        /\ recv[s] \in Seq(Pieces \cup {Empty})
    BY <1>1, <1>3, <2>1, HTTPTypes
  <2>3. e \in Pieces \cup {Empty} /\ Message(k) = <<e>>
    <3>1. CASE Len(sent[k]) > taken[k]
      <4>1. taken[k] + 1 \in 1 .. MaxPieces[k]
        BY <2>2, <3>1
      <4> QED BY <2>1, <3>1, <4>1 DEF Pieces, Message
    <3>2. CASE ~(Len(sent[k]) > taken[k])
      BY <3>2 DEF Message
    <3> QED BY <3>1, <3>2
  <2>4. e # Empty => e[1] = k /\ e[2] = taken[k] + 1 /\ e[2] \in 1 .. Len(sent[k])
    BY <2>2
  <2> HIDE DEF e
  <2>5. /\ recv[s] \o <<e>> = Append(recv[s], e)
        /\ Append(recv[s], e) \in Seq(Pieces \cup {Empty})
        /\ DOMAIN Append(recv[s], e) = 1 .. n + 1
        /\ \A i \in 1 .. n : Append(recv[s], e)[i] = recv[s][i]
        /\ Append(recv[s], e)[n + 1] = e
    BY <2>2, <2>3, AppendIsConcat, AppendProperties
  <2>6. /\ recv' \in [Sockets -> Seq(Pieces \cup {Empty})]
        /\ recv'[s] = Append(recv[s], e)
        /\ \A t \in Sockets : t # s => recv'[t] = recv[t]
    BY <1>3, <1>8, <2>2, <2>3, <2>5
  <2>7. /\ taken' \in [Clients -> Nat] /\ taken'[k] = Len(sent[k])
        /\ \A l \in Clients : l # k => taken'[l] = taken[l]
    BY <1>8, <2>1, <2>2
  <2> HIDE DEF n
  <2>8. \A l \in Clients : /\ taken'[l] <= Len(sent[l])
                           /\ \A m \in 1 .. taken[l] : m \in 1 .. taken'[l]
    <3> SUFFICES ASSUME NEW l \in Clients
                 PROVE  /\ taken'[l] <= Len(sent[l])
                        /\ \A m \in 1 .. taken[l] : m \in 1 .. taken'[l]
      OBVIOUS
    <3>1. /\ taken[l] \in Nat /\ Len(sent[l]) \in Nat /\ taken[l] <= Len(sent[l])
          /\ taken'[l] = taken[l] \/ taken'[l] = Len(sent[l])
      BY <1>1, <2>7, HTTPTypes
    <3> QED BY <3>1
  <2>9. TypeOK'
    <3>1. \A l \in Clients : taken'[l] <= Len(sent'[l]) /\ Len(sent'[l]) <= MaxPieces[l]
      BY <1>1, <1>2, <2>8, HTTPTypes
    <3> QED BY <1>1, <1>2, <1>4, <2>6, <2>7, <3>1 DEF TypeOK, ProtocolTypeOK
  <2>10. AnswersAscend'
    BY <1>1, <1>2, <2>8 DEF AnswersAscend, Answers
  <2>11. RepliesAscend'
    <3> SUFFICES ASSUME NEW t \in Sockets, owner[t] # Nobody,
                        NEW i \in DOMAIN send[t], IsReply(t, i)
                 PROVE  Answers(owner[t], send[t][i])'
      BY <1>1, <1>2 DEF RepliesAscend, IsReply
    <3>1. Answers(owner[t], send[t][i]) /\ owner[t] \in Clients
      BY <1>1, HTTPTypes DEF RepliesAscend
    <3>2. \A m \in 1 .. taken[owner[t]] : m \in 1 .. taken'[owner[t]]
      BY <2>8, <3>1
    <3> QED BY <1>2, <3>1, <3>2 DEF Answers
  <2>12. PiecesAscend'
    <3> SUFFICES ASSUME NEW t \in Sockets, owner[t] # Nobody
                 PROVE  /\ \A i \in DOMAIN recv'[t] : recv'[t][i] # Empty =>
                             recv'[t][i][1] = owner[t]
                             /\ recv'[t][i][2] \in 1 .. taken'[owner[t]]
                        /\ \A i, j \in DOMAIN recv'[t] :
                             i < j /\ recv'[t][i] # Empty /\ recv'[t][j] # Empty
                               => recv'[t][i][2] < recv'[t][j][2]
                        /\ \A i \in DOMAIN recv'[t], j \in DOMAIN send[t] :
                             recv'[t][i] # Empty /\ IsReply(t, j)
                               => send[t][j].to[2] < recv'[t][i][2]
                        /\ \A i \in DOMAIN recv'[t], j \in DOMAIN answers[owner[t]] :
                             recv'[t][i] # Empty
                               => answers[owner[t]][j].to[2] < recv'[t][i][2]
      BY <1>2 DEF PiecesAscend, IsPiece, IsReply
    <3>1. /\ \A i \in DOMAIN recv[t] : recv[t][i] # Empty =>
               recv[t][i][1] = owner[t] /\ recv[t][i][2] \in 1 .. taken[owner[t]]
          /\ \A i, j \in DOMAIN recv[t] :
               i < j /\ recv[t][i] # Empty /\ recv[t][j] # Empty
                 => recv[t][i][2] < recv[t][j][2]
          /\ \A i \in DOMAIN recv[t], j \in DOMAIN send[t] :
               recv[t][i] # Empty /\ IsReply(t, j) => send[t][j].to[2] < recv[t][i][2]
          /\ \A i \in DOMAIN recv[t], j \in DOMAIN answers[owner[t]] :
               recv[t][i] # Empty => answers[owner[t]][j].to[2] < recv[t][i][2]
      BY <1>1 DEF PiecesAscend, IsPiece
    <3>2. CASE t # s
      <4>1. recv'[t] = recv[t] /\ owner[t] # k /\ owner[t] \in Clients
        BY <1>1, <2>1, <2>6, <3>2, HTTPTypes
      <4>2. taken'[owner[t]] = taken[owner[t]]
        BY <2>7, <4>1
      <4> QED BY <3>1, <4>1, <4>2
    <3>3. CASE t = s
      <4>1. owner[t] = k /\ t \in Sockets
        BY <3>3 DEF k
      <4>2. \A i \in DOMAIN recv'[s] : i \in 1 .. n \/ i = n + 1
        BY <2>2, <2>5, <2>6 DEF n
      <4>3. \A j \in DOMAIN send[s] : IsReply(s, j) =>
              send[s][j].to[2] \in 1 .. taken[k]
        BY <1>1, <3>3, <4>1 DEF RepliesAscend, Answers
      <4>4. \A j \in DOMAIN answers[k] : answers[k][j].to[2] \in 1 .. taken[k]
        BY <1>1, <2>1 DEF AnswersAscend, Answers
      <4>5. n \in Nat /\ DOMAIN recv[s] = 1 .. n /\ taken[k] \in Nat
        BY <2>2 DEF n
      <4>6. \A i \in 1 .. n : recv'[s][i] = recv[s][i]
        BY <2>5, <2>6
      <4>7. recv'[s][n + 1] = e
        BY <2>5, <2>6
      <4>8. ASSUME NEW i \in DOMAIN recv'[s], recv'[s][i] # Empty
            PROVE  /\ recv'[s][i][1] = k /\ recv'[s][i][2] \in 1 .. taken'[k]
                   /\ \A j \in DOMAIN send[s] : IsReply(s, j) =>
                        send[s][j].to[2] < recv'[s][i][2]
                   /\ \A j \in DOMAIN answers[k] :
                        answers[k][j].to[2] < recv'[s][i][2]
        <5>1. CASE i \in 1 .. n
          <6>1. /\ recv'[s][i] = recv[s][i] /\ recv[s][i][1] = k
                /\ recv[s][i][2] \in 1 .. taken[k]
            BY <3>1, <3>3, <4>1, <4>5, <4>6, <4>8, <5>1
          <6>2. recv'[s][i][2] \in 1 .. taken'[k]
            BY <2>1, <2>8, <6>1
          <6> QED BY <3>1, <3>3, <4>1, <4>5, <4>6, <4>8, <5>1, <6>1, <6>2
        <5>2. CASE i = n + 1
          <6>1. recv'[s][i][1] = k /\ recv'[s][i][2] = taken[k] + 1
                /\ recv'[s][i][2] \in 1 .. taken'[k]
            BY <2>4, <2>7, <4>7, <4>8, <5>2
          <6>2. \A m \in 1 .. taken[k] : m < recv'[s][i][2]
            BY <4>5, <6>1
          <6> QED BY <4>3, <4>4, <6>1, <6>2
        <5> QED BY <4>2, <5>1, <5>2
      <4>9. ASSUME NEW i \in DOMAIN recv'[s], NEW j \in DOMAIN recv'[s], i < j,
                   recv'[s][i] # Empty, recv'[s][j] # Empty
            PROVE  recv'[s][i][2] < recv'[s][j][2]
        <5>1. i \in 1 .. n
          BY <4>2, <4>5, <4>9
        <5>2. CASE j \in 1 .. n
          BY <3>1, <3>3, <4>5, <4>6, <4>9, <5>1, <5>2
        <5>3. CASE j = n + 1
          <6>1. recv[s][i][2] \in 1 .. taken[k]
            BY <3>1, <3>3, <4>1, <4>5, <4>6, <4>9, <5>1
          <6>2. recv'[s][j][2] = taken[k] + 1
            BY <2>4, <4>7, <4>9, <5>3
          <6> QED BY <4>5, <4>6, <5>1, <6>1, <6>2
        <5> QED BY <4>2, <5>2, <5>3
      <4> QED BY <3>3, <4>1, <4>8, <4>9
    <3> QED BY <3>2, <3>3
  <2> QED BY <1>5, <1>6, <2>9, <2>10, <2>11, <2>12 DEF HTTPInv
<1> QED BY <1>2, <1>7, <1>8

(* A client calls: it waits behind those that do.                           *)
LEMMA ClientCalls ==
  ASSUME HTTPInv, NEW k \in Clients, Open(k), UNCHANGED http
  PROVE  HTTPInv'
<1> DEFINE n == Len(backlog)
<1>1. /\ TypeOK /\ ListIsOpen /\ OwnersAreApart /\ UpdateIsPlaced
      /\ KeptAliveIsTimed /\ AnswersAscend /\ RepliesAscend /\ PiecesAscend
  BY DEF HTTPInv
<1>2. /\ state[k] = "out"
      /\ state' = [state EXCEPT ![k] = "open"] /\ backlog' = Append(backlog, k)
      /\ UNCHANGED <<connections, send, recv, update, receive, owner, sent,
                     taken, answers, m_webConnections, m_acceptType,
                     m_acceptSubType>>
  BY DEF Open, queues, http
<1>3. /\ backlog \in Seq(Clients) /\ n \in Nat /\ DOMAIN backlog = 1 .. n
  BY <1>1, HTTPTypes
<1>4. /\ backlog' \in Seq(Clients) /\ DOMAIN backlog' = 1 .. n + 1
      /\ \A i \in 1 .. n : backlog'[i] = backlog[i]
      /\ backlog'[n + 1] = k
  BY <1>2, <1>3, AppendProperties
<1> HIDE DEF n
<1>5. /\ state' \in [Clients -> {"out", "open", "closed", "reset", "dropped"}]
      /\ state'[k] = "open" /\ \A l \in Clients : l # k => state'[l] = state[l]
  BY <1>1, <1>2 DEF TypeOK, ProtocolTypeOK
<1>6. TypeOK'
  BY <1>1, <1>2, <1>4, <1>5 DEF TypeOK, ProtocolTypeOK
<1>7. ListIsOpen' /\ UpdateIsPlaced'
  BY <1>1, <1>2, UpdateStays DEF ListIsOpen, At
<1>8. OwnersAreApart'
  <2>1. /\ \A i, j \in DOMAIN backlog : backlog[i] = backlog[j] => i = j
        /\ \A i \in DOMAIN backlog :
             /\ state[backlog[i]] \in {"open", "closed", "reset"}
             /\ \A s \in Sockets : owner[s] # backlog[i]
             /\ answers[backlog[i]] = <<>>
        /\ \A l \in Clients : state[l] = "out" => answers[l] = <<>>
        /\ \A s \in Sockets : owner[s] # Nobody =>
             state[owner[s]] \in {"open", "closed", "reset"} /\ owner[s] \in Clients
        /\ \A s, t \in Sockets : owner[s] = owner[t] /\ owner[s] # Nobody => s = t
    BY <1>1, HTTPTypes DEF OwnersAreApart
  <2>2. /\ \A s \in Sockets : owner[s] # k
        /\ \A i \in 1 .. n : backlog[i] # k /\ backlog[i] \in Clients
        /\ answers[k] = <<>>
    BY <1>1, <1>2, <1>3, <2>1, HTTPTypes
  <2>3. \A i \in DOMAIN backlog' : i \in 1 .. n \/ i = n + 1
    BY <1>3, <1>4
  <2>4. \A i, j \in DOMAIN backlog' : backlog'[i] = backlog'[j] => i = j
    BY <1>3, <1>4, <2>1, <2>2, <2>3
  <2>5. ASSUME NEW i \in DOMAIN backlog'
        PROVE  /\ state'[backlog'[i]] \in {"open", "closed", "reset"}
               /\ \A s \in Sockets : owner[s] # backlog'[i]
               /\ answers[backlog'[i]] = <<>>
    <3>1. CASE i \in 1 .. n
      BY <1>3, <1>4, <1>5, <2>1, <2>2, <3>1
    <3>2. CASE i = n + 1
      BY <1>4, <1>5, <2>2, <3>2
    <3> QED BY <2>3, <3>1, <3>2
  <2>6. \A s \in Sockets : owner[s] # Nobody =>
          state'[owner[s]] \in {"open", "closed", "reset"}
    BY <1>5, <2>1, <2>2
  <2>7. \A l \in Clients : state'[l] = "out" => answers[l] = <<>>
    BY <1>5, <2>1
  <2> QED BY <1>2, <2>1, <2>4, <2>5, <2>6, <2>7 DEF OwnersAreApart
<1>9. KeptAliveIsTimed'
  BY <1>1, <1>2 DEF KeptAliveIsTimed, IsEnding
<1>10. AnswersAscend' /\ RepliesAscend' /\ PiecesAscend'
  BY <1>1, <1>2, AnswersStay
<1> QED BY <1>6, <1>7, <1>8, <1>9, <1>10 DEF HTTPInv

(* A client writes: what it wrote before stays what it was.                 *)
LEMMA ClientWrites ==
  ASSUME HTTPInv, NEW k \in Clients, NEW request \in Requests,
         Write(k, request), UNCHANGED http
  PROVE  HTTPInv'
<1> DEFINE n == Len(sent[k])
<1>1. /\ TypeOK /\ ListIsOpen /\ OwnersAreApart /\ UpdateIsPlaced
      /\ KeptAliveIsTimed /\ AnswersAscend /\ RepliesAscend /\ PiecesAscend
  BY DEF HTTPInv
<1>2. /\ n < MaxPieces[k] /\ sent' = [sent EXCEPT ![k] = Append(@, request)]
      /\ UNCHANGED <<connections, send, recv, update, receive, owner, backlog,
                     state, taken, answers, m_webConnections, m_acceptType,
                     m_acceptSubType>>
  BY DEF Write, queues, http
<1>3. /\ sent \in [Clients -> Seq(Requests)] /\ n \in Nat
      /\ sent[k] \in Seq(Requests) /\ DOMAIN sent[k] = 1 .. n
      /\ \A l \in Clients : /\ taken[l] \in Nat /\ taken[l] <= Len(sent[l])
                            /\ Len(sent[l]) <= MaxPieces[l]
                            /\ Len(sent[l]) \in Nat /\ MaxPieces[l] \in Nat
  BY <1>1, HTTPTypes
<1>4. /\ Append(sent[k], request) \in Seq(Requests)
      /\ Len(Append(sent[k], request)) = n + 1
      /\ \A i \in 1 .. n : Append(sent[k], request)[i] = sent[k][i]
  BY <1>3, AppendProperties
<1>5. /\ sent' \in [Clients -> Seq(Requests)]
      /\ sent'[k] = Append(sent[k], request)
      /\ \A l \in Clients : l # k => sent'[l] = sent[l]
  BY <1>2, <1>3, <1>4
<1>6. \A l \in Clients : taken[l] <= Len(sent'[l]) /\ Len(sent'[l]) <= MaxPieces[l]
  <2>1. taken[k] <= n + 1 /\ n + 1 <= MaxPieces[k]
    BY <1>2, <1>3
  <2> HIDE DEF n
  <2> QED BY <1>3, <1>4, <1>5, <2>1
<1>7. \A l \in Clients : \A m \in 1 .. taken[l] : sent'[l][m] = sent[l][m]
  <2>1. \A m \in 1 .. taken[k] : m \in 1 .. n
    BY <1>3
  <2> QED BY <1>4, <1>5, <2>1
<1>8. TypeOK'
  BY <1>1, <1>2, <1>5, <1>6 DEF TypeOK, ProtocolTypeOK
<1>9. ListIsOpen' /\ UpdateIsPlaced' /\ OwnersAreApart'
  BY <1>1, <1>2, UpdateStays, OwnersStay DEF ListIsOpen, At
<1>10. KeptAliveIsTimed'
  BY <1>1, <1>2 DEF KeptAliveIsTimed, IsEnding
<1>11. AnswersAscend' /\ RepliesAscend' /\ PiecesAscend'
  BY <1>1, <1>2, <1>7, AnswersStay
<1> QED BY <1>8, <1>9, <1>10, <1>11 DEF HTTPInv

(* A client closes or resets its connection.                                *)
LEMMA ClientLeaves ==
  ASSUME HTTPInv, NEW k \in Clients, NEW how \in {"closed", "reset"},
         Leave(k, how), UNCHANGED http
  PROVE  HTTPInv'
<1>1. /\ TypeOK /\ ListIsOpen /\ OwnersAreApart /\ UpdateIsPlaced
      /\ KeptAliveIsTimed /\ AnswersAscend /\ RepliesAscend /\ PiecesAscend
  BY DEF HTTPInv
<1>2. /\ state[k] = "open" /\ state' = [state EXCEPT ![k] = how]
      /\ UNCHANGED <<connections, send, recv, update, receive, owner, backlog,
                     sent, taken, answers, m_webConnections, m_acceptType,
                     m_acceptSubType>>
  BY DEF Leave, queues, http
<1>3. /\ state' \in [Clients -> {"out", "open", "closed", "reset", "dropped"}]
      /\ state'[k] = how /\ \A l \in Clients : l # k => state'[l] = state[l]
  BY <1>1, <1>2 DEF TypeOK, ProtocolTypeOK
<1>4. TypeOK'
  BY <1>1, <1>2, <1>3 DEF TypeOK, ProtocolTypeOK
<1>5. ListIsOpen' /\ UpdateIsPlaced'
  BY <1>1, <1>2, UpdateStays DEF ListIsOpen, At
<1>6. OwnersAreApart'
  <2>1. /\ \A i \in DOMAIN backlog : backlog[i] \in Clients
        /\ \A s \in Sockets : owner[s] # Nobody => owner[s] \in Clients
    BY <1>1, HTTPTypes
  <2>2. \A l \in Clients :
          /\ state[l] \in {"open", "closed", "reset"}
               => state'[l] \in {"open", "closed", "reset"}
          /\ state'[l] = "out" => state[l] = "out"
    BY <1>3
  <2> QED BY <1>1, <1>2, <2>1, <2>2 DEF OwnersAreApart
<1>7. KeptAliveIsTimed'
  BY <1>1, <1>2 DEF KeptAliveIsTimed, IsEnding
<1>8. AnswersAscend' /\ RepliesAscend' /\ PiecesAscend'
  BY <1>1, <1>2, AnswersStay
<1> QED BY <1>4, <1>5, <1>6, <1>7, <1>8 DEF HTTPInv

(* The keep-alive time of a socket passes: its entry stays.                 *)
LEMMA EntryAges ==
  ASSUME HTTPInv, NEW s \in Sockets, Age(s)
  PROVE  HTTPInv'
<1>1. /\ TypeOK /\ ListIsOpen /\ OwnersAreApart /\ UpdateIsPlaced
      /\ KeptAliveIsTimed /\ AnswersAscend /\ RepliesAscend /\ PiecesAscend
  BY DEF HTTPInv
<1>2. /\ m_webConnections' = [m_webConnections EXCEPT ![s] = "old"]
      /\ UNCHANGED <<connections, send, recv, update, receive, owner, backlog,
                     state, sent, taken, answers, m_acceptType, m_acceptSubType>>
  BY DEF Age, SetEntry, protocolVars, queues, network
<1>3. /\ m_webConnections' \in [Sockets -> {"none", "fresh", "old"}]
      /\ \A t \in Sockets :
           m_webConnections'[t] = m_webConnections[t] \/ m_webConnections'[t] = "old"
  BY <1>1, <1>2 DEF TypeOK
<1>4. TypeOK'
  BY <1>1, <1>2, <1>3 DEF TypeOK, ProtocolTypeOK
<1>5. ListIsOpen' /\ UpdateIsPlaced' /\ OwnersAreApart'
  BY <1>1, <1>2, UpdateStays, OwnersStay DEF ListIsOpen, At
<1>6. KeptAliveIsTimed'
  BY <1>1, <1>2, <1>3 DEF KeptAliveIsTimed, IsEnding
<1>7. AnswersAscend' /\ RepliesAscend' /\ PiecesAscend'
  BY <1>1, <1>2, AnswersStay
<1> QED BY <1>4, <1>5, <1>6, <1>7 DEF HTTPInv

-----------------------------------------------------------------------------
(* The messages of a socket are processed. *)

(* The disconnect messages and the reply Process puts on a queue: at most   *)
(* the last of them answers, and it answers the piece at the head. Or the   *)
(* socket has an entry or one of them is a disconnect message.              *)
LEMMA MessageIsProcessed ==
  ASSUME HTTPInv, At("process"),
         NEW replies \in Seq(Responses \cup {Disconnect}), PopProcessed(replies, NoError),
         \A i \in DOMAIN replies : replies[i] # Disconnect =>
           /\ i = Len(replies) /\ Head(recv[Current]) # Empty
           /\ replies[i].to = Head(recv[Current])
           /\ LET piece == Head(recv[Current])
              IN replies[i].status = StatusOf(sent[piece[1]][piece[2]]),
         NEW entry \in {"none", "fresh", "old"},
         m_webConnections' = [m_webConnections EXCEPT ![Current] = entry],
         entry # "none" \/ \E i \in DOMAIN replies : replies[i] = Disconnect,
         m_acceptType' \in Accepted, m_acceptSubType' \in Accepted
  PROVE  HTTPInv'
<1> DEFINE c == Current
           k == owner[c]
           p == recv[c][1]
           n == Len(send[c])
           m == Len(replies)
           q == Len(recv[c])
<1>1. /\ TypeOK /\ ListIsOpen /\ OwnersAreApart /\ UpdateIsPlaced
      /\ KeptAliveIsTimed /\ AnswersAscend /\ RepliesAscend /\ PiecesAscend
  BY DEF HTTPInv
<1>2. /\ recv' = [recv EXCEPT ![c] = Tail(@)]
      /\ send' = [send EXCEPT ![c] = @ \o replies]
      /\ IF q = 1 THEN update' = [update EXCEPT !.at = "send"] ELSE update' = update
      /\ UNCHANGED <<connections, receive, owner, backlog, state, sent, taken,
                     answers>>
  BY DEF PopProcessed, NoError, Goto, network
<1>3. /\ c \in Sockets /\ k \in Clients /\ k # Nobody /\ recv[c] # <<>> /\ InPass
      /\ \A s \in Sockets : owner[s] = k => s = c
  <2>1. InPass
    BY DEF InPass, At
  <2> QED BY <1>1, <2>1, CurrentIsOwned DEF OwnersAreApart, UpdateIsPlaced
<1>4. /\ send \in [Sockets -> Seq(Responses \cup {Disconnect})]
      /\ recv \in [Sockets -> Seq(Pieces \cup {Empty})]
      /\ send[c] \in Seq(Responses \cup {Disconnect}) /\ n \in Nat
      /\ DOMAIN send[c] = 1 .. n
      /\ recv[c] \in Seq(Pieces \cup {Empty}) /\ q \in Nat \ {0}
      /\ DOMAIN recv[c] = 1 .. q /\ 1 \in DOMAIN recv[c]
      /\ m \in Nat /\ DOMAIN replies = 1 .. m
      /\ taken[k] \in Nat
  <2>1. /\ send \in [Sockets -> Seq(Responses \cup {Disconnect})]
        /\ recv \in [Sockets -> Seq(Pieces \cup {Empty})]
        /\ send[c] \in Seq(Responses \cup {Disconnect}) /\ n \in Nat
        /\ DOMAIN send[c] = 1 .. n
        /\ recv[c] \in Seq(Pieces \cup {Empty}) /\ q \in Nat
        /\ DOMAIN recv[c] = 1 .. q /\ taken[k] \in Nat
    BY <1>1, <1>3, HTTPTypes
  <2>2. q # 0
    BY <1>3, <2>1, EmptySeq
  <2>3. m \in Nat /\ DOMAIN replies = 1 .. m
    BY LenProperties
  <2> QED BY <2>1, <2>2, <2>3
<1>5. /\ Head(recv[c]) = p /\ Tail(recv[c]) \in Seq(Pieces \cup {Empty})
      /\ DOMAIN Tail(recv[c]) = 1 .. q - 1
      /\ \A i \in 1 .. q - 1 :
           /\ Tail(recv[c])[i] = recv[c][i + 1]
           /\ i + 1 \in DOMAIN recv[c] /\ 1 < i + 1
      /\ q # 1 => Tail(recv[c]) # <<>>
  <2>1. /\ Head(recv[c]) = p /\ Tail(recv[c]) \in Seq(Pieces \cup {Empty})
        /\ Len(Tail(recv[c])) = q - 1
        /\ \A i \in 1 .. Len(Tail(recv[c])) : Tail(recv[c])[i] = recv[c][i + 1]
    BY <1>3, <1>4, HeadTailProperties
  <2>2. DOMAIN Tail(recv[c]) = 1 .. Len(Tail(recv[c]))
    BY <2>1, LenProperties
  <2>3. q # 1 => Tail(recv[c]) # <<>>
    <3>1. Tail(recv[c]) = <<>> <=> Len(Tail(recv[c])) = 0
      BY <2>1, EmptySeq
    <3> QED BY <1>4, <2>1, <3>1
  <2>4. \A i \in 1 .. q - 1 : i + 1 \in 1 .. q /\ 1 < i + 1
    BY <1>4
  <2> QED BY <1>4, <2>1, <2>2, <2>3, <2>4
<1>6. /\ send[c] \o replies \in Seq(Responses \cup {Disconnect})
      /\ DOMAIN (send[c] \o replies) = 1 .. n + m
      /\ \A i \in 1 .. n : (send[c] \o replies)[i] = send[c][i]
      /\ \A i \in n + 1 .. n + m :
           /\ (send[c] \o replies)[i] = replies[i - n]
           /\ i - n \in DOMAIN replies
  <2>1. /\ send[c] \o replies \in Seq(Responses \cup {Disconnect})
        /\ Len(send[c] \o replies) = n + m
        /\ \A i \in 1 .. n + m :
             (send[c] \o replies)[i] = IF i <= n THEN send[c][i] ELSE replies[i - n]
    BY <1>4, ConcatProperties
  <2>2. DOMAIN (send[c] \o replies) = 1 .. Len(send[c] \o replies)
    BY <2>1, LenProperties
  <2>3. /\ \A i \in 1 .. n : i \in 1 .. n + m /\ i <= n
        /\ \A i \in n + 1 .. n + m : i \in 1 .. n + m /\ ~(i <= n) /\ i - n \in 1 .. m
    BY <1>4
  <2> QED BY <1>4, <2>1, <2>2, <2>3
<1>7. \A i \in DOMAIN replies : replies[i] # Disconnect =>
        /\ i = m /\ p # Empty /\ replies[i].to = p
        /\ replies[i].status = StatusOf(sent[p[1]][p[2]])
  BY <1>5
<1> HIDE DEF c, k, p, n, m, q
<1>8. /\ recv' \in [Sockets -> Seq(Pieces \cup {Empty})]
      /\ recv'[c] = Tail(recv[c]) /\ \A s \in Sockets : s # c => recv'[s] = recv[s]
  BY <1>2, <1>3, <1>4, <1>5
<1>9. /\ send' \in [Sockets -> Seq(Responses \cup {Disconnect})]
      /\ send'[c] = send[c] \o replies
      /\ \A s \in Sockets : s # c => send'[s] = send[s]
  BY <1>2, <1>3, <1>4, <1>6
<1>10. /\ m_webConnections' \in [Sockets -> {"none", "fresh", "old"}]
       /\ m_webConnections'[c] = entry
       /\ \A s \in Sockets : s # c => m_webConnections'[s] = m_webConnections[s]
  BY <1>1, <1>3 DEF TypeOK, c
<1>11. /\ update' \in [at : {"process", "send", "remove", "erase", "accept",
                             "push"},
                       i : Nat \ {0}, toDelete : Seq(Sockets),
                       newcon : Sockets \cup {Nobody}]
       /\ update'.i = update.i /\ update'.toDelete = update.toDelete
       /\ update'.at = IF q = 1 THEN "send" ELSE "process"
  <2>1. update \in [at : {"process", "send", "remove", "erase", "accept", "push"},
                    i : Nat \ {0}, toDelete : Seq(Sockets),
                    newcon : Sockets \cup {Nobody}]
    BY <1>1 DEF TypeOK, ProtocolTypeOK
  <2>2. CASE q = 1
    BY <1>2, <2>1, <2>2
  <2>3. CASE q # 1
    BY <1>2, <2>1, <2>3 DEF At
  <2> QED BY <2>2, <2>3
<1>12. TypeOK'
  BY <1>1, <1>2, <1>8, <1>9, <1>10, <1>11 DEF TypeOK, ProtocolTypeOK
<1>13. ~At("erase") /\ ~At("erase")' /\ InPass'
  BY <1>11 DEF At, InPass
<1>14. ListIsOpen' /\ OwnersAreApart'
  BY <1>1, <1>2, <1>13, ListStays, OwnersStay
<1>15. UpdateIsPlaced'
  <2>1. At("process")' => recv'[c] # <<>>
    BY <1>5, <1>8, <1>11 DEF At
  <2>2. /\ Current' = c
        /\ ~At("accept")' /\ ~At("push")' /\ ~At("remove")' /\ ~At("erase")'
    BY <1>2, <1>11, <1>13 DEF Current, c, At, InPass
  <2>3. /\ InPass' => update'.i \in DOMAIN connections'
        /\ \A i, j \in DOMAIN update'.toDelete :
             update'.toDelete[i] = update'.toDelete[j] => i = j
        /\ \A i \in DOMAIN update'.toDelete :
             \E o \in DOMAIN connections' :
               connections'[o] = update'.toDelete[i] /\ (InPass' => o < update'.i)
    BY <1>1, <1>2, <1>3, <1>11 DEF UpdateIsPlaced
  <2> QED BY <1>13, <2>1, <2>2, <2>3 DEF UpdateIsPlaced
<1>16. KeptAliveIsTimed'
  <2> SUFFICES ASSUME NEW s \in Sockets, owner[s] # Nobody, ~IsEnding(s)',
                      send'[s] # <<>> \/ answers[owner[s]] # <<>>
               PROVE  m_webConnections'[s] # "none"
    BY <1>2 DEF KeptAliveIsTimed
  <2>1. CASE s = c
    <3> SUFFICES ASSUME NEW i \in DOMAIN replies, replies[i] = Disconnect
                 PROVE  FALSE
      BY <1>10, <2>1
    <3>1. n + i \in n + 1 .. n + m /\ (n + i) - n = i /\ n + i \in 1 .. n + m
      BY <1>4 DEF n, m
    <3>2. n + i \in DOMAIN send'[c] /\ send'[c][n + i] = Disconnect
      BY <1>6, <1>9, <3>1
    <3> QED BY <2>1, <3>2 DEF IsEnding
  <2>2. CASE s # c
    <3>1. send'[s] = send[s] /\ m_webConnections'[s] = m_webConnections[s]
      BY <1>9, <1>10, <2>2
    <3>2. ~IsEnding(s)
      BY <3>1 DEF IsEnding
    <3> QED BY <1>1, <3>1, <3>2 DEF KeptAliveIsTimed
  <2> QED BY <2>1, <2>2
<1>17. AnswersAscend'
  BY <1>1, <1>2 DEF AnswersAscend, Answers
<1>18. \* the reply comes behind all that was answered
       /\ p # Empty =>
            /\ p[1] = k /\ p[2] \in 1 .. taken[k]
            /\ \A j \in DOMAIN send[c] : IsReply(c, j) => send[c][j].to[2] < p[2]
            /\ \A j \in DOMAIN answers[k] : answers[k][j].to[2] < p[2]
            /\ \A j \in DOMAIN recv[c] : 1 < j /\ IsPiece(c, j) => p[2] < recv[c][j][2]
       /\ \A i, j \in DOMAIN send[c] :
            i < j /\ IsReply(c, i) /\ IsReply(c, j) =>
              send[c][i].to[2] < send[c][j].to[2]
       /\ \A i \in DOMAIN send[c] : IsReply(c, i) => Answers(k, send[c][i])
       /\ \A i \in DOMAIN send[c], j \in DOMAIN answers[k] :
            IsReply(c, i) => answers[k][j].to[2] < send[c][i].to[2]
  BY <1>1, <1>3, <1>4 DEF PiecesAscend, RepliesAscend, IsPiece, p, k
<1>19. \* a reply in the new queue is an old one or answers the head
       /\ \A i \in DOMAIN send'[c] : send'[c][i] # Disconnect =>
            \/ i \in 1 .. n /\ i \in DOMAIN send[c] /\ send'[c][i] = send[c][i]
               /\ IsReply(c, i)
            \/ i = n + m /\ p # Empty /\ send'[c][i].to = p
               /\ send'[c][i].status = StatusOf(sent[p[1]][p[2]])
       /\ n \in Nat /\ m \in Nat /\ DOMAIN send'[c] = 1 .. n + m
  <2>1. n \in Nat /\ m \in Nat /\ DOMAIN send'[c] = 1 .. n + m
        /\ DOMAIN send[c] = 1 .. n
    BY <1>4, <1>6, <1>9 DEF n, m
  <2> SUFFICES ASSUME NEW i \in DOMAIN send'[c], send'[c][i] # Disconnect
               PROVE  \/ i \in 1 .. n /\ i \in DOMAIN send[c]
                         /\ send'[c][i] = send[c][i] /\ IsReply(c, i)
                      \/ i = n + m /\ p # Empty /\ send'[c][i].to = p
                         /\ send'[c][i].status = StatusOf(sent[p[1]][p[2]])
    BY <2>1
  <2>2. i \in 1 .. n \/ i \in n + 1 .. n + m
    BY <2>1
  <2>3. CASE i \in 1 .. n
    BY <1>6, <1>9, <2>1, <2>3 DEF IsReply
  <2>4. CASE i \in n + 1 .. n + m
    <3>1. send'[c][i] = replies[i - n] /\ i - n \in DOMAIN replies
      BY <1>6, <1>9, <2>4
    <3>2. i - n = m
      BY <1>7, <3>1
    <3>3. i = n + m
      BY <2>1, <2>4, <3>2
    <3> QED BY <1>7, <3>1, <3>3
  <2> QED BY <2>2, <2>3, <2>4
<1>20. RepliesAscend'
  <2> SUFFICES ASSUME NEW s \in Sockets, owner[s] # Nobody
               PROVE  /\ \A i \in DOMAIN send'[s] :
                           send'[s][i] # Disconnect => Answers(owner[s], send'[s][i])
                      /\ \A i, j \in DOMAIN send'[s] :
                           i < j /\ send'[s][i] # Disconnect
                                 /\ send'[s][j] # Disconnect
                             => send'[s][i].to[2] < send'[s][j].to[2]
                      /\ \A i \in DOMAIN send'[s], j \in DOMAIN answers[owner[s]] :
                           send'[s][i] # Disconnect =>
                             answers[owner[s]][j].to[2] < send'[s][i].to[2]
    <3>1. \A s \in Sockets : owner'[s] = owner[s]
                             /\ (owner[s] # Nobody => owner[s] \in Clients)
      BY <1>1, <1>2, HTTPTypes
    <3>2. \A s \in Sockets : owner[s] # Nobody =>
            \A x : Answers(owner[s], x)' <=> Answers(owner[s], x)
      BY <1>2 DEF Answers
    <3>3. answers' = answers
      BY <1>2
    <3> QED BY <3>1, <3>2, <3>3 DEF RepliesAscend, IsReply
  <2>1. CASE s # c
    <3>1. send'[s] = send[s]
      BY <1>9, <2>1
    <3> QED BY <1>1, <3>1 DEF RepliesAscend, IsReply
  <2>2. CASE s = c
    <3>1. owner[s] = k
      BY <2>2 DEF k
    <3>2. ASSUME NEW i \in DOMAIN send'[c], send'[c][i] # Disconnect
          PROVE  /\ Answers(k, send'[c][i])
                 /\ \A j \in DOMAIN answers[k] :
                      answers[k][j].to[2] < send'[c][i].to[2]
      <4>1. CASE i \in DOMAIN send[c] /\ send'[c][i] = send[c][i] /\ IsReply(c, i)
        BY <1>18, <4>1
      <4>2. CASE p # Empty /\ send'[c][i].to = p
                 /\ send'[c][i].status = StatusOf(sent[p[1]][p[2]])
        BY <1>18, <4>2 DEF Answers
      <4> QED BY <1>19, <3>2, <4>1, <4>2
    <3>3. ASSUME NEW i \in DOMAIN send'[c], NEW j \in DOMAIN send'[c], i < j,
                 send'[c][i] # Disconnect, send'[c][j] # Disconnect
          PROVE  send'[c][i].to[2] < send'[c][j].to[2]
      <4>1. i # n + m
        BY <1>19, <3>3
      <4>2. /\ i \in DOMAIN send[c] /\ send'[c][i] = send[c][i] /\ IsReply(c, i)
        BY <1>19, <3>3, <4>1
      <4> QED BY <1>18, <1>19, <3>3, <4>2
    <3> QED BY <2>2, <3>1, <3>2, <3>3
  <2> QED BY <2>1, <2>2
<1>21. PiecesAscend'
  <2> SUFFICES ASSUME NEW s \in Sockets, owner[s] # Nobody
               PROVE  /\ \A i \in DOMAIN recv'[s] : recv'[s][i] # Empty =>
                           recv'[s][i][1] = owner[s]
                           /\ recv'[s][i][2] \in 1 .. taken[owner[s]]
                      /\ \A i, j \in DOMAIN recv'[s] :
                           i < j /\ recv'[s][i] # Empty /\ recv'[s][j] # Empty
                             => recv'[s][i][2] < recv'[s][j][2]
                      /\ \A i \in DOMAIN recv'[s], j \in DOMAIN send'[s] :
                           recv'[s][i] # Empty /\ send'[s][j] # Disconnect
                             => send'[s][j].to[2] < recv'[s][i][2]
                      /\ \A i \in DOMAIN recv'[s], j \in DOMAIN answers[owner[s]] :
                           recv'[s][i] # Empty
                             => answers[owner[s]][j].to[2] < recv'[s][i][2]
    BY <1>2 DEF PiecesAscend, IsPiece, IsReply
  <2>1. /\ \A i \in DOMAIN recv[s] : IsPiece(s, i) =>
             recv[s][i][1] = owner[s] /\ recv[s][i][2] \in 1 .. taken[owner[s]]
        /\ \A i, j \in DOMAIN recv[s] :
             i < j /\ IsPiece(s, i) /\ IsPiece(s, j) => recv[s][i][2] < recv[s][j][2]
        /\ \A i \in DOMAIN recv[s], j \in DOMAIN send[s] :
             IsPiece(s, i) /\ IsReply(s, j) => send[s][j].to[2] < recv[s][i][2]
        /\ \A i \in DOMAIN recv[s], j \in DOMAIN answers[owner[s]] :
             IsPiece(s, i) => answers[owner[s]][j].to[2] < recv[s][i][2]
    BY <1>1 DEF PiecesAscend
  <2>2. CASE s # c
    <3>1. recv'[s] = recv[s] /\ send'[s] = send[s]
      BY <1>8, <1>9, <2>2
    <3> QED BY <2>1, <3>1 DEF IsPiece, IsReply
  <2>3. CASE s = c
    <3>1. owner[s] = k
      BY <2>3 DEF k
    <3>2. \A i \in DOMAIN recv'[c] :
            /\ recv'[c][i] = recv[c][i + 1] /\ i + 1 \in DOMAIN recv[c] /\ 1 < i + 1
            /\ i \in Int
            /\ recv'[c][i] # Empty => IsPiece(c, i + 1)
      BY <1>4, <1>5, <1>8 DEF IsPiece, q
    <3>3. ASSUME NEW i \in DOMAIN recv'[c], NEW j \in DOMAIN recv'[c], i < j,
                 recv'[c][i] # Empty, recv'[c][j] # Empty
          PROVE  recv'[c][i][2] < recv'[c][j][2]
      <4>1. i + 1 < j + 1
        BY <3>2, <3>3
      <4> QED BY <2>1, <2>3, <3>2, <3>3, <4>1
    <3>4. ASSUME NEW i \in DOMAIN recv'[c], NEW j \in DOMAIN send'[c],
                 recv'[c][i] # Empty, send'[c][j] # Disconnect
          PROVE  send'[c][j].to[2] < recv'[c][i][2]
      <4>1. CASE j \in DOMAIN send[c] /\ send'[c][j] = send[c][j] /\ IsReply(c, j)
        BY <2>1, <2>3, <3>2, <3>4, <4>1
      <4>2. CASE p # Empty /\ send'[c][j].to = p
        BY <1>18, <3>2, <3>4, <4>2
      <4> QED BY <1>19, <3>4, <4>1, <4>2
    <3>5. \A i \in DOMAIN recv'[c], j \in DOMAIN answers[k] :
            recv'[c][i] # Empty => answers[k][j].to[2] < recv'[c][i][2]
      BY <2>1, <2>3, <3>1, <3>2
    <3>6. \A i \in DOMAIN recv'[c] : recv'[c][i] # Empty =>
            recv'[c][i][1] = k /\ recv'[c][i][2] \in 1 .. taken[k]
      BY <2>1, <2>3, <3>1, <3>2
    <3> QED BY <2>3, <3>1, <3>3, <3>4, <3>5, <3>6
  <2> QED BY <2>2, <2>3
<1> QED BY <1>12, <1>14, <1>15, <1>16, <1>17, <1>20, <1>21 DEF HTTPInv

(* What a request is answered, whatever it accepts.                         *)
LEMMA StatusIsKnown ==
  ASSUME NEW uri, NEW type, NEW subType
  PROVE  ProcessRequest(uri, type, subType) \in {200, 404, 500}
<1>1. SiteStatus(uri) \in {200, 404, 500} /\ FileStatus(uri) \in {200, 404, 500}
  BY DEF SiteStatus, FileStatus
<1>2. ProcessTextRequest(uri, subType) \in {200, 404, 500}
  BY <1>1 DEF ProcessTextRequest, Unset
<1>3. ProcessImageRequest(uri, subType) \in {200, 404, 500}
  BY <1>1 DEF ProcessImageRequest, Unset
<1> QED BY <1>1, <1>2, <1>3 DEF ProcessRequest

(* ConnectionTimeOut: what it queues, and the entry it leaves.              *)
LEMMA TimeOutIsAnnounced ==
  ASSUME TypeOK, NEW s \in Sockets
  PROVE  /\ EntryThen(s) \in {"none", "fresh", "old"}
         /\ \/ ConnectionTimeOut(s) = <<>> /\ EntryThen(s) # "none"
            \/ ConnectionTimeOut(s) = <<Disconnect>> /\ EntryThen(s) = "none"
<1>1. m_webConnections[s] \in {"none", "fresh", "old"}
  BY DEF TypeOK
<1> QED BY <1>1 DEF EntryThen, ConnectionTimeOut, TimesOut

(* Sequences of one and of two messages.                                    *)
LEMMA OneMessage ==
  ASSUME NEW S, NEW a \in S
  PROVE  <<a>> \in Seq(S) /\ Len(<<a>>) = 1 /\ DOMAIN <<a>> = 1 .. 1 /\ <<a>>[1] = a
OBVIOUS

(* One message after another.                                               *)
LEMMA TwoMessages ==
  ASSUME NEW S, NEW a \in S, NEW b \in S
  PROVE  /\ <<a>> \o <<b>> = <<a, b>>
         /\ <<a, b>> \in Seq(S) /\ Len(<<a, b>>) = 2
         /\ DOMAIN <<a, b>> = 1 .. 2 /\ <<a, b>>[1] = a /\ <<a, b>>[2] = b
<1>1. <<a>> \in Seq(S) /\ <<b>> \in Seq(S) /\ <<a, b>> \in Seq(S)
  OBVIOUS
<1>2. /\ Len(<<a, b>>) = 2 /\ <<a, b>>[1] = a /\ <<a, b>>[2] = b
      /\ DOMAIN <<a, b>> = 1 .. 2
  OBVIOUS
<1>3. \A i \in 1 .. 2 : (<<a>> \o <<b>>)[i] = <<a, b>>[i]
  <2>1. \A i \in 1 .. 2 :
          (<<a>> \o <<b>>)[i] = IF i <= 1 THEN <<a>>[i] ELSE <<b>>[i - 1]
    BY <1>1, ConcatProperties
  <2> QED BY <1>2, <2>1
<1>4. <<a>> \o <<b>> \in Seq(S) /\ Len(<<a>> \o <<b>>) = 2
  BY <1>1, ConcatProperties
<1> QED BY <1>1, <1>2, <1>3, <1>4, SeqEqual

(* The end of the stream is processed: no more than a time out.             *)
LEMMA EndIsProcessed ==
  ASSUME HTTPInv, ProcessEmpty
  PROVE  HTTPInv'
<1> DEFINE replies == ConnectionTimeOut(Current)
           entry == EntryThen(Current)
<1>1. TypeOK /\ UpdateIsPlaced /\ At("process") /\ InPass
  BY DEF HTTPInv, ProcessEmpty, InPass, At
<1>2. Current \in Sockets
  BY <1>1, CurrentIsOwned
<1>3. /\ entry \in {"none", "fresh", "old"}
      /\ \/ replies = <<>> /\ entry # "none"
         \/ replies = <<Disconnect>> /\ entry = "none"
  BY <1>1, <1>2, TimeOutIsAnnounced
<1>4. /\ PopProcessed(replies, NoError)
      /\ m_webConnections' = [m_webConnections EXCEPT ![Current] = entry]
      /\ m_acceptType' \in Accepted /\ m_acceptSubType' \in Accepted
  BY <1>1 DEF ProcessEmpty, SetEntry, TypeOK
<1> HIDE DEF replies, entry
<1>5. /\ replies \in Seq(Responses \cup {Disconnect})
      /\ \A i \in DOMAIN replies : replies[i] = Disconnect
      /\ replies # <<>> => 1 \in DOMAIN replies
  <2>1. CASE replies = <<>>
    BY <2>1, EmptySeq
  <2>2. CASE replies = <<Disconnect>>
    BY <2>2, OneMessage
  <2> QED BY <1>3, <2>1, <2>2
<1>6. entry # "none" \/ \E i \in DOMAIN replies : replies[i] = Disconnect
  BY <1>3, <1>5
<1> QED BY <1>1, <1>3, <1>4, <1>5, <1>6, MessageIsProcessed

(* A request is processed: the response has the status of what it asks, and *)
(* is behind the disconnect message of a connection that does not stay.     *)
LEMMA RequestIsProcessed ==
  ASSUME HTTPInv, Process
  PROVE  HTTPInv'
<1> DEFINE piece == Head(recv[Current])
           request == sent[piece[1]][piece[2]]
           keep == Keeps(Current, request)
           status == ProcessRequest(request.uri, m_acceptType', m_acceptSubType')
           response == [to |-> piece, keep |-> keep, status |-> status]
           A == ConnectionTimeOut(Current)
           B == KeepAlive(Current, request)
           replies == A \o B \o <<response>>
           entry == IF keep THEN EntryThen(Current) ELSE "none"
           Messages == Responses \cup {Disconnect}
<1>1. /\ TypeOK /\ UpdateIsPlaced /\ PiecesAscend /\ At("process") /\ InPass
      /\ piece # Empty
  BY DEF HTTPInv, Process, InPass, At
<1>2. /\ Current \in Sockets /\ owner[Current] \in Clients
      /\ owner[Current] # Nobody
  BY <1>1, CurrentIsOwned
<1>3. /\ WhatIsRequestAskingFor(request)
      /\ m_webConnections' = [m_webConnections EXCEPT ![Current] = entry]
      /\ PopProcessed(replies, NoError)
  BY DEF Process, SetEntry
<1>4. piece \in Pieces /\ request \in Requests
  <2>1. /\ recv[Current] # <<>> /\ recv[Current] \in Seq(Pieces \cup {Empty})
        /\ Len(recv[Current]) \in Nat
        /\ DOMAIN recv[Current] = 1 .. Len(recv[Current])
    BY <1>1, <1>2, HTTPTypes DEF UpdateIsPlaced
  <2>2. Len(recv[Current]) # 0
    BY <2>1, EmptySeq
  <2>3. 1 \in DOMAIN recv[Current] /\ piece = recv[Current][1]
    BY <2>1, <2>2
  <2>4. piece \in Pieces
    BY <1>1, <2>1, <2>3, ElementOfSeq
  <2>5. piece[1] = owner[Current] /\ piece[2] \in 1 .. taken[owner[Current]]
    BY <1>1, <1>2, <2>3 DEF PiecesAscend, IsPiece
  <2>6. /\ sent[owner[Current]] \in Seq(Requests)
        /\ DOMAIN sent[owner[Current]] = 1 .. Len(sent[owner[Current]])
        /\ Len(sent[owner[Current]]) \in Nat
        /\ taken[owner[Current]] \in Nat
        /\ taken[owner[Current]] <= Len(sent[owner[Current]])
    BY <1>1, <1>2, HTTPTypes
  <2>7. piece[2] \in 1 .. Len(sent[owner[Current]])
    BY <2>5, <2>6
  <2>8. request \in Requests
    BY <2>5, <2>6, <2>7, ElementOfSeq
  <2> QED BY <2>4, <2>8
<1>5. EntryThen(Current) \in {"none", "fresh", "old"}
  BY <1>1, <1>2, TimeOutIsAnnounced
<1>6. \/ A = <<>> /\ EntryThen(Current) # "none"
      \/ A = <<Disconnect>> /\ EntryThen(Current) = "none"
  BY <1>1, <1>2, TimeOutIsAnnounced
<1>7. /\ m_acceptType' \in Accepted /\ m_acceptSubType' \in Accepted
      /\ status = StatusOf(request)
  <2>1. request.accept \in (Words \X Words) \cup {<<>>}
    BY <1>4, RequestAssumption DEF RequestType
  <2>2. CASE request.accept = <<>>
    BY <1>3, <2>2 DEF WhatIsRequestAskingFor, StatusOf, Accepted
  <2>3. CASE request.accept # <<>>
    <3>1. \A word : LookUp(word) \in Accepted
      BY DEF LookUp, Accepted
    <3> QED BY <1>3, <2>3, <3>1 DEF WhatIsRequestAskingFor, StatusOf
  <2> QED BY <2>2, <2>3
<1>8. keep \in BOOLEAN /\ (keep => EntryThen(Current) # "none")
      /\ (~keep => A = <<Disconnect>> \/ B = <<Disconnect>>)
      /\ (B = <<>> \/ B = <<Disconnect>>)
      /\ ~(A = <<Disconnect>> /\ B = <<Disconnect>>)
  BY <1>6 DEF Keeps, KeepAlive
<1>9. response \in Responses
  <2>1. status \in Nat
    BY StatusIsKnown
  <2> HIDE DEF status, keep, piece
  <2> QED BY <1>4, <1>8, <2>1 DEF Responses
<1>10. entry \in {"none", "fresh", "old"} /\ (entry = "none" => ~keep)
  BY <1>5, <1>8
<1>11. response.to = piece /\ response.status = status
  OBVIOUS
<1> HIDE DEF A, B, entry, keep, response, status, request, piece
<1>12. Disconnect \in Messages /\ response \in Messages
  BY <1>9
<1> HIDE DEF Messages
<1>13. \/ replies = <<response>> /\ keep
       \/ replies = <<Disconnect, response>>
  <2> DEFINE R == <<response>>
             D == <<Disconnect>>
  <2>1. /\ R \in Seq(Messages) /\ D \in Seq(Messages) /\ <<>> \in Seq(Messages)
        /\ D \o R = <<Disconnect, response>>
    BY <1>12, EmptySeq, OneMessage, TwoMessages
  <2> HIDE DEF R, D
  <2>2. /\ <<>> \o R = R /\ <<>> \o <<>> = <<>>
        /\ D \o <<>> = D /\ <<>> \o D = D
    BY <2>1, ConcatEmptySeq
  <2>3. CASE A = <<>> /\ B = <<>>
    <3>1. keep
      BY <1>8, <2>1, <2>3 DEF D
    <3> QED BY <2>2, <2>3, <3>1 DEF R
  <2>4. CASE A = D /\ B = <<>>
    BY <2>1, <2>2, <2>4 DEF R
  <2>5. CASE A = <<>> /\ B = D
    BY <2>1, <2>2, <2>5 DEF R
  <2> QED BY <1>6, <1>8, <2>3, <2>4, <2>5 DEF D
<1> HIDE DEF replies
<1>14. /\ replies \in Seq(Messages) /\ Len(replies) \in {1, 2}
       /\ DOMAIN replies = 1 .. Len(replies)
       /\ replies[Len(replies)] = response
       /\ Len(replies) = 2 => replies[1] = Disconnect
       /\ Len(replies) = 1 => keep
  <2>1. CASE replies = <<response>> /\ keep
    BY <1>12, <2>1, OneMessage
  <2>2. CASE replies = <<Disconnect, response>>
    BY <1>12, <2>2, TwoMessages
  <2> QED BY <1>13, <2>1, <2>2
<1>15. \A i \in DOMAIN replies : replies[i] # Disconnect =>
         i = Len(replies) /\ replies[i].to = piece
         /\ replies[i].status = StatusOf(request)
  BY <1>7, <1>11, <1>14
<1>16. entry # "none" \/ \E i \in DOMAIN replies : replies[i] = Disconnect
  <2>1. CASE keep
    BY <1>10, <2>1
  <2>2. CASE ~keep
    <3>1. 1 \in DOMAIN replies /\ replies[1] = Disconnect
      BY <1>14, <2>2
    <3> QED BY <3>1
  <2> QED BY <2>1, <2>2
<1> QED BY <1>1, <1>3, <1>7, <1>10, <1>14, <1>15, <1>16, MessageIsProcessed
        DEF Messages, piece, request

-----------------------------------------------------------------------------
(* The initial states.                                                      *)
LEMMA ServerBegins ==
  ASSUME Init
  PROVE  HTTPInv
<1> USE DEF Init, ProtocolInit
<1>1. TypeOK
  <2>1. /\ connections \in Seq(Sockets) /\ receive \in 0 .. Len(connections)
        /\ backlog \in Seq(Clients)
    BY EmptySeq
  <2>2. /\ send \in [Sockets -> Seq(Responses \cup {Disconnect})]
        /\ recv \in [Sockets -> Seq(Pieces \cup {Empty})]
        /\ answers \in [Clients -> Seq(Responses)]
        /\ sent \in [Clients -> Seq(Requests)]
    BY EmptySeq
  <2>3. update \in [at : {"process", "send", "remove", "erase", "accept", "push"},
                    i : Nat \ {0}, toDelete : Seq(Sockets),
                    newcon : Sockets \cup {Nobody}]
    <3>1. <<>> \in Seq(Sockets) /\ 1 \in Nat \ {0}
      BY EmptySeq
    <3> QED BY <3>1
  <2>4. /\ owner \in [Sockets -> Clients \cup {Nobody}]
        /\ state \in [Clients -> {"out", "open", "closed", "reset", "dropped"}]
    OBVIOUS
  <2>5. taken \in [Clients -> Nat]
    OBVIOUS
  <2>6. \A k \in Clients : taken[k] <= Len(sent[k]) /\ Len(sent[k]) <= MaxPieces[k]
    BY ProtocolAssumption
  <2>7. /\ m_webConnections \in [Sockets -> {"none", "fresh", "old"}]
        /\ m_acceptType \in Accepted /\ m_acceptSubType \in Accepted
    BY DEF Accepted
  <2> QED BY <2>1, <2>2, <2>3, <2>4, <2>5, <2>6, <2>7 DEF TypeOK, ProtocolTypeOK
<1>2. ListIsOpen
  BY DEF ListIsOpen, At
<1>3. OwnersAreApart
  BY DEF OwnersAreApart
<1>4. UpdateIsPlaced
  BY DEF UpdateIsPlaced, InPass, At
<1>5. KeptAliveIsTimed /\ AnswersAscend /\ RepliesAscend /\ PiecesAscend
  BY DEF KeptAliveIsTimed, AnswersAscend, RepliesAscend, PiecesAscend
<1> QED BY <1>1, <1>2, <1>3, <1>4, <1>5 DEF HTTPInv

(* A step of neither thread and of no client.                               *)
LEMMA NothingHappens ==
  ASSUME HTTPInv, UNCHANGED vars
  PROVE  HTTPInv'
<1>1. /\ TypeOK /\ ListIsOpen /\ OwnersAreApart /\ UpdateIsPlaced
      /\ KeptAliveIsTimed /\ AnswersAscend /\ RepliesAscend /\ PiecesAscend
  BY DEF HTTPInv
<1>2. /\ UNCHANGED <<connections, send, recv, update, receive, owner, backlog,
                     state, sent, taken, answers>>
      /\ UNCHANGED <<m_webConnections, m_acceptType, m_acceptSubType>>
  BY DEF vars, protocolVars, queues, network, http
<1>3. TypeOK'
  BY <1>1, <1>2 DEF TypeOK, ProtocolTypeOK
<1>4. ListIsOpen' /\ UpdateIsPlaced' /\ OwnersAreApart'
  BY <1>1, <1>2, UpdateStays, OwnersStay DEF ListIsOpen, At
<1>5. KeptAliveIsTimed'
  BY <1>1, <1>2 DEF KeptAliveIsTimed, IsEnding
<1>6. AnswersAscend' /\ RepliesAscend' /\ PiecesAscend'
  BY <1>1, <1>2, AnswersStay
<1> QED BY <1>3, <1>4, <1>5, <1>6 DEF HTTPInv

(* The server stays orderly: the two threads agree on the list, a socket    *)
(* has one client at most and a client one socket, and the pieces of every  *)
(* client go in order, once, through the queues of its own socket.          *)
THEOREM ServerIsOrderly == Spec => []HTTPInv
<1>1. Init => HTTPInv
  BY ServerBegins
<1>2. HTTPInv /\ [Next]_vars => HTTPInv'
  <2> SUFFICES ASSUME HTTPInv, [Next]_vars
               PROVE  HTTPInv'
    OBVIOUS
  <2>1. CASE Process
    BY <2>1, RequestIsProcessed
  <2>2. CASE ProcessEmpty
    BY <2>2, EndIsProcessed
  <2>3. CASE PassStep /\ UNCHANGED http
    <3>1. CASE NothingToSend \/ SendDisconnect \/ SendFails
      BY <2>3, <3>1, SocketIsLeft
    <3>2. CASE SendNext
      BY <2>3, <3>2, ResponseIsSent
    <3>3. CASE CloseSocket
      BY <2>3, <3>3, SocketIsClosed
    <3>4. CASE EraseSocket
      BY <2>3, <3>4, SocketIsErased
    <3>5. CASE NothingToAccept
      BY <2>3, <3>5, NobodyIsAccepted
    <3>6. ASSUME NEW s \in Sockets, AcceptConnections(s)
          PROVE  HTTPInv'
      BY <2>3, <3>6, ClientIsAccepted
    <3>7. CASE PushConnection
      BY <2>3, <3>7, SocketIsListed
    <3> QED BY <2>3, <3>1, <3>2, <3>3, <3>4, <3>5, <3>6, <3>7 DEF PassStep
  <2>4. CASE ReceiveStep /\ UNCHANGED http
    BY <2>4, WalkBegins, SocketIsRead DEF ReceiveStep
  <2>5. ASSUME NEW k \in Clients, ClientStep(k), UNCHANGED http
        PROVE  HTTPInv'
    <3>1. CASE Open(k)
      BY <2>5, <3>1, ClientCalls
    <3>2. ASSUME NEW request \in Requests, Write(k, request)
          PROVE  HTTPInv'
      BY <2>5, <3>2, ClientWrites
    <3>3. ASSUME NEW how \in {"closed", "reset"}, Leave(k, how)
          PROVE  HTTPInv'
      BY <2>5, <3>3, ClientLeaves
    <3> QED BY <2>5, <3>1, <3>2, <3>3 DEF ClientStep
  <2>6. ASSUME NEW s \in Sockets, Age(s)
        PROVE  HTTPInv'
    BY <2>6, EntryAges
  <2>7. CASE UNCHANGED vars
    BY <2>7, NothingHappens
  <2> QED BY <2>1, <2>2, <2>3, <2>4, <2>5, <2>6, <2>7 DEF Next, UpdateStep
<1> QED BY <1>1, <1>2, PTL DEF Spec

(* Every variable of the protocol and of HTTP keeps its type: the walk of   *)
(* the receive thread stays within a list the other thread changes.         *)
THEOREM HTTPTypeCorrect == Spec => []TypeOK
<1>1. HTTPInv => TypeOK
  BY DEF HTTPInv
<1> QED BY <1>1, ServerIsOrderly, PTL

(* A socket is in the list once, from its accept until RemoveConnection has *)
(* erased it, and is open but for the step between the close and that.      *)
THEOREM ListIsAlwaysOpen == Spec => []ListIsOpen
<1>1. HTTPInv => ListIsOpen
  BY DEF HTTPInv
<1> QED BY <1>1, ServerIsOrderly, PTL

(* No connection that was answered drops out of the keep-alive: it has an   *)
(* entry that can grow old, or its disconnect message is queued.            *)
THEOREM AnsweredIsAlwaysTimed == Spec => []KeptAliveIsTimed
<1>1. HTTPInv => KeptAliveIsTimed
  BY DEF HTTPInv
<1> QED BY <1>1, ServerIsOrderly, PTL

(* Every answer a client gets is to a piece of its own, behind those before *)
(* it, and has the status its own request asks for, although the numbers of *)
(* sockets are given out again and the accepted types are kept in members   *)
(* all connections share.                                                   *)
THEOREM AnswersAreAlwaysOwn == Spec => []AnswersAreOwn
<1>1. HTTPInv => AnswersAreOwn
  <2> SUFFICES ASSUME HTTPInv, NEW k \in Clients, NEW i \in DOMAIN answers[k]
               PROVE
                 LET answer == answers[k][i]
                     request == sent[k][answer.to[2]]
                     type == IF request.accept = <<>> THEN <<"text", "plain">>
                             ELSE <<LookUp(request.accept[1]),
                                    LookUp(request.accept[2])>>
                 IN /\ answer.to[1] = k
                    /\ i > 1 => answer.to[2] > answers[k][i - 1].to[2]
                    /\ answer.status = ProcessRequest(request.uri, type[1], type[2])
    BY DEF AnswersAreOwn
  <2> DEFINE answer == answers[k][i]
             request == sent[k][answer.to[2]]
             type == IF request.accept = <<>> THEN <<"text", "plain">>
                     ELSE <<LookUp(request.accept[1]), LookUp(request.accept[2])>>
  <2>1. TypeOK /\ AnswersAscend
    BY DEF HTTPInv
  <2>2. /\ answer.to[1] = k /\ answer.status = StatusOf(request)
        /\ answer.to[2] \in 1 .. taken[k]
    BY <2>1 DEF AnswersAscend, Answers
  <2>3. ASSUME i > 1 PROVE answer.to[2] > answers[k][i - 1].to[2]
    <3>1. Len(answers[k]) \in Nat /\ DOMAIN answers[k] = 1 .. Len(answers[k])
      BY <2>1, HTTPTypes
    <3>2. i - 1 \in DOMAIN answers[k] /\ i - 1 < i
      BY <2>3, <3>1
    <3>3. /\ answers[k][i - 1].to[2] < answers[k][i].to[2]
          /\ answers[k][i - 1].to[2] \in 1 .. taken[k]
      BY <2>1, <3>2 DEF AnswersAscend, Answers
    <3>4. taken[k] \in Nat
      BY <2>1, HTTPTypes
    <3> QED BY <2>2, <3>3, <3>4
  <2>4. StatusOf(request) = ProcessRequest(request.uri, type[1], type[2])
    BY DEF StatusOf
  <2> QED BY <2>2, <2>3, <2>4
<1> QED BY <1>1, ServerIsOrderly, PTL
=============================================================================
