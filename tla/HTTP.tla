-------------------------------- MODULE HTTP --------------------------------
(***************************************************************************)
(* The web server: HTTP is the custom protocol whose Process answers every *)
(* message of a client. It keeps, per socket, when the socket was first    *)
(* heard of, and closes a socket by a disconnect message in the queue of   *)
(* its responses. Texts are left out: a request is what it asks for, a     *)
(* response the request it answers, its status and its Connection header.  *)
(***************************************************************************)
EXTENDS CustomProtocol

CONSTANTS
  Pages,  \* paths the site has a page for
  Files   \* paths GetFile can read

VARIABLES
  m_webConnections, \* per socket: "none", or an entry within ("fresh") or
                    \* past ("old") the keep-alive time
  m_acceptType, m_acceptSubType

http == <<m_webConnections, m_acceptType, m_acceptSubType>>
vars == <<protocolVars, http>>

(* Words of an Accept header; any other word is "unknown".                  *)
Accepted == {"text", "plain", "html", "css", "image", "webp", "*"}
Words == Accepted \cup {"unknown"}

(* close: the Connection header holds "close". accept: the Accept header,   *)
(* <<>> without one.                                                        *)
RequestType == [close : BOOLEAN, accept : (Words \X Words) \cup {<<>>},
                uri : Pages \cup Files \cup {"nowhere"}]

ASSUME RequestAssumption == Requests \subseteq RequestType

TypeOK ==
  /\ ProtocolTypeOK
  /\ m_webConnections \in [Sockets -> {"none", "fresh", "old"}]
  /\ m_acceptType \in Accepted /\ m_acceptSubType \in Accepted

Init ==
  /\ ProtocolInit
  /\ m_webConnections = [s \in Sockets |-> "none"]
  /\ m_acceptType = "text" /\ m_acceptSubType = "text"  \* not read before set

-----------------------------------------------------------------------------
(* m_acceptLookUp[word] adds a word it does not know, with the value 0.     *)
LookUp(word) == IF word \in Accepted THEN word ELSE "text"

(* Mutant of WhatIsRequestAskingFor: nothing is set without the header.     *)
WhatIsRequestAskingForNoDefault(request) ==
  /\ m_acceptType' = IF request.accept = <<>> THEN m_acceptType
                     ELSE LookUp(request.accept[1])
  /\ m_acceptSubType' = IF request.accept = <<>> THEN m_acceptSubType
                        ELSE LookUp(request.accept[2])

WhatIsRequestAskingFor(request) ==
  /\ m_acceptType' = IF request.accept = <<>> THEN "text"
                     ELSE LookUp(request.accept[1])
  /\ m_acceptSubType' = IF request.accept = <<>> THEN "plain"
                        ELSE LookUp(request.accept[2])

(* The status Site::HandleRequest, and the readers of files, set. A page    *)
(* writes something and returns OK, as those of the sample site do.         *)
SiteStatus(uri) == IF uri \in Pages THEN 200 ELSE 404
FileStatus(uri) == IF uri \in Files THEN 200 ELSE 404

(* A response starts with status 500, and keeps it where nothing is set.    *)
Unset == 500
ProcessTextRequest(uri, subType) ==
  CASE subType = "html" -> SiteStatus(uri)
    [] subType = "css" -> FileStatus(uri)
    [] OTHER -> Unset

ProcessImageRequest(uri, subType) ==
  IF subType = "webp" THEN FileStatus(uri) ELSE Unset

ProcessRequest(uri, type, subType) ==
  CASE type = "text" -> ProcessTextRequest(uri, subType)
    [] type = "image" -> ProcessImageRequest(uri, subType)
    [] type = "*" -> FileStatus(uri)
    [] OTHER -> SiteStatus(uri)

-----------------------------------------------------------------------------
(* ConnectionTimeOut, run for every message: an old entry is erased and the *)
(* disconnect message queued; a socket without one gets one.                *)
TimesOut(s) == m_webConnections[s] = "old"

ConnectionTimeOut(s) == IF TimesOut(s) THEN <<Disconnect>> ELSE <<>>
EntryThen(s) == IF TimesOut(s) THEN "none"
                ELSE IF m_webConnections[s] = "none" THEN "fresh"
                ELSE m_webConnections[s]

(* KeepAlive: whether the connection stays. If it does not, its entry goes, *)
(* and the disconnect message is queued if there was one.                   *)
Keeps(s, request) == ~request.close /\ EntryThen(s) # "none"

(* Mutant of KeepAlive: the entry is erased, no more.                       *)
KeepAliveSilent(s, request) == <<>>

KeepAlive(s, request) ==
  IF ~Keeps(s, request) /\ EntryThen(s) # "none" THEN <<Disconnect>> ELSE <<>>

SetEntry(s, entry) == m_webConnections' = [m_webConnections EXCEPT ![s] = entry]

(* Process never returns an error.                                          *)
NoError == 0

(* Process of a message of size 0: the client has closed.                   *)
ProcessEmpty ==
  /\ At("process") /\ Head(recv[Current]) = Empty
  /\ PopProcessed(ConnectionTimeOut(Current), NoError)
  /\ SetEntry(Current, EntryThen(Current))
  /\ UNCHANGED <<m_acceptType, m_acceptSubType>>

(* Process of a request: the disconnect message is queued ahead of the      *)
(* response.                                                                *)
Process ==
  /\ At("process") /\ Head(recv[Current]) # Empty
  /\ LET piece == Head(recv[Current])
         request == sent[piece[1]][piece[2]]
         keep == Keeps(Current, request)
     IN
     /\ WhatIsRequestAskingFor(request)
     /\ SetEntry(Current, IF keep THEN EntryThen(Current) ELSE "none")
     /\ PopProcessed(
          ConnectionTimeOut(Current) \o KeepAlive(Current, request)
          \o <<[to |-> piece, keep |-> keep,
                status |-> ProcessRequest(request.uri, m_acceptType',
                                          m_acceptSubType')]>>,
          NoError)

(* Time passes: no entry is ever refreshed.                                 *)
Age(s) ==
  /\ m_webConnections[s] = "fresh"
  /\ SetEntry(s, "old")
  /\ UNCHANGED <<protocolVars, m_acceptType, m_acceptSubType>>

-----------------------------------------------------------------------------
UpdateStep == Process \/ ProcessEmpty \/ (PassStep /\ UNCHANGED http)

Next ==
  \/ UpdateStep
  \/ ReceiveStep /\ UNCHANGED http
  \/ \E k \in Clients : ClientStep(k) /\ UNCHANGED http
  \/ \E s \in Sockets : Age(s)

Spec == Init /\ [][Next]_vars

(* Both threads run, and sleep between their passes without the locks, so   *)
(* that neither keeps the other out for ever; time passes.                  *)
FairSpec ==
  /\ Spec
  /\ SF_vars(UpdateStep)
  /\ SF_vars(ReceiveStep /\ UNCHANGED http)
  /\ \A s \in Sockets : WF_vars(Age(s))

-----------------------------------------------------------------------------
(* Properties. *)

(* Every response a client gets answers a message of its own, in order and  *)
(* once, with the status its own request asks for: queues are kept under    *)
(* socket numbers the system gives out again (IProtocol.cpp:13), and what a *)
(* request asks for is kept in members all connections share                *)
(* (HTTP.cpp:199).                                                          *)
AnswersAreOwn ==
  \A k \in Clients : \A i \in DOMAIN answers[k] :
    LET answer == answers[k][i]
        request == sent[k][answer.to[2]]
        type == IF request.accept = <<>> THEN <<"text", "plain">>
                ELSE <<LookUp(request.accept[1]), LookUp(request.accept[2])>>
    IN /\ answer.to[1] = k
       /\ i > 1 => answer.to[2] > answers[k][i - 1].to[2]
       /\ answer.status = ProcessRequest(request.uri, type[1], type[2])

IsEnding(s) == \E i \in DOMAIN send[s] : send[s][i] = Disconnect

(* A socket that was answered has an entry, so that it can time out, or its *)
(* disconnect message is queued: no connection drops out of the keep-alive  *)
(* (HTTP.cpp:119).                                                          *)
KeptAliveIsTimed ==
  \A s \in Sockets : owner[s] # Nobody /\ ~IsEnding(s)
                     /\ (send[s] # <<>> \/ answers[owner[s]] # <<>>)
                     => m_webConnections[s] # "none"

(* The receive thread walks a list of which every socket is open, but for   *)
(* the one RemoveConnection has closed and not erased                       *)
(* (NetworkingSystem.cpp:223), and every open socket is in it once, but for *)
(* the one that is accepted and not yet put into it.                        *)
ListIsOpen ==
  /\ \A i, j \in DOMAIN connections : connections[i] = connections[j] => i = j
  /\ \A s \in Sockets :
       (\E i \in DOMAIN connections : connections[i] = s)
       <=> owner[s] # Nobody \/ (At("erase") /\ s = Head(update.toDelete))

(* A client that closes is removed: recv goes on with messages of size 0,   *)
(* and one of them finds the entry old (IProtocol.cpp:107, HTTP.cpp:175).   *)
ClosedIsRemoved ==
  \A k \in Clients :
    state[k] = "closed" ~> \A s \in Sockets : owner[s] # k

(* "send response and close connection" (HTTP.cpp:116): a connection is     *)
(* not closed at its own end before its responses are sent.                 *)
ClosedAfterResponse ==
  \A i \in DOMAIN update.toDelete :
    LET queue == send[update.toDelete[i]] IN
    Head(queue) = Disconnect => \A j \in DOMAIN queue : queue[j] = Disconnect

=============================================================================
