---------------------------- MODULE MasterServer ----------------------------
(***************************************************************************)
(* The master server of NetService over the table of connections: the      *)
(* callbacks UDPConnect and Disconnect run in the update thread and keep   *)
(* m_clients, a vector without a lock of handles; the main thread receives *)
(* from every slot, sends to every connection and lists the clients. The   *)
(* code that would register an instance server is commented out, so that   *)
(* m_instanceServers stays empty and a message changes nothing.            *)
(***************************************************************************)
EXTENDS ConnectionTable, SequencesExt

VARIABLES
  m_clients,  \* the handles of the clients
  listing,    \* HandleCommand "list": the vector as the loop found it, and
              \* how many are still to print
  accepted    \* history: the connections that came in over UDP

server == <<m_clients, listing, accepted>>
allVars == <<vars, server>>

ServerTypeOK ==
  /\ TypeOK
  /\ m_clients \in Seq(1 .. MaxSlots)
  /\ listing \in [clients : Seq(1 .. MaxSlots), left : 0 .. MaxSlots]
  /\ accepted \subseteq Conns

NotListing == [clients |-> <<>>, left |-> 0]

ServerInit ==
  /\ Init
  /\ m_clients = <<>> /\ listing = NotListing /\ accepted = {}

-----------------------------------------------------------------------------
(* The update thread, with what the callbacks do. *)

Same == UNCHANGED server

(* newUDPConnectFunc_ is called once the connection has been looked up.     *)
UDPConnect ==
  /\ ReadMade
  /\ IF update'.con = Null THEN UNCHANGED <<m_clients, accepted>>
     ELSE /\ m_clients' = Append(m_clients, update.i)
          /\ accepted' = accepted \cup {update'.con}
  /\ UNCHANGED listing

GetClientIt(id) == SelectInSeq(m_clients, LAMBDA client : client = id)

(* Mutant of HandleDisconnect: the last client goes, whoever disconnected.  *)
HandleDisconnectLast(id) ==
  m_clients' = IF m_clients = <<>> THEN m_clients ELSE Front(m_clients)

HandleDisconnect(id) ==
  m_clients' = IF GetClientIt(id) = 0 THEN m_clients
                                      ELSE RemoveAt(m_clients, GetClientIt(id))

(* handleDisconnectFunc_ is called before the connection is removed. A      *)
(* connection over TCP is reported too and is not among the clients.        *)
Disconnected ==
  /\ Check
  /\ IF update.con \in ended THEN HandleDisconnect(conID_[update.con])
                             ELSE UNCHANGED m_clients
  /\ UNCHANGED <<listing, accepted>>

ServerUpdate ==
  \/ UDPConnect \/ Disconnected
  \/ /\ \/ StartWalk \/ Walk \/ ReadSlot \/ Pass({})
        \/ \E c \in Conns : EndPass(c)
        \/ LockTable \/ CloseSocket \/ Delete \/ ClearSlot
        \/ NothingToParse
        \/ \E peer \in Peers, syn \in BOOLEAN : ParseMessages(peer, syn)
        \/ MakeConnection \/ PushReceived \/ TCPAccept
     /\ Same

-----------------------------------------------------------------------------
(* The main thread: Receive over all slots, a command sent to all           *)
(* connections, and "list".                                                 *)

Receive ==
  /\ listing.left = 0
  /\ \E hCon \in DOMAIN slots : Call("receive", hCon)
  /\ Same

(* GetConnections copied the handles before; a slot may be empty by now.    *)
SendCommand ==
  /\ listing.left = 0
  /\ \E hCon \in DOMAIN slots : Call("send", hCon)
  /\ Same

StartList ==
  /\ app.at = "idle" /\ listing.left = 0 /\ m_clients # <<>>
  /\ app.calls < MaxCalls
  /\ app' = [app EXCEPT !.calls = @ + 1]
  /\ listing' = [clients |-> m_clients, left |-> Len(m_clients)]
  /\ UNCHANGED <<table, ends, update, fault, m_clients, accepted>>

(* GetConnectionAddress takes no lock. The iterators of the loop are of no  *)
(* use once a callback has changed the vector.                              *)
ListClient ==
  /\ listing.left > 0
  /\ LET cl == listing.clients[Len(listing.clients) - listing.left + 1]
     IN  IF m_clients # listing.clients \/ slots[cl] = Null
            \/ object[slots[cl]] # "live"
         THEN fault' = "app" /\ UNCHANGED listing
         ELSE /\ listing' = IF listing.left = 1 THEN NotListing
                            ELSE [listing EXCEPT !.left = @ - 1]
              /\ UNCHANGED fault
  /\ UNCHANGED <<table, ends, update, app, m_clients, accepted>>

ServerMain == (CallStep /\ Same) \/ Receive \/ SendCommand \/ StartList \/ ListClient

ServerNext ==
  \/ fault = Null /\ (ServerUpdate \/ ServerMain)
  \/ Crashed /\ Same

ServerSpec == ServerInit /\ [][ServerNext]_allVars

-----------------------------------------------------------------------------
(* The clients are the connections that came in over UDP and have not been  *)
(* reported gone, each once: handles are used again, connections over TCP   *)
(* take some of them, and HandleDisconnect goes by the handle alone         *)
(* (MasterServer.cpp:182).                                                  *)
ClientsAreCurrent ==
  /\ IsInjective(m_clients)
  /\ ToSet(m_clients) = {conID_[c] : c \in {d \in accepted : told[d] = 0}}
=============================================================================
