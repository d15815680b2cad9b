--------------------------- MODULE TcpServerProofs ---------------------------
(***************************************************************************)
(* With the statement order of visensor-srv the two threads of a TcpServer *)
(* never cancel each other's updates and never meet on socket_, for every  *)
(* set of servers and clients.                                             *)
(***************************************************************************)
EXTENDS TcpServer, TLAPS

\* What the flag, the accept operation and the socket of a server say of one another at
\* each point of the owner's call.
ServerInv(s) ==
    /\ ~up => ~has_connection[s] /\ accepting[s] = "no" /\ call[s] = "idle" /\ sock[s] = NoOne
    /\ accepting[s] = "armed" => ~has_connection[s] /\ sock[s] = NoOne /\ call[s] = "idle"
    /\ accepting[s] = "done" => ~has_connection[s] /\ sock[s] # NoOne /\ call[s] = "idle"
    /\ has_connection[s] => sock[s] # NoOne
    /\ call[s] \in {"send", "flag"} => has_connection[s]
    /\ call[s] \in {"close", "arm"} => ~has_connection[s]
    /\ call[s] = "arm" => sock[s] = NoOne
    /\ up /\ call[s] = "idle" /\ s \notin failed =>
          has_connection[s] \/ accepting[s] \in {"armed", "done"}

TInv == TypeOK /\ \A s \in Servers : ServerInv(s)

\* Nothing runs and nobody is connected.
LEMMA InitTInv == Init => TInv
<1> SUFFICES ASSUME Init PROVE TInv
  OBVIOUS
<1>1. TypeOK
  <2>1. up \in BOOLEAN /\ has_connection \in [Servers -> BOOLEAN]
    BY Zenon DEF Init, AllServers
  <2>2. /\ accepting \in [Servers -> {"no", "armed", "done"}]
        /\ sock \in [Servers -> Clients \cup {NoOne}]
        /\ call \in [Servers -> {"idle", "send"} \cup Statements]
        /\ peer \in [Clients -> {"idle", "open"} \cup Gone]
        /\ failed \subseteq Servers
    BY DEF Init, AllServers
  <2>3. backlog \in [Servers -> Seq(Clients)]
    BY DEF Init, AllServers
  <2> QED BY <2>1, <2>2, <2>3 DEF TypeOK
<1>2. \A s \in Servers : ServerInv(s)
  BY DEF Init, AllServers, ServerInv
<1> QED BY <1>1, <1>2 DEF TInv

\* The steps of the processes, the threads and the network keep every variable in its type.
LEMMA NextTypeOK ==
    ASSUME TInv, [Next]_vars
    PROVE  TypeOK'
<1>0. TypeOK /\ \A s \in Servers : ServerInv(s)
  BY DEF TInv
<1> USE TcpAssumption, <1>0 DEF TypeOK, Statements, Gone, AllServers
<1>1. ASSUME ProcessEnds PROVE TypeOK'
  <2>1. up' \in BOOLEAN /\ has_connection' \in [Servers -> BOOLEAN]
    BY <1>1, Zenon DEF ProcessEnds
  <2> QED BY <1>1, <2>1 DEF ProcessEnds
<1>2. CASE Start
  BY <1>2 DEF Start
<1>3. CASE Stop
  BY <1>1, <1>3 DEF Stop
<1>4. ASSUME NEW c \in Clients, Connect(c) \/ Fin(c) \/ Rst(c) \/ RstArrives(c) PROVE TypeOK'
  <2>1. CASE Connect(c)
    BY <2>1 DEF Connect, server
  <2>2. CASE Fin(c) \/ Rst(c) \/ RstArrives(c)
    BY <2>2 DEF Fin, Rst, RstArrives, server
  <2> QED BY <1>4, <2>1, <2>2
<1>5. ASSUME NEW s \in Servers, IoStep(s) \/ AcceptError(s) PROVE TypeOK'
  <2>1. CASE AcceptDone(s)
    BY <2>1 DEF AcceptDone
  <2>2. CASE HandleAccept(s)
    BY <2>2 DEF HandleAccept
  <2>3. CASE HandleAcceptThrows(s)
    BY <1>1, <2>3 DEF HandleAcceptThrows
  <2>4. CASE AcceptError(s)
    BY <2>4 DEF AcceptError
  <2> QED BY <1>5, <2>1, <2>2, <2>3, <2>4 DEF IoStep
<1>6. ASSUME NEW s \in Servers, OwnerStep(s) PROVE TypeOK'
  <2>1. CASE SendCall(s)
    BY <2>1 DEF SendCall
  <2>2. CASE SendOk(s)
    BY <2>2 DEF SendOk, SendThrowsNow
  <2>3. CASE SendThrows(s)
    BY <2>3 DEF SendThrows
  <2>4. CASE ClearFlag(s)
    BY <2>4 DEF ClearFlag
  <2>5. CASE Close(s)
    BY <2>5 DEF Close
  <2>6. CASE Arm(s)
    BY <2>6 DEF Arm, ServerInv
  <2> QED BY <1>6, <2>1, <2>2, <2>3, <2>4, <2>5, <2>6 DEF OwnerStep, AcceptConnection
<1>7. CASE UNCHANGED vars
  BY <1>7 DEF vars
<1> QED
  BY <1>2, <1>3, <1>4, <1>5, <1>6, <1>7 DEF Next

\* With the order of visensor-srv every step keeps the server's variables in agreement.
LEMMA NextServerInv ==
    ASSUME AcceptNext = VisensorOrder, TInv, [Next]_vars, NEW t \in Servers
    PROVE  ServerInv(t)'
<1> USE TcpAssumption
<1>0. /\ ServerInv(t) /\ TypeOK
      /\ AcceptNext["send"] = "flag" /\ AcceptNext["flag"] = "close"
      /\ AcceptNext["close"] = "arm" /\ AcceptNext["arm"] = "idle"
  BY DEF TInv, VisensorOrder
<1>1. ASSUME ProcessEnds PROVE ServerInv(t)'
  BY <1>1 DEF ProcessEnds, ServerInv, AllServers
<1>2. CASE Start
  BY <1>0, <1>2 DEF Start, ServerInv, AllServers
<1>3. CASE Stop
  BY <1>1, <1>3 DEF Stop
<1>4. ASSUME NEW c \in Clients, Connect(c) \/ Fin(c) \/ Rst(c) \/ RstArrives(c) PROVE ServerInv(t)'
  BY <1>0, <1>4 DEF Connect, Fin, Rst, RstArrives, server, ServerInv
<1>5. ASSUME NEW s \in Servers, IoStep(s) \/ AcceptError(s) PROVE ServerInv(t)'
  <2>1. CASE AcceptDone(s)
    <3>1. Head(backlog[s]) \in Clients
      BY <2>1, <1>0 DEF AcceptDone, TypeOK
    <3> QED BY <2>1, <3>1, <1>0 DEF AcceptDone, TypeOK, ServerInv
  <2>2. CASE HandleAccept(s)
    BY <2>2, <1>0 DEF HandleAccept, TypeOK, ServerInv
  <2>3. CASE HandleAcceptThrows(s)
    BY <1>1, <2>3 DEF HandleAcceptThrows
  <2>4. CASE AcceptError(s)
    BY <2>4, <1>0 DEF AcceptError, TypeOK, ServerInv
  <2> QED BY <1>5, <2>1, <2>2, <2>3, <2>4 DEF IoStep
<1>6. ASSUME NEW s \in Servers, OwnerStep(s) PROVE ServerInv(t)'
  <2>1. CASE SendCall(s)
    BY <2>1, <1>0 DEF SendCall, TypeOK, ServerInv
  <2>2. CASE SendOk(s)
    BY <2>2, <1>0 DEF SendOk, TypeOK, ServerInv
  <2>3. CASE SendThrows(s)
    BY <2>3, <1>0 DEF SendThrows, TypeOK, ServerInv
  <2>4. CASE ClearFlag(s)
    BY <2>4, <1>0 DEF ClearFlag, TypeOK, ServerInv
  <2>5. CASE Close(s)
    BY <2>5, <1>0 DEF Close, TypeOK, ServerInv
  <2>6. CASE Arm(s)
    BY <2>6, <1>0 DEF Arm, TypeOK, ServerInv
  <2> QED BY <1>6, <2>1, <2>2, <2>3, <2>4, <2>5, <2>6 DEF OwnerStep, AcceptConnection
<1>7. CASE UNCHANGED vars
  BY <1>0, <1>7 DEF vars, ServerInv
<1> QED
  BY <1>2, <1>3, <1>4, <1>5, <1>6, <1>7 DEF Next

\* The invariant holds in every reachable state.
LEMMA TInvariance == AcceptNext = VisensorOrder => (Spec => []TInv)
<1> SUFFICES ASSUME AcceptNext = VisensorOrder PROVE Spec => []TInv
  OBVIOUS
<1>1. TInv /\ [Next]_vars => TInv'
  BY NextTypeOK, NextServerInv DEF TInv
<1> QED BY <1>1, InitTInv, PTL DEF Spec

\* Type correctness of the servers; in particular async_accept() never gets an open socket.
THEOREM TcpTypeCorrect == AcceptNext = VisensorOrder => (Spec => []TypeOK)
<1> SUFFICES ASSUME AcceptNext = VisensorOrder PROVE Spec => []TypeOK
  OBVIOUS
<1>1. TInv => TypeOK
  BY DEF TInv
<1> QED BY <1>1, TInvariance, PTL

\* With the flag cleared first, a server never goes deaf through a race of its threads.
THEOREM NeverDeaf == AcceptNext = VisensorOrder => (Spec => []ListenOrServe)
<1> SUFFICES ASSUME AcceptNext = VisensorOrder PROVE Spec => []ListenOrServe
  OBVIOUS
<1>1. TInv => ListenOrServe
  BY DEF TInv, ServerInv, ListenOrServe
<1> QED BY <1>1, TInvariance, PTL

\* With the flag cleared first, io thread and owner never use socket_ at the same time.
THEOREM SocketNeverShared == AcceptNext = VisensorOrder => (Spec => []SocketExclusive)
<1> SUFFICES ASSUME AcceptNext = VisensorOrder PROVE Spec => []SocketExclusive
  OBVIOUS
<1>1. TInv => SocketExclusive
  BY DEF TInv, TypeOK, ServerInv, SocketExclusive
<1> QED BY <1>1, TInvariance, PTL
-----------------------------------------------------------------------------
(* What accept_connection() closes.                                        *)

\* The clients of a server's backlog, and the one socket_ is connected to, are clients of that
\* server: two servers never hold the same connection.
OwnClients(s) ==
    /\ \A i \in 1 .. Len(backlog[s]) : Target[backlog[s][i]] = s
    /\ sock[s] # NoOne => Target[sock[s]] = s

\* From the send that threw to the close, socket_ stays the connection that was reset.
ClosesDead(s) == call[s] \in {"flag", "close"} => sock[s] # NoOne /\ peer[sock[s]] = "rst"

CloseInv == \A s \in Servers : OwnClients(s) /\ ClosesDead(s)

\* Nobody is connected at the start.
LEMMA InitCloseInv == Init => CloseInv
<1> SUFFICES ASSUME Init, NEW s \in Servers PROVE OwnClients(s) /\ ClosesDead(s)
  BY DEF CloseInv
<1>1. backlog[s] = <<>> /\ sock[s] = NoOne /\ call[s] = "idle"
  BY DEF Init, AllServers
<1> QED BY <1>1 DEF OwnClients, ClosesDead

\* A connection joins the backlog of its own target and leaves it for that server's socket_.
LEMMA NextOwnClients ==
    ASSUME TInv, CloseInv, [Next]_vars, NEW t \in Servers
    PROVE  OwnClients(t)'
<1>0. TypeOK /\ OwnClients(t) /\ backlog[t] \in Seq(Clients)
  BY DEF TInv, CloseInv, TypeOK
<1>1. ASSUME ProcessEnds PROVE OwnClients(t)'
  BY <1>1 DEF ProcessEnds, AllServers, OwnClients
<1>2. ASSUME sock'[t] \in {sock[t], NoOne}, backlog'[t] = backlog[t] PROVE OwnClients(t)'
  BY <1>0, <1>2 DEF OwnClients
<1>3. CASE Start \/ UNCHANGED vars
  BY <1>2, <1>3 DEF Start, vars
<1>4. CASE Stop
  BY <1>1, <1>4 DEF Stop
<1>5. ASSUME NEW c \in Clients, Connect(c) PROVE OwnClients(t)'
  <2>1. /\ sock' = sock
        /\ backlog' = [backlog EXCEPT ![Target[c]] = Append(@, c)]
        /\ backlog \in [Servers -> Seq(Clients)]
    BY <1>0, <1>5 DEF Connect, server, TypeOK
  <2>2. CASE Target[c] # t
    BY <1>2, <2>1, <2>2
  <2>3. CASE Target[c] = t
    <3> DEFINE q == backlog[t]
    <3>1. /\ backlog'[t] = Append(q, c) /\ Len(backlog'[t]) = Len(q) + 1 /\ Len(q) \in Nat
          /\ \A i \in 1 .. Len(q) : backlog'[t][i] = q[i]
          /\ backlog'[t][Len(q) + 1] = c
      BY <1>0, <2>1, <2>3
    <3>2. \A i \in 1 .. Len(q) : Target[q[i]] = t
      BY <1>0 DEF OwnClients
    <3> HIDE DEF q
    <3>3. \A i \in 1 .. Len(backlog'[t]) : i \in 1 .. Len(q) \/ i = Len(q) + 1
      BY <3>1
    <3>4. \A i \in 1 .. Len(backlog'[t]) : Target[backlog'[t][i]] = t
      BY <2>3, <3>1, <3>2, <3>3
    <3> QED BY <1>0, <2>1, <3>4 DEF OwnClients
  <2> QED BY <2>2, <2>3
<1>6. ASSUME NEW c \in Clients, Fin(c) \/ Rst(c) \/ RstArrives(c) PROVE OwnClients(t)'
  BY <1>2, <1>6 DEF Fin, Rst, RstArrives, server
<1>7. ASSUME NEW s \in Servers, AcceptDone(s) PROVE OwnClients(t)'
  <2>1. /\ sock' = [sock EXCEPT ![s] = Head(backlog[s])]
        /\ backlog' = [backlog EXCEPT ![s] = Tail(@)] /\ backlog[s] # <<>>
        /\ sock \in [Servers -> Clients \cup {NoOne}] /\ backlog \in [Servers -> Seq(Clients)]
    BY <1>0, <1>7 DEF AcceptDone, TypeOK
  <2>2. CASE s # t
    BY <1>2, <2>1, <2>2
  <2>3. CASE s = t
    <3> DEFINE q == backlog[t]
    <3>1. /\ sock'[t] = q[1] /\ backlog'[t] = Tail(q) /\ Len(q) \in Nat /\ Len(q) >= 1
          /\ Len(backlog'[t]) = Len(q) - 1
          /\ \A i \in 1 .. Len(q) - 1 : backlog'[t][i] = q[i + 1]
      BY <1>0, <2>1, <2>3
    <3>2. \A i \in 1 .. Len(q) : Target[q[i]] = t
      BY <1>0 DEF OwnClients
    <3> HIDE DEF q
    <3>3. Target[sock'[t]] = t
      BY <3>1, <3>2
    <3>4. \A i \in 1 .. Len(backlog'[t]) : i + 1 \in 1 .. Len(q) /\ backlog'[t][i] = q[i + 1]
      BY <3>1
    <3> QED BY <3>2, <3>3, <3>4 DEF OwnClients
  <2> QED BY <2>2, <2>3
<1>8. ASSUME NEW s \in Servers, HandleAccept(s) \/ AcceptError(s) PROVE OwnClients(t)'
  BY <1>2, <1>8 DEF HandleAccept, AcceptError
<1>9. ASSUME NEW s \in Servers, HandleAcceptThrows(s) PROVE OwnClients(t)'
  BY <1>1, <1>9 DEF HandleAcceptThrows
<1>10. ASSUME NEW s \in Servers, OwnerStep(s) PROVE OwnClients(t)'
  <2>1. CASE SendCall(s) \/ SendOk(s) \/ SendThrows(s) \/ ClearFlag(s) \/ Arm(s)
    BY <1>2, <2>1 DEF SendCall, SendOk, SendThrows, ClearFlag, Arm
  <2>2. CASE Close(s)
    BY <1>0, <1>2, <2>2 DEF Close, TypeOK
  <2> QED BY <1>10, <2>1, <2>2 DEF OwnerStep, AcceptConnection
<1> QED
  BY <1>3, <1>4, <1>5, <1>6, <1>7, <1>8, <1>9, <1>10 DEF Next, IoStep

\* No step of the io thread, of a client or of another server replaces or revives the
\* connection that is about to be closed.
LEMMA NextClosesDead ==
    ASSUME AcceptNext = VisensorOrder, TInv, CloseInv, [Next]_vars, NEW t \in Servers
    PROVE  ClosesDead(t)'
<1>0. /\ TypeOK /\ ServerInv(t) /\ OwnClients(t) /\ ClosesDead(t)
      /\ AcceptNext["send"] = "flag" /\ AcceptNext["flag"] = "close"
      /\ AcceptNext["close"] = "arm" /\ AcceptNext["arm"] = "idle"
  BY DEF TInv, CloseInv, VisensorOrder
<1>1. ASSUME ProcessEnds PROVE ClosesDead(t)'
  BY <1>1 DEF ProcessEnds, AllServers, ClosesDead
<1>2. ASSUME call'[t] = call[t], sock'[t] = sock[t],
             \A c \in Clients : peer[c] = "rst" => peer'[c] = "rst"
      PROVE  ClosesDead(t)'
  BY <1>0, <1>2 DEF ClosesDead, TypeOK
<1>3. CASE Start \/ UNCHANGED vars
  BY <1>2, <1>3 DEF Start, vars
<1>4. CASE Stop
  BY <1>1, <1>4 DEF Stop
<1>5. ASSUME NEW c \in Clients, Connect(c) \/ Fin(c) \/ Rst(c) \/ RstArrives(c) PROVE ClosesDead(t)'
  BY <1>0, <1>2, <1>5 DEF Connect, Fin, Rst, RstArrives, server, TypeOK
<1>6. ASSUME NEW s \in Servers, AcceptDone(s) PROVE ClosesDead(t)'
  <2>1. CASE s = t
    BY <1>0, <1>6, <2>1 DEF AcceptDone, ServerInv, ClosesDead
  <2>2. CASE s # t
    BY <1>0, <1>2, <1>6, <2>2 DEF AcceptDone, TypeOK
  <2> QED BY <2>1, <2>2
<1>7. ASSUME NEW s \in Servers, HandleAccept(s) \/ AcceptError(s) PROVE ClosesDead(t)'
  BY <1>2, <1>7 DEF HandleAccept, AcceptError
<1>8. ASSUME NEW s \in Servers, HandleAcceptThrows(s) PROVE ClosesDead(t)'
  BY <1>1, <1>8 DEF HandleAcceptThrows
<1>9. ASSUME NEW s \in Servers, OwnerStep(s) PROVE ClosesDead(t)'
  <2>1. CASE SendCall(s)
    BY <1>0, <2>1 DEF SendCall, TypeOK, ClosesDead
  <2>2. CASE SendOk(s)
    <3>1. \A c \in Clients : peer[c] = "rst" => peer'[c] = "rst"
      BY <1>0, <2>2 DEF SendOk, TypeOK
    <3> QED BY <1>0, <2>2, <3>1 DEF SendOk, TypeOK, ClosesDead
  <2>3. CASE SendThrows(s)
    BY <1>0, <2>3 DEF SendThrows, SendThrowsNow, ServerInv, TypeOK, ClosesDead
  <2>4. CASE ClearFlag(s)
    BY <1>0, <2>4 DEF ClearFlag, TypeOK, ClosesDead
  <2>5. CASE Close(s)
    <3>1. CASE s = t
      BY <1>0, <2>5, <3>1 DEF Close, TypeOK, ClosesDead
    <3>2. CASE s # t
      <4>1. sock[t] # NoOne => sock[s] # sock[t] /\ sock[t] \in Clients
        BY <1>0, <3>2 DEF CloseInv, OwnClients, TypeOK
      <4> QED BY <1>0, <2>5, <3>2, <4>1 DEF Close, TypeOK, ClosesDead
    <3> QED BY <3>1, <3>2
  <2>6. CASE Arm(s)
    BY <1>0, <2>6 DEF Arm, TypeOK, ClosesDead
  <2> QED BY <1>9, <2>1, <2>2, <2>3, <2>4, <2>5, <2>6 DEF OwnerStep, AcceptConnection
<1> QED
  BY <1>3, <1>4, <1>5, <1>6, <1>7, <1>8, <1>9 DEF Next, IoStep

\* Only close() takes a client's connection away, and then the connection is dead.
LEMMA LiveStep ==
    ASSUME TypeOK, CloseInv, [Next]_vars, up, up', NEW c \in Clients,
           peer[c] # "idle", peer'[c] = "idle"
    PROVE  peer[c] = "rst"
<1>0. peer \in [Clients -> {"idle", "open"} \cup Gone]
  BY DEF TypeOK
<1>1. ~ProcessEnds
  BY DEF ProcessEnds
<1>2. peer' # peer
  OBVIOUS
<1>3. ASSUME NEW d \in Clients, Connect(d) \/ Fin(d) \/ Rst(d) \/ RstArrives(d) PROVE FALSE
  BY <1>0, <1>3 DEF Connect, Fin, Rst, RstArrives
<1>4. ASSUME NEW s \in Servers, SendOk(s) PROVE FALSE
  BY <1>0, <1>4 DEF SendOk
<1>5. ASSUME NEW s \in Servers, Close(s) PROVE peer[c] = "rst"
  <2>1. c = sock[s] /\ call[s] = "close"
    BY <1>5 DEF Close
  <2> QED BY <2>1 DEF CloseInv, ClosesDead
<1>6. ASSUME NEW s \in Servers, IoStep(s) \/ AcceptError(s) PROVE FALSE
  BY <1>1, <1>2, <1>6 DEF IoStep, AcceptDone, HandleAccept, HandleAcceptThrows, AcceptError
<1>7. ASSUME NEW s \in Servers, SendCall(s) \/ SendThrows(s) \/ ClearFlag(s) \/ Arm(s) PROVE FALSE
  BY <1>2, <1>7 DEF SendCall, SendThrows, ClearFlag, Arm
<1> QED
  BY <1>1, <1>2, <1>3, <1>4, <1>5, <1>6, <1>7
     DEF Next, Start, Stop, OwnerStep, AcceptConnection, vars

\* With the flag cleared first, a running server closes only connections that were reset,
\* whatever the io thread accepts between the failing send and the close.
THEOREM NeverClosesLive == AcceptNext = VisensorOrder => (Spec => LiveClientKept)
<1> SUFFICES ASSUME AcceptNext = VisensorOrder PROVE Spec => LiveClientKept
  OBVIOUS
<1>1. TInv /\ CloseInv /\ [Next]_vars => CloseInv'
  BY NextOwnClients, NextClosesDead DEF CloseInv
<1>2. TInv /\ CloseInv /\ [Next]_vars =>
        [up /\ up' => \A c \in Clients : peer[c] # "idle" /\ peer'[c] = "idle" => peer[c] = "rst"]_vars
  BY LiveStep DEF TInv
<1> QED BY <1>1, <1>2, InitCloseInv, TInvariance, PTL DEF Spec, LiveClientKept
=============================================================================
