-------------------------- MODULE PahoPartsProofs ---------------------------
(***************************************************************************)
(* The flags of the client wrapper, the automatic reconnect, the keep      *)
(* alive and the memory of pending writes, for all intervals, any packets  *)
(* and any number of faults of the network.                                *)
(***************************************************************************)
EXTENDS MqttConnection, MqttKeepalive, SocketWrite, SequenceTheorems, TLAPS

Command ==
    [type : {"CONNECT"}, version : Versions, age : Nat] \cup {DISCONNECT, SUBSCRIBE}

StatusOK == status \in [connected : BOOLEAN, hasEverConnected : BOOLEAN, subscribed : BOOLEAN]
ClientOK == c \in [connected : BOOLEAN, connect_state : {0, 1, 3}]
ConnectOK == connect \in [version : Versions, age : Nat]
RetryOK ==
    /\ retry \in [shouldBeConnected : BOOLEAN, retrying : BOOLEAN, interval : Nat, since : Nat]
    /\ retry.shouldBeConnected
CommandsOK == commands \in Seq(Command)
NetOK == net \in [link : {"none", "syn", "open", "broken", "dead"}, age : Nat,
                  out : Seq({"CONNECT", "SUBSCRIBE"}), in : Seq({"CONNACK", "REFUSED", "SUBACK"})]

Shapes == StatusOK /\ ClientOK /\ ConnectOK /\ RetryOK /\ CommandsOK /\ NetOK

-----------------------------------------------------------------------------
\* The queue of commands.

HasConnect(s) == \E i \in 1 .. Len(s) : s[i].type = "CONNECT"

LEMMA CommandTypes ==
    /\ \A v \in Versions, a \in Nat : CONNECT(v, a) \in Command /\ CONNECT(v, a).type = "CONNECT"
    /\ DISCONNECT \in Command /\ DISCONNECT.type = "DISCONNECT"
    /\ SUBSCRIBE \in Command /\ SUBSCRIBE.type = "SUBSCRIBE"
    /\ \A e \in Command :
          e.type = "CONNECT" => e \in [type : {"CONNECT"}, version : Versions, age : Nat]
  BY DEF Command, CONNECT, DISCONNECT, SUBSCRIBE

LEMMA Prepended ==
    ASSUME NEW s \in Seq(Command), NEW e \in Command
    PROVE  /\ <<e>> \o s \in Seq(Command)
           /\ HasConnect(s) \/ e.type = "CONNECT" => HasConnect(<<e>> \o s)
  <1>1. <<e>> \in Seq(Command) /\ Len(<<e>>) = 1 /\ <<e>>[1] = e
    OBVIOUS
  <1>2. /\ <<e>> \o s \in Seq(Command) /\ Len(<<e>> \o s) = 1 + Len(s) /\ Len(s) \in Nat
        /\ \A i \in 1 .. 1 + Len(s) : (<<e>> \o s)[i] = IF i <= 1 THEN <<e>>[i] ELSE s[i - 1]
    BY <1>1, ConcatProperties
  <1>3. (<<e>> \o s)[1] = e /\ 1 \in 1 .. 1 + Len(s)
    BY <1>1, <1>2
  <1>4. ASSUME NEW i \in 1 .. Len(s) PROVE (<<e>> \o s)[i + 1] = s[i] /\ i + 1 \in 1 .. 1 + Len(s)
    BY <1>1, <1>2
  <1> QED BY Zenon, <1>2, <1>3, <1>4 DEF HasConnect

LEMMA Appended ==
    ASSUME NEW s \in Seq(Command), NEW e \in Command
    PROVE  Append(s, e) \in Seq(Command) /\ (HasConnect(s) => HasConnect(Append(s, e)))
  <1>1. /\ Append(s, e) \in Seq(Command) /\ Len(Append(s, e)) = Len(s) + 1 /\ Len(s) \in Nat
        /\ \A i \in 1 .. Len(s) : Append(s, e)[i] = s[i]
    BY AppendProperties
  <1> QED BY <1>1 DEF HasConnect

LEMMA Removed ==
    ASSUME NEW s \in Seq(Command), s # <<>>
    PROVE  /\ Tail(s) \in Seq(Command) /\ Head(s) \in Command
           /\ HasConnect(s) => HasConnect(Tail(s)) \/ Head(s).type = "CONNECT"
           /\ Tail(s) # <<>> /\ Head(Tail(s)).type = "CONNECT" => HasConnect(Tail(s))
  <1>1. /\ Tail(s) \in Seq(Command) /\ Head(s) \in Command /\ Head(s) = s[1]
        /\ Len(Tail(s)) = Len(s) - 1 /\ Len(s) \in Nat
        /\ \A i \in 1 .. Len(Tail(s)) : Tail(s)[i] = s[i + 1]
    BY HeadTailProperties
  <1>2. ASSUME NEW i \in 1 .. Len(s), i # 1
        PROVE  i - 1 \in 1 .. Len(Tail(s)) /\ Tail(s)[i - 1] = s[i]
    BY <1>1, <1>2
  <1>3. HasConnect(s) => HasConnect(Tail(s)) \/ Head(s).type = "CONNECT"
    BY Zenon, <1>1, <1>2 DEF HasConnect
  <1>4. ASSUME Tail(s) # <<>>
        PROVE  Head(Tail(s)) = Tail(s)[1] /\ 1 \in 1 .. Len(Tail(s))
    BY <1>1, <1>4, EmptySeq
  <1> QED BY Zenon, <1>1, <1>3, <1>4 DEF HasConnect

\* MQTTAsync_addCommand loses no CONNECT, and after one was added there is one.
LEMMA Added ==
    ASSUME CommandsOK, NEW e \in Command
    PROVE  /\ addCommand(e) \in Seq(Command)
           /\ HasConnect(commands) \/ e.type = "CONNECT" => HasConnect(addCommand(e))
  <1>1. /\ <<e>> \o commands \in Seq(Command)
        /\ HasConnect(commands) \/ e.type = "CONNECT" => HasConnect(<<e>> \o commands)
    BY Zenon, Prepended DEF CommandsOK
  <1>2. /\ Append(commands, e) \in Seq(Command)
        /\ HasConnect(commands) => HasConnect(Append(commands, e))
    BY Zenon, Appended DEF CommandsOK
  <1>3. ASSUME commands # <<>>, Head(commands).type = "CONNECT" PROVE HasConnect(commands)
    <2>1. Head(commands) = commands[1] /\ 1 \in 1 .. Len(commands)
      BY <1>3, EmptySeq DEF CommandsOK
    <2> QED BY Zenon, <1>3, <2>1 DEF HasConnect
  <1> QED BY Zenon, <1>1, <1>2, <1>3 DEF addCommand, CommandsOK

LEMMA AddedAgain ==
    ASSUME CommandsOK, commands # <<>>, NEW e \in Command
    PROVE  /\ addAgain(e) \in Seq(Command)
           /\ e.type = "CONNECT" => HasConnect(addAgain(e))
  <1>1. /\ Tail(commands) \in Seq(Command)
        /\ Tail(commands) # <<>> /\ Head(Tail(commands)).type = "CONNECT"
              => HasConnect(Tail(commands))
    BY Zenon, Removed DEF CommandsOK
  <1>2. /\ <<e>> \o Tail(commands) \in Seq(Command)
        /\ e.type = "CONNECT" => HasConnect(<<e>> \o Tail(commands))
    BY Zenon, <1>1, Prepended
  <1> QED BY Zenon, <1>1, <1>2 DEF addAgain

-----------------------------------------------------------------------------
\* The wrapper's flag and the retry.

ConnInv ==
    /\ Shapes
    /\ c.connect_state # 0 => ~c.connected
    /\ FlagFollowsClient
    /\ ~c.connected /\ c.connect_state = 0 => retry.retrying \/ HasConnect(commands)

LEMMA RetryStarted ==
    ASSUME RetryOK, retry' = startConnectRetry
    PROVE  RetryOK' /\ retry'.retrying
  <1> DEFINE i == IF retry.retrying THEN Minimum(2 * retry.interval, MaxRetryInterval)
                  ELSE MinRetryInterval
  <1>1. i \in Nat
    BY TimesAssumption DEF RetryOK, Minimum
  <1>2. retry' = [retry EXCEPT !.since = 0, !.retrying = TRUE, !.interval = i]
    BY Zenon DEF RetryOK, startConnectRetry
  <1> HIDE DEF i
  <1>3. retry' \in [shouldBeConnected : BOOLEAN, retrying : BOOLEAN, interval : Nat, since : Nat]
    <2>1. TRUE \in BOOLEAN /\ 0 \in Nat
      BY Zenon
    <2>2. \A b \in BOOLEAN : [retry EXCEPT !.since = 0, !.retrying = b, !.interval = i] \in
             [shouldBeConnected : BOOLEAN, retrying : BOOLEAN, interval : Nat, since : Nat]
      BY Zenon, <1>1 DEF RetryOK
    <2> QED BY Zenon, <1>2, <2>1, <2>2
  <1>4. retry'.shouldBeConnected = retry.shouldBeConnected /\ retry'.retrying = TRUE
    BY Zenon, <1>2 DEF RetryOK
  <1> QED BY Zenon, <1>3, <1>4 DEF RetryOK

LEMMA SessionClosed ==
    ASSUME closeSession
    PROVE  ClientOK' /\ NetOK' /\ ~c'.connected /\ c'.connect_state = 0
  BY Zenon, EmptySeq DEF closeSession, Disconnected, Closed, ClientOK, NetOK

\* An attempt that fails, in whichever way: it was no connection, and what follows is
\* the next version or a retry.
LEMMA AttemptFails ==
    ASSUME ConnInv, nextOrClose, c.connect_state # 0
    PROVE  ConnInv'
  <1>1. ClientOK' /\ NetOK' /\ ~c'.connected /\ c'.connect_state = 0 /\ ConnectOK'
    BY Zenon, SessionClosed DEF nextOrClose, ConnInv, Shapes, ConnectOK
  <1>2. status.connected = FALSE
    BY Zenon DEF ConnInv, Shapes, ClientOK, StatusOK, FlagFollowsClient
  <1>3. CASE checkConn(connect.version)
    <2>1. CONNECT(connect.version, 0) \in Command /\ CONNECT(connect.version, 0).type = "CONNECT"
      BY Zenon, CommandTypes DEF ConnInv, Shapes, ConnectOK
    <2>2. commands' \in Seq(Command) /\ HasConnect(commands')
      BY Zenon, <1>3, <2>1, Added DEF nextOrClose, ConnInv, Shapes
    <2>3. UNCHANGED <<status, retry>>
      BY Zenon, <1>3 DEF nextOrClose
    <2> QED
      BY Zenon, <1>1, <1>2, <2>2, <2>3
         DEF ConnInv, Shapes, StatusOK, ClientOK, RetryOK, CommandsOK, FlagFollowsClient
  <1>4. CASE ~checkConn(connect.version)
    <2>1. RetryOK' /\ retry'.retrying
      BY Zenon, <1>4, RetryStarted DEF nextOrClose, ConnInv, Shapes
    <2>2. StatusOK' /\ status'.connected = FALSE /\ UNCHANGED commands
      BY Zenon, <1>4 DEF nextOrClose, on_connect_failure, ConnInv, Shapes, StatusOK
    <2> QED
      BY Zenon, <1>1, <2>1, <2>2 DEF ConnInv, Shapes, ClientOK, CommandsOK, FlagFollowsClient
  <1> QED BY Zenon, <1>3, <1>4

\* Only the queue grows.
LEMMA QueueGrows ==
    ASSUME ConnInv, UNCHANGED <<status, c, connect, retry, net>>,
           commands' \in Seq(Command), HasConnect(commands) => HasConnect(commands')
    PROVE  ConnInv'
  BY Zenon DEF ConnInv, Shapes, StatusOK, ClientOK, ConnectOK, RetryOK, CommandsOK, NetOK,
         FlagFollowsClient

LEMMA ProcessCommandKeeps == ASSUME ConnInv, ProcessCommand PROVE ConnInv'
  <1> DEFINE cmd == Head(commands)
  <1>1. /\ commands # <<>> /\ commands \in Seq(Command) /\ Tail(commands) \in Seq(Command)
        /\ cmd \in Command
        /\ HasConnect(commands) => HasConnect(Tail(commands)) \/ cmd.type = "CONNECT"
    BY Zenon, Removed DEF ProcessCommand, ConnInv, Shapes, CommandsOK
  <1>2. cmd.type = "CONNECT" => cmd \in [type : {"CONNECT"}, version : Versions, age : Nat]
    BY Zenon, <1>1, CommandTypes
  <1> HIDE DEF cmd
  <1>3. CASE cmd.type = "CONNECT" /\ ConnectAgain(cmd)
    BY Zenon, <1>1, <1>2, <1>3
       DEF ConnectAgain, ConnInv, Shapes, StatusOK, ClientOK, ConnectOK, RetryOK, CommandsOK,
           NetOK, FlagFollowsClient
  <1>4. CASE cmd.type = "CONNECT" /\ ConnectStarts(cmd)
    <2>1. ConnectOK'
      BY Zenon, <1>2, <1>4 DEF ConnectStarts, ConnectOK, NextVersion, Versions
    <2>2. ClientOK' /\ c'.connect_state # 0 /\ c'.connected = c.connected /\ ~c.connected
      BY <1>4 DEF ConnectStarts, ConnInv, Shapes, ClientOK
    <2>3. NetOK'
      <3>1. <<"CONNECT">> \in Seq({"CONNECT", "SUBSCRIBE"})
        OBVIOUS
      <3>2. CASE net' = [Closed EXCEPT !.link = "syn"]
        BY Zenon, <3>2, EmptySeq DEF Closed, NetOK
      <3>3. CASE net' = [Closed EXCEPT !.link = "open", !.out = <<"CONNECT">>]
        BY Zenon, <3>1, <3>3, EmptySeq DEF Closed, NetOK
      <3> QED BY Zenon, <1>4, <3>2, <3>3 DEF ConnectStarts
    <2>4. commands' = Tail(commands) /\ UNCHANGED <<status, retry>>
      BY Zenon, <1>4 DEF ConnectStarts
    <2> QED
      BY Zenon, <1>1, <2>1, <2>2, <2>3, <2>4
         DEF ConnInv, Shapes, StatusOK, ClientOK, RetryOK, CommandsOK, FlagFollowsClient
  <1>5. CASE cmd.type = "CONNECT" /\ ConnectFails(cmd)
    <2>1. NextVersion(cmd.version) \in Versions /\ cmd.age \in Nat
      BY Zenon, <1>2, <1>5 DEF NextVersion, Versions
    <2>2. UNCHANGED <<c, net>> /\ status.connected = FALSE
      BY Zenon, <1>5 DEF ConnectFails, ConnInv, Shapes, StatusOK, ClientOK, FlagFollowsClient
    <2>3. CASE checkConn(NextVersion(cmd.version))
      <3>1. /\ CONNECT(NextVersion(cmd.version), 0) \in Command
            /\ CONNECT(NextVersion(cmd.version), 0).type = "CONNECT"
        BY Zenon, <2>1, CommandTypes
      <3>2. commands' \in Seq(Command) /\ HasConnect(commands')
        BY Zenon, <1>1, <1>5, <2>3, <3>1, AddedAgain DEF ConnectFails, CommandsOK
      <3>3. UNCHANGED <<status, connect, retry>>
        BY Zenon, <1>5, <2>3 DEF ConnectFails
      <3> QED BY Zenon, <2>2, <3>2, <3>3, QueueGrows
    <2>4. CASE ~checkConn(NextVersion(cmd.version))
      <3>1. RetryOK' /\ retry'.retrying
        BY Zenon, <1>5, <2>4, RetryStarted DEF ConnectFails, ConnInv, Shapes
      <3>2. StatusOK' /\ status'.connected = FALSE /\ commands' = Tail(commands)
        BY Zenon, <1>5, <2>4 DEF ConnectFails, on_connect_failure, ConnInv, Shapes, StatusOK
      <3>3. ConnectOK'
        BY <1>5, <2>1, <2>4 DEF ConnectFails, ConnectOK
      <3> QED
        BY Zenon, <1>1, <2>2, <3>1, <3>2, <3>3
           DEF ConnInv, Shapes, ClientOK, CommandsOK, NetOK, FlagFollowsClient
    <2> QED BY Zenon, <2>3, <2>4
  <1>6. CASE cmd.type = "DISCONNECT" /\ Disconnect
    <2>1. CASE c.connected \/ c.connect_state # 0
      <3>1. ClientOK' /\ NetOK' /\ ~c'.connected /\ c'.connect_state = 0
        BY Zenon, <1>6, <2>1, SessionClosed DEF Disconnect
      <3>2. RetryOK' /\ retry'.retrying
        BY Zenon, <1>6, <2>1, RetryStarted DEF Disconnect, ConnInv, Shapes
      <3>3. StatusOK' /\ status'.connected = FALSE
        BY Zenon, <1>6, <2>1
           DEF Disconnect, on_connect_failure, on_connection_lost, ConnInv, Shapes, StatusOK
      <3>4. commands' = Tail(commands) /\ UNCHANGED connect
        BY Zenon, <1>6 DEF Disconnect
      <3> QED
        BY Zenon, <1>1, <3>1, <3>2, <3>3, <3>4
           DEF ConnInv, Shapes, ClientOK, ConnectOK, CommandsOK, FlagFollowsClient
    <2>2. CASE ~(c.connected \/ c.connect_state # 0)
      <3>1. UNCHANGED <<status, c, connect, retry, net>> /\ commands' = Tail(commands)
        BY Zenon, <1>6, <2>2 DEF Disconnect
      <3> QED BY Zenon, <1>1, <1>6, <3>1, QueueGrows
    <2> QED BY Zenon, <2>1, <2>2
  <1>7. CASE cmd.type = "SUBSCRIBE" /\ Subscribe
    <2>1. UNCHANGED <<c, connect, retry>> /\ c.connected
      BY Zenon, <1>7 DEF Subscribe
    <2>2. CASE net.link = "broken"
      <3>1. commands' \in Seq(Command)
        BY Zenon, <1>1, <1>7, <2>2, AddedAgain, CommandTypes DEF Subscribe, CommandsOK
      <3>2. StatusOK' /\ status'.connected = status.connected /\ UNCHANGED net
        BY Zenon, <1>7, <2>2 DEF Subscribe, on_subscribe_failure, ConnInv, Shapes, StatusOK
      <3> QED
        BY Zenon, <2>1, <3>1, <3>2
           DEF ConnInv, Shapes, ClientOK, ConnectOK, RetryOK, CommandsOK, NetOK,
               FlagFollowsClient
    <2>3. CASE net.link # "broken"
      <3>1. commands' = Tail(commands) /\ net' = Sent(net, "SUBSCRIBE") /\ UNCHANGED status
        BY Zenon, <1>7, <2>3 DEF Subscribe
      <3>2. NetOK'
        BY Zenon, <3>1, AppendProperties DEF Sent, ConnInv, Shapes, NetOK
      <3> QED
        BY Zenon, <1>1, <2>1, <3>1, <3>2
           DEF ConnInv, Shapes, StatusOK, ClientOK, ConnectOK, RetryOK, CommandsOK,
               FlagFollowsClient
    <2> QED BY Zenon, <2>2, <2>3
  <1> QED BY Zenon, <1>3, <1>4, <1>5, <1>6, <1>7 DEF ProcessCommand, cmd

LEMMA CheckTimeoutsKeeps == ASSUME ConnInv, CheckTimeouts PROVE ConnInv'
  <1> DEFINE age == Minimum(connect.age + 1, Expired)
             since == Minimum(retry.since + 1, Longest)
             timedOut == c.connect_state # 0 /\ age > ConnectTimeout
  <1>1. age \in Nat /\ since \in Nat
    BY TimesAssumption
       DEF Minimum, Expired, Longest, ConnInv, Shapes, ConnectOK, RetryOK
  <1>2. CASE timedOut
    <2>1. nextOrClose /\ c.connect_state # 0
      BY Zenon, <1>2 DEF CheckTimeouts
    <2> QED BY Zenon, <2>1, AttemptFails
  <1>3. CASE ~timedOut
    <2>1. /\ connect' = [connect EXCEPT !.age = age]
          /\ retry' = [retry EXCEPT !.since = since]
          /\ net' = IF net.link = "syn"
                    THEN [net EXCEPT !.age = Minimum(@ + 1, ConnectTimeout)] ELSE net
          /\ commands' = IF retry.retrying /\ since > retry.interval
                         THEN addCommand(CONNECT(0, IF c.connect_state = 0 THEN 0 ELSE age))
                         ELSE commands
          /\ UNCHANGED <<status, c>>
      BY Zenon, <1>3 DEF CheckTimeouts
    <2> HIDE DEF age, since
    <2>2. ConnectOK'
      BY Zenon, <1>1, <2>1 DEF ConnInv, Shapes, ConnectOK
    <2>3. RetryOK' /\ retry'.retrying = retry.retrying
      BY Zenon, <1>1, <2>1 DEF ConnInv, Shapes, RetryOK
    <2>4. NetOK'
      <3>1. net.age \in Nat /\ Minimum(net.age + 1, ConnectTimeout) \in Nat
        BY TimesAssumption DEF Minimum, ConnInv, Shapes, NetOK
      <3> QED BY Zenon, <2>1, <3>1 DEF ConnInv, Shapes, NetOK
    <2>5. commands' \in Seq(Command) /\ (HasConnect(commands) => HasConnect(commands'))
      <3>1. CONNECT(0, IF c.connect_state = 0 THEN 0 ELSE age) \in Command
        BY Zenon, <1>1, CommandTypes DEF Versions
      <3> QED BY Zenon, <2>1, <3>1, Added DEF ConnInv, Shapes, CommandsOK
    <2> QED
      BY Zenon, <2>1, <2>2, <2>3, <2>4, <2>5
         DEF ConnInv, Shapes, StatusOK, ClientOK, CommandsOK, FlagFollowsClient
  <1> QED BY Zenon, <1>2, <1>3

LEMMA ConnackKeeps == ASSUME ConnInv, ConnackArrives PROVE ConnInv'
  <1>1. c' = [connected |-> TRUE, connect_state |-> 0]
    BY Zenon DEF ConnackArrives
  <1>2. ClientOK' /\ c'.connected = TRUE /\ c'.connect_state = 0
    BY Zenon, <1>1 DEF ClientOK
  <1>3. RetryOK'
    BY Zenon DEF ConnackArrives, ConnInv, Shapes, RetryOK
  <1>4. NetOK'
    <2>1. Tail(net.in) \in Seq({"CONNACK", "REFUSED", "SUBACK"})
      BY Zenon, HeadTailProperties DEF ConnackArrives, ConnInv, Shapes, NetOK
    <2> QED BY Zenon, <2>1 DEF ConnackArrives, ConnInv, Shapes, NetOK
  <1>5. status.connected = FALSE /\ StatusOK
    BY DEF ConnackArrives, ConnInv, Shapes, StatusOK, ClientOK, FlagFollowsClient
  <1>6. status' = [status EXCEPT !.connected = TRUE, !.hasEverConnected = TRUE]
    BY Zenon, <1>5 DEF ConnackArrives, on_connect
  <1>7. StatusOK' /\ status'.connected = TRUE
    <2>1. \A b \in BOOLEAN : [status EXCEPT !.connected = b, !.hasEverConnected = b] \in
             [connected : BOOLEAN, hasEverConnected : BOOLEAN, subscribed : BOOLEAN]
      BY Zenon, <1>5 DEF StatusOK
    <2> QED BY Zenon, <1>5, <1>6, <2>1 DEF StatusOK
  <1>8. CommandsOK'
    BY Zenon, <1>5, Added, CommandTypes DEF ConnackArrives, on_connect, ConnInv, Shapes, CommandsOK
  <1>9. ConnectOK'
    BY Zenon DEF ConnackArrives, ConnInv, Shapes, ConnectOK
  <1> QED
    BY Zenon, <1>2, <1>3, <1>4, <1>7, <1>8, <1>9 DEF ConnInv, Shapes, FlagFollowsClient

\* Only the socket, or the subscribed flag, changes.
LEMMA NetChanges ==
    ASSUME ConnInv, UNCHANGED <<c, connect, retry, commands>>,
           NetOK', StatusOK', status'.connected = status.connected
    PROVE  ConnInv'
  BY Zenon DEF ConnInv, Shapes, ClientOK, ConnectOK, RetryOK, CommandsOK, FlagFollowsClient

LEMMA ReceiveThreadKeeps == ASSUME ConnInv, ReceiveThread PROVE ConnInv'
  <1>1. CASE TcpCompletes
    <2>1. CASE connect.version \in {3, 4}
      <3>1. /\ c' = [c EXCEPT !.connect_state = 3] /\ c.connect_state = 1
            /\ net' = [net EXCEPT !.link = "open", !.age = 0, !.out = <<"CONNECT">>]
            /\ UNCHANGED <<status, connect, retry, commands>>
        BY Zenon, <1>1, <2>1 DEF TcpCompletes
      <3>2. <<"CONNECT">> \in Seq({"CONNECT", "SUBSCRIBE"})
        OBVIOUS
      <3>3. NetOK'
        BY Zenon, <3>1, <3>2 DEF ConnInv, Shapes, NetOK
      <3> QED
        BY <3>1, <3>3
           DEF ConnInv, Shapes, StatusOK, ClientOK, ConnectOK, RetryOK, CommandsOK,
               FlagFollowsClient
    <2> QED BY <1>1, <2>1, AttemptFails DEF TcpCompletes
  <1>2. CASE TcpRefused \/ RefusalArrives
    BY <1>2, AttemptFails DEF TcpRefused, RefusalArrives
  <1>3. CASE ConnackArrives
    BY Zenon, <1>3, ConnackKeeps
  <1>4. CASE SubackArrives
    <2>1. Tail(net.in) \in Seq({"CONNACK", "REFUSED", "SUBACK"})
      BY Zenon, <1>4, HeadTailProperties DEF SubackArrives, ConnInv, Shapes, NetOK
    <2>2. NetOK'
      BY Zenon, <1>4, <2>1 DEF SubackArrives, ConnInv, Shapes, NetOK
    <2>3. StatusOK' /\ status'.connected = status.connected
      BY Zenon, <1>4 DEF SubackArrives, on_subscribe, ConnInv, Shapes, StatusOK
    <2> QED BY Zenon, <1>4, <2>2, <2>3, NetChanges DEF SubackArrives
  <1>5. CASE SocketError
    <2>1. CASE UNCHANGED <<status, c, connect, retry, commands, net>>
      BY Zenon, <2>1, NetChanges DEF ConnInv, Shapes, NetOK, StatusOK
    <2> QED BY Zenon, <1>5, <2>1, AttemptFails DEF SocketError
  <1>6. CASE DisconnectChecks
    BY Zenon, <1>6, NetChanges DEF DisconnectChecks, ConnInv, Shapes, NetOK, StatusOK
  <1>7. CASE DisconnectAdds \/ PingTimesOut
    <2>1. /\ addCommand(DISCONNECT) \in Seq(Command)
          /\ HasConnect(commands) => HasConnect(addCommand(DISCONNECT))
      BY Zenon, Added, CommandTypes DEF ConnInv, Shapes
    <2> QED BY Zenon, <1>7, <2>1, QueueGrows DEF DisconnectAdds, PingTimesOut
  <1> QED BY Zenon, <1>1, <1>2, <1>3, <1>4, <1>5, <1>6, <1>7 DEF ReceiveThread

LEMMA JobKeeps == ASSUME ConnInv, Job PROVE ConnInv'
  <1>1. CASE JobLooks \/ JobLooksAgain
    BY Zenon, <1>1, NetChanges DEF JobLooks, JobLooksAgain, ConnInv, Shapes, NetOK, StatusOK
  <1>2. CASE JobSubscribes
    <2>1. /\ addCommand(SUBSCRIBE) \in Seq(Command)
          /\ HasConnect(commands) => HasConnect(addCommand(SUBSCRIBE))
      BY Zenon, Added, CommandTypes DEF ConnInv, Shapes
    <2> QED BY Zenon, <1>2, <2>1, QueueGrows DEF JobSubscribes, ConnInv, Shapes, CommandsOK
  <1>3. CASE JobConnects
    <2> DEFINE e == CONNECT(0, IF c.connect_state = 0 THEN 0 ELSE Expired)
    <2>1. e \in Command /\ e.type = "CONNECT"
      <3>1. Expired \in Nat
        BY TimesAssumption DEF Expired
      <3> QED BY Zenon, <3>1, CommandTypes DEF Versions
    <2>2. commands' = addCommand(e)
      BY Zenon, <1>3 DEF JobConnects
    <2> HIDE DEF e
    <2>3. CommandsOK' /\ HasConnect(commands')
      BY Zenon, <2>1, <2>2, Added DEF ConnInv, Shapes, CommandsOK
    <2>4. retry' = retry
      BY Zenon, <1>3 DEF JobConnects, ConnInv, Shapes, RetryOK
    <2>5. UNCHANGED <<status, c, connect, net>>
      BY Zenon, <1>3 DEF JobConnects
    <2> QED BY Zenon, <2>3, <2>4, <2>5, QueueGrows DEF CommandsOK
  <1> QED BY Zenon, <1>1, <1>2, <1>3 DEF Job

LEMMA NetworkKeeps == ASSUME ConnInv, Network PROVE ConnInv'
  <1>1. NetOK /\ StatusOK
    BY Zenon DEF ConnInv, Shapes
  <1>2. CASE BrokerAnswers
    <2>1. PICK answer \in {"CONNACK", "REFUSED", "SUBACK"} :
             net' = [net EXCEPT !.out = Tail(@), !.in = Append(@, answer)]
      BY Zenon, <1>2 DEF BrokerAnswers
    <2>2. /\ Tail(net.out) \in Seq({"CONNECT", "SUBSCRIBE"})
          /\ Append(net.in, answer) \in Seq({"CONNACK", "REFUSED", "SUBACK"})
      BY Zenon, <1>1, <1>2, HeadTailProperties, AppendProperties DEF BrokerAnswers, NetOK
    <2>3. NetOK'
      BY Zenon, <1>1, <2>1, <2>2 DEF NetOK
    <2> QED BY Zenon, <1>1, <1>2, <2>3, NetChanges DEF BrokerAnswers, StatusOK
  <1>3. CASE LinkFails \/ BrokerForgets
    <2>1. NetOK'
      BY Zenon, <1>1, <1>3, EmptySeq DEF LinkFails, BrokerForgets, NetOK
    <2> QED BY Zenon, <1>1, <1>3, <2>1, NetChanges DEF LinkFails, BrokerForgets, StatusOK
  <1>4. CASE Stabilises
    BY Zenon, <1>1, <1>4, NetChanges DEF Stabilises, NetOK, StatusOK
  <1> QED BY Zenon, <1>2, <1>3, <1>4 DEF Network

LEMMA ConnInvInit == ASSUME Init PROVE ConnInv
  <1>1. StatusOK /\ ClientOK /\ NetOK
    BY Zenon, EmptySeq DEF Init, Disconnected, Closed, StatusOK, ClientOK, NetOK
  <1>2. ConnectOK /\ RetryOK
    BY TimesAssumption DEF Init, ConnectOK, RetryOK, Versions, Expired, Longest
  <1>3. CONNECT(0, 0) \in Command /\ CONNECT(0, 0).type = "CONNECT"
    BY Zenon, CommandTypes DEF Versions
  <1>4. CommandsOK /\ HasConnect(commands)
    <2>1. commands = <<CONNECT(0, 0)>>
      BY Zenon DEF Init
    <2> QED BY <1>3, <2>1 DEF CommandsOK, HasConnect
  <1>5. FlagFollowsClient /\ c.connect_state = 0
    BY Zenon DEF Init, Disconnected, FlagFollowsClient
  <1> QED BY Zenon, <1>1, <1>2, <1>4, <1>5 DEF ConnInv, Shapes

LEMMA ConnInvStep == ASSUME ConnInv, [Next]_vars PROVE ConnInv'
  <1>1. CASE Waits \/ UNCHANGED vars
    BY Zenon, <1>1, NetChanges DEF Waits, vars, ConnInv, Shapes, NetOK, StatusOK
  <1> QED
    BY Zenon, <1>1, ProcessCommandKeeps, CheckTimeoutsKeeps, ReceiveThreadKeeps, JobKeeps, NetworkKeeps
       DEF Next, SendThread

\* MQTTAsync_startConnectRetry and the fallback to the next version: however attempts
\* fail and connections are lost, for all intervals and any number of faults, a client
\* that is neither connected nor connecting has a CONNECT queued or its retry armed.
THEOREM NeverGivesUp == Spec => []RetryArmed
  <1>1. ConnInv => RetryArmed
    BY Zenon DEF ConnInv, HasConnect, RetryArmed
  <1> QED BY <1>1, ConnInvInit, ConnInvStep, PTL DEF Spec

-----------------------------------------------------------------------------
\* The subscriptions, with a broker that grants them.

\* A SUBACK under way tells the truth, and none is under way but on an open link.
GrantInv ==
    /\ SubscribedIsGranted
    /\ net.link # "open" => net.in = <<>>
    /\ \A i \in 1 .. Len(net.in) : net.in[i] = "SUBACK" => granted

\* The flag may be cleared and the session closed at any time.
LEMMA GrantUnsubscribed ==
    ASSUME GrantInv, UNCHANGED granted, ~status'.subscribed,
           \/ net' = Closed
           \/ net'.in = net.in /\ net'.link = net.link
           \/ net'.in = <<>>
    PROVE  GrantInv'
  BY DEF GrantInv, SubscribedIsGranted, Closed

\* Neither the flag nor what comes from the broker changes.
LEMMA GrantUnchanged ==
    ASSUME GrantInv, UNCHANGED granted, status'.subscribed = status.subscribed,
           net'.in = net.in, net'.link = net.link, c'.connected = c.connected
    PROVE  GrantInv'
  BY Zenon DEF GrantInv, SubscribedIsGranted

LEMMA AttemptUnsubscribed ==
    ASSUME ConnInv, GrantInv, c.connect_state # 0
    PROVE  ~status.subscribed
  BY Zenon DEF ConnInv, GrantInv, SubscribedIsGranted

LEMMA AttemptFailsGranted ==
    ASSUME ConnInv, GrantInv, nextOrClose, c.connect_state # 0, UNCHANGED granted
    PROVE  GrantInv'
  <1>1. ~status'.subscribed
    BY Zenon, AttemptUnsubscribed DEF nextOrClose, on_connect_failure, ConnInv, Shapes, StatusOK
  <1>2. net' = Closed
    BY Zenon DEF nextOrClose, closeSession
  <1> QED BY Zenon, <1>1, <1>2, GrantUnsubscribed

LEMMA SendThreadGrants == ASSUME ConnInv, GrantInv, SendThread PROVE GrantInv'
  <1>1. StatusOK /\ ClientOK /\ NetOK
    BY Zenon DEF ConnInv, Shapes
  <1>2. UNCHANGED granted
    BY Zenon DEF SendThread, ProcessCommand, Waits, CheckTimeouts
  <1>3. ASSUME NEW cmd, ConnectAgain(cmd) PROVE GrantInv'
    BY Zenon, <1>2, <1>3, GrantUnchanged DEF ConnectAgain
  <1>4. ASSUME NEW cmd, ConnectStarts(cmd) PROVE GrantInv'
    <2>1. ~status'.subscribed
      BY Zenon, <1>4 DEF ConnectStarts, GrantInv, SubscribedIsGranted
    <2>2. net'.in = <<>>
      BY Zenon, <1>4 DEF ConnectStarts, Closed
    <2> QED BY Zenon, <1>2, <2>1, <2>2, GrantUnsubscribed
  <1>5. ASSUME NEW cmd, ConnectFails(cmd) PROVE GrantInv'
    <2>1. UNCHANGED <<c, net>> /\ status'.subscribed = status.subscribed
      BY Zenon, <1>1, <1>5 DEF ConnectFails, on_connect_failure, StatusOK
    <2> QED BY Zenon, <1>2, <2>1, GrantUnchanged
  <1>6. CASE Disconnect
    <2>1. CASE c.connected \/ c.connect_state # 0
      <3>1. ~status'.subscribed
        BY Zenon, <1>1, <1>6, <2>1, AttemptUnsubscribed
           DEF Disconnect, on_connect_failure, on_connection_lost, StatusOK
      <3>2. net' = Closed
        BY Zenon, <1>6, <2>1 DEF Disconnect, closeSession
      <3> QED BY Zenon, <1>2, <3>1, <3>2, GrantUnsubscribed
    <2>2. CASE ~(c.connected \/ c.connect_state # 0)
      BY Zenon, <1>2, <1>6, <2>2, GrantUnchanged DEF Disconnect
    <2> QED BY Zenon, <2>1, <2>2
  <1>7. CASE Subscribe
    <2>1. CASE net.link = "broken"
      BY Zenon, <1>1, <1>2, <1>7, <2>1, GrantUnsubscribed DEF Subscribe, on_subscribe_failure, StatusOK
    <2>2. CASE net.link # "broken"
      <3>1. net'.in = net.in /\ net'.link = net.link
        BY Zenon, <1>1, <1>7, <2>2 DEF Subscribe, Sent, NetOK
      <3> QED BY Zenon, <1>2, <1>7, <2>2, <3>1, GrantUnchanged DEF Subscribe
    <2> QED BY Zenon, <2>1, <2>2
  <1>8. CASE Waits
    BY Zenon, <1>8, GrantUnchanged DEF Waits
  <1>9. CASE CheckTimeouts
    <2>1. \/ nextOrClose /\ c.connect_state # 0
          \/ /\ UNCHANGED <<status, c>>
             /\ net' = IF net.link = "syn"
                       THEN [net EXCEPT !.age = Minimum(@ + 1, ConnectTimeout)] ELSE net
      BY Zenon, <1>9 DEF CheckTimeouts
    <2>2. CASE nextOrClose /\ c.connect_state # 0
      BY Zenon, <1>2, <2>2, AttemptFailsGranted
    <2>3. CASE /\ UNCHANGED <<status, c>>
               /\ net' = IF net.link = "syn"
                         THEN [net EXCEPT !.age = Minimum(@ + 1, ConnectTimeout)] ELSE net
      <3>1. net'.in = net.in /\ net'.link = net.link
        BY Zenon, <1>1, <2>3 DEF NetOK
      <3> QED BY Zenon, <1>2, <2>3, <3>1, GrantUnchanged
    <2> QED BY Zenon, <2>1, <2>2, <2>3
  <1> QED BY Zenon, <1>3, <1>4, <1>5, <1>6, <1>7, <1>8, <1>9 DEF SendThread, ProcessCommand

\* Taking an answer off the socket leaves the others.
LEMMA AnswerTaken ==
    ASSUME NetOK, GrantInv, net.in # <<>>, net' = [net EXCEPT !.in = Tail(@)], UNCHANGED granted
    PROVE  /\ net.link = "open" /\ net'.link = "open"
           /\ \A i \in 1 .. Len(net'.in) : net'.in[i] = "SUBACK" => granted'
           /\ Head(net.in) = "SUBACK" => granted
  <1>1. net.in \in Seq({"CONNACK", "REFUSED", "SUBACK"}) /\ net'.in = Tail(net.in)
    BY Zenon DEF NetOK
  <1>2. /\ Len(net.in) \in Nat /\ Len(net.in) > 0 /\ Head(net.in) = net.in[1]
        /\ Len(Tail(net.in)) = Len(net.in) - 1
        /\ \A i \in 1 .. Len(Tail(net.in)) : Tail(net.in)[i] = net.in[i + 1]
    BY <1>1, HeadTailProperties, EmptySeq
  <1>3. \A i \in 1 .. Len(net'.in) : i + 1 \in 1 .. Len(net.in) /\ net'.in[i] = net.in[i + 1]
    BY <1>1, <1>2
  <1>4. 1 \in 1 .. Len(net.in)
    BY <1>2
  <1>5. net.link = "open" /\ net'.link = "open"
    BY Zenon DEF NetOK, GrantInv
  <1> QED BY Zenon, <1>2, <1>3, <1>4, <1>5 DEF GrantInv

LEMMA ReceiveThreadGrants == ASSUME ConnInv, GrantInv, ReceiveThread PROVE GrantInv'
  <1>1. StatusOK /\ ClientOK /\ NetOK
    BY Zenon DEF ConnInv, Shapes
  <1>2. UNCHANGED granted
    BY Zenon DEF ReceiveThread, TcpCompletes, TcpRefused, ConnackArrives, RefusalArrives, SubackArrives,
           SocketError, DisconnectChecks, DisconnectAdds, PingTimesOut
  <1>3. CASE TcpCompletes
    <2>1. CASE connect.version \in {3, 4}
      <3>1. ~status'.subscribed
        BY <1>3, <2>1, AttemptUnsubscribed DEF TcpCompletes
      <3>2. net'.in = <<>>
        BY Zenon, <1>1, <1>3, <2>1 DEF TcpCompletes, GrantInv, NetOK
      <3> QED BY Zenon, <1>2, <3>1, <3>2, GrantUnsubscribed
    <2> QED BY <1>2, <1>3, <2>1, AttemptFailsGranted DEF TcpCompletes
  <1>4. CASE TcpRefused \/ RefusalArrives
    BY <1>2, <1>4, AttemptFailsGranted DEF TcpRefused, RefusalArrives
  <1>5. CASE ConnackArrives
    <2>1. /\ net'.link = "open"
          /\ \A i \in 1 .. Len(net'.in) : net'.in[i] = "SUBACK" => granted'
      BY Zenon, <1>1, <1>2, <1>5, AnswerTaken DEF ConnackArrives
    <2>2. ~status'.subscribed
      <3>1. ~status.subscribed
        BY <1>5, AttemptUnsubscribed DEF ConnackArrives
      <3>2. \/ status' = status
            \/ status' = [status EXCEPT !.connected = TRUE, !.hasEverConnected = TRUE]
        BY Zenon, <1>5 DEF ConnackArrives, on_connect
      <3>3. status'.subscribed = status.subscribed
        BY Zenon, <1>1, <3>2 DEF StatusOK
      <3> QED BY Zenon, <3>1, <3>3
    <2> QED BY Zenon, <2>1, <2>2 DEF GrantInv, SubscribedIsGranted
  <1>6. CASE SubackArrives
    <2>1. /\ net'.link = "open" /\ granted
          /\ \A i \in 1 .. Len(net'.in) : net'.in[i] = "SUBACK" => granted'
      BY Zenon, <1>1, <1>2, <1>6, AnswerTaken DEF SubackArrives
    <2>2. c'.connected
      BY Zenon, <1>6 DEF SubackArrives
    <2> QED BY Zenon, <1>2, <2>1, <2>2 DEF GrantInv, SubscribedIsGranted
  <1>7. CASE SocketError
    <2>1. CASE UNCHANGED <<status, c, connect, retry, commands, net>>
      BY Zenon, <1>2, <2>1, GrantUnchanged
    <2> QED BY Zenon, <1>2, <1>7, <2>1, AttemptFailsGranted DEF SocketError
  <1>8. CASE DisconnectChecks \/ DisconnectAdds \/ PingTimesOut
    BY Zenon, <1>2, <1>8, GrantUnchanged DEF DisconnectChecks, DisconnectAdds, PingTimesOut
  <1> QED BY Zenon, <1>3, <1>4, <1>5, <1>6, <1>7, <1>8 DEF ReceiveThread

LEMMA NetworkGrants == ASSUME ~Refusals, ConnInv, GrantInv, Network PROVE GrantInv'
  <1>1. NetOK
    BY Zenon DEF ConnInv, Shapes
  <1>2. CASE BrokerAnswers
    <2>1. PICK answer \in {"CONNACK", "REFUSED", "SUBACK"} :
             /\ net' = [net EXCEPT !.out = Tail(@), !.in = Append(@, answer)]
             /\ granted' \in IF answer # "SUBACK" THEN {granted} ELSE {TRUE}
      BY Zenon, <1>2 DEF BrokerAnswers
    <2>2. /\ net'.link = "open" /\ net.link = "open" /\ net'.in = Append(net.in, answer)
          /\ net.in \in Seq({"CONNACK", "REFUSED", "SUBACK"})
      BY Zenon, <1>1, <1>2, <2>1 DEF BrokerAnswers, NetOK
    <2>3. /\ Len(net.in) \in Nat /\ Len(net'.in) = Len(net.in) + 1
          /\ \A i \in 1 .. Len(net.in) : net'.in[i] = net.in[i]
          /\ net'.in[Len(net.in) + 1] = answer
      BY <2>2, AppendProperties
    <2>4. (granted => granted') /\ (answer = "SUBACK" => granted')
      BY Zenon, <2>1
    <2>5. \A i \in 1 .. Len(net'.in) : net'.in[i] = "SUBACK" => granted'
      BY <2>3, <2>4 DEF GrantInv
    <2>6. UNCHANGED <<status, c>>
      BY Zenon, <1>2 DEF BrokerAnswers
    <2> QED BY Zenon, <2>2, <2>4, <2>5, <2>6 DEF GrantInv, SubscribedIsGranted
  <1>3. CASE LinkFails \/ BrokerForgets
    <2>1. net'.link # "open" /\ net'.in = <<>> /\ UNCHANGED <<status, c>>
      BY Zenon, <1>1, <1>3 DEF LinkFails, BrokerForgets, GrantInv, NetOK
    <2> QED BY <2>1 DEF GrantInv, SubscribedIsGranted
  <1>4. CASE Stabilises
    BY Zenon, <1>4, GrantUnchanged DEF Stabilises
  <1> QED BY Zenon, <1>2, <1>3, <1>4 DEF Network

\* The flags of mqttclientwrapper.c tell the truth, for all intervals and any number of
\* faults: the connected flag is the Paho client's own, and the hub takes itself for
\* subscribed only while the broker holds its subscriptions, if brokers refuse none.
THEOREM FlagsTrue ==
    ASSUME ~Refusals
    PROVE  Spec => []FlagsAreTrue
  <1>1. Init => GrantInv
    BY DEF Init, Closed, GrantInv, SubscribedIsGranted
  <1>2. ConnInv /\ GrantInv /\ [Next]_vars => GrantInv'
    <2> SUFFICES ASSUME ConnInv, GrantInv, [Next]_vars PROVE GrantInv'
      BY Zenon
    <2>1. CASE Job \/ UNCHANGED vars
      BY Zenon, <2>1, GrantUnchanged
         DEF Job, JobLooks, JobLooksAgain, JobSubscribes, JobConnects, vars
    <2> QED BY Zenon, <2>1, SendThreadGrants, ReceiveThreadGrants, NetworkGrants DEF Next
  <1>3. ConnInv /\ GrantInv => FlagsAreTrue
    BY Zenon DEF ConnInv, GrantInv, FlagsAreTrue
  <1> QED BY <1>1, <1>2, <1>3, ConnInvInit, ConnInvStep, PTL DEF Spec

-----------------------------------------------------------------------------
(* The keep alive.                                                         *)

\* The types one by one, and when MQTTAsync_retry last did its work: a cycle sees to it
\* at once when the interval has passed.
Flags ==
    /\ open \in BOOLEAN /\ ping_outstanding \in BOOLEAN /\ pending \in BOOLEAN
    /\ alive \in BOOLEAN

Ages ==
    /\ due \in 0 .. 2 /\ lastSent \in 0 .. LongestAge /\ lastReceived \in 0 .. LongestAge
    /\ pingAge \in 0 .. LongestAge /\ deadFor \in 0 .. LongestAge
    /\ last \in 0 .. RetryLoopInterval + due

Times == Flags /\ Ages

\* What a cycle leaves of the ping that has no answer.
StillOutstanding ==
    /\ ping_outstanding' \in BOOLEAN
    /\ ping_outstanding' => ping_outstanding
    /\ ~alive /\ ping_outstanding => ping_outstanding'

\* The four ways in which MQTTAsync_cycle ends.
NotYet ==
    /\ last <= RetryLoopInterval /\ StillOutstanding
    /\ UNCHANGED <<open, last, lastSent, pingAge>>

NoSilence ==
    /\ last > RetryLoopInterval /\ last' = 0 /\ StillOutstanding
    /\ ~Silence(lastReceived') \/ (~ping_outstanding' /\ pending)
    /\ UNCHANGED <<open, lastSent, pingAge>>

Pings ==
    /\ last > RetryLoopInterval /\ last' = 0 /\ Silence(lastReceived') /\ ~pending
    /\ ping_outstanding' = TRUE /\ lastSent' = 0 /\ pingAge' = 0
    /\ ~alive => ~ping_outstanding
    /\ UNCHANGED open

GivesUp ==
    /\ last > RetryLoopInterval /\ last' = 0 /\ StillOutstanding
    /\ ping_outstanding' \/ (~pending /\ (~alive \/ MayBlock))
    /\ open' = FALSE
    /\ UNCHANGED <<lastSent, pingAge>>

LEMMA CycleCases ==
  ASSUME Times, Cycle
  PROVE  /\ open /\ due' = 0 /\ UNCHANGED <<pending, alive, deadFor>>
         /\ lastReceived' = lastReceived \/ (alive /\ lastReceived' = 0)
         /\ NotYet \/ NoSilence \/ Pings \/ GivesUp
<1>1. PICK packet \in {"none", "PINGRESP", "other"} :
        /\ packet = "none" \/ alive
        /\ packet = "PINGRESP" => ping_outstanding
        /\ lastReceived' = IF packet = "none" THEN lastReceived ELSE 0
        /\ MQTTAsync_retry(lastReceived', ping_outstanding /\ packet # "PINGRESP")
  BY Zenon DEF Cycle
<1>2. PICK o \in BOOLEAN :
        /\ o => ping_outstanding
        /\ ~alive /\ ping_outstanding => o
        /\ MQTTAsync_retry(lastReceived', o)
  <2>1. (ping_outstanding /\ packet # "PINGRESP") \in BOOLEAN
    BY Zenon
  <2> QED
    BY Zenon, <1>1, <2>1
<1>3. RetryLoopInterval \in Nat /\ last \in Nat
  BY KeepaliveAssumption DEF Times, Ages
<1>4. CASE ~(last > RetryLoopInterval)
  <2>1. last <= RetryLoopInterval
    BY <1>3, <1>4
  <2>2. ping_outstanding' = o /\ UNCHANGED <<open, last, lastSent, pingAge>>
    BY Zenon, <1>2, <1>4 DEF MQTTAsync_retry
  <2>3. NotYet
    BY Zenon, <1>2, <2>1, <2>2 DEF NotYet, StillOutstanding
  <2> QED
    BY Zenon, <1>1, <2>3 DEF Cycle
<1>5. CASE last > RetryLoopInterval
  <2>1. last' = 0 /\ keepalive(lastReceived', o)
    BY Zenon, <1>2, <1>5 DEF MQTTAsync_retry
  <2>2. NoSilence \/ Pings \/ GivesUp
    BY Zenon, <1>2, <1>5, <2>1 DEF keepalive, NoSilence, Pings, GivesUp, StillOutstanding
  <2> QED
    BY Zenon, <1>1, <2>2 DEF Cycle
<1> QED
  BY Zenon, <1>4, <1>5

LEMMA TimesInit == ASSUME AliveInit PROVE Times
<1>1. Flags
  BY Zenon DEF AliveInit, Flags
<1>2. Ages
  BY KeepaliveAssumption DEF AliveInit, Ages, LongestAge
<1> QED
  BY Zenon, <1>1, <1>2 DEF Times

LEMMA TimesStep ==
  ASSUME Times, [AliveNext]_aliveVars
  PROVE  Times'
<1>1. Flags'
  <2>1. CASE Cycle
    BY Zenon, <2>1, CycleCases
    DEF Times, Flags, NotYet, NoSilence, Pings, GivesUp, StillOutstanding
  <2> QED
    BY Zenon, <2>1
    DEF AliveNext, Tick, Sends, WriteCompletes, PeerDies,
        Reconnects, aliveVars, Times, Flags
<1>2. Ages'
  <2> USE KeepaliveAssumption DEF Times, Ages, LongestAge
  <2>1. CASE Tick
    BY <2>1 DEF Tick, Older
  <2>2. CASE Cycle
    <3>1. due' = 0 /\ deadFor' = deadFor /\ lastReceived' \in {lastReceived, 0}
      BY Zenon, <2>2, CycleCases
    <3>2. last' \in {last, 0} /\ lastSent' \in {lastSent, 0} /\ pingAge' \in {pingAge, 0}
      BY Zenon, <2>2, CycleCases DEF NotYet, NoSilence, Pings, GivesUp
    <3>3. last' = 0 \/ (last' = last /\ last <= RetryLoopInterval)
      BY Zenon, <2>2, CycleCases DEF NotYet, NoSilence, Pings, GivesUp
    <3> QED
      BY <3>1, <3>2, <3>3
  <2>3. CASE Sends \/ WriteCompletes \/ Reconnects
    BY <2>3 DEF Sends, WriteCompletes, Reconnects
  <2>4. CASE PeerDies \/ UNCHANGED aliveVars
    BY Zenon, <2>4 DEF PeerDies, aliveVars, ages
  <2> QED
    BY Zenon, <2>1, <2>2, <2>3, <2>4 DEF AliveNext
<1> QED
  BY Zenon, <1>1, <1>2 DEF Times

-----------------------------------------------------------------------------

\* With writes that are taken whole: what the hub has not done at its last look was not
\* yet due, and after that the look's own age bounds it. A broker that is dead has a ping
\* sent to it at one look and is given up at another.
InTime ==
    /\ ~pending
    /\ open => lastSent <= KeepAliveInterval - 1 + last
    /\ alive => deadFor = 0
    /\ open /\ ~alive =>
          /\ deadFor <= lastReceived
          /\ ~ping_outstanding => deadFor <= KeepAliveInterval - 1 + last
          /\ deadFor <= KeepAliveInterval + RetryLoopInterval + 1 + last

LEMMA InTimeStep ==
  ASSUME ~MayBlock, Times, InTime, [AliveNext]_aliveVars
  PROVE  InTime'
<1> USE KeepaliveAssumption DEF Times, Flags, Ages, InTime, LongestAge
<1>1. CASE Tick
  BY <1>1 DEF Tick, Older
<1>2. CASE Cycle
  <2>1. /\ open /\ UNCHANGED <<pending, alive, deadFor>>
        /\ lastReceived' = lastReceived \/ (alive /\ lastReceived' = 0)
    BY Zenon, <1>2, CycleCases
  <2>2. CASE NotYet
    BY Zenon, <2>1, <2>2 DEF NotYet, StillOutstanding
  <2>3. CASE NoSilence
    BY <2>1, <2>3 DEF NoSilence, StillOutstanding, Silence
  <2>4. CASE Pings
    BY <2>1, <2>4 DEF Pings
  <2>5. CASE GivesUp
    BY Zenon, <2>1, <2>5 DEF GivesUp
  <2> QED
    BY Zenon, <1>2, <2>2, <2>3, <2>4, <2>5, CycleCases
<1>3. CASE Sends
  BY <1>3 DEF Sends
<1>4. CASE WriteCompletes
  BY Zenon, <1>4 DEF WriteCompletes
<1>5. CASE PeerDies
  BY <1>5 DEF PeerDies, ages
<1>6. CASE Reconnects
  BY <1>6 DEF Reconnects
<1>7. CASE UNCHANGED aliveVars
  BY Zenon, <1>7 DEF aliveVars, ages
<1> QED
  BY Zenon, <1>1, <1>2, <1>3, <1>4, <1>5, <1>6, <1>7 DEF AliveNext

\* MQTTProtocol_keepalive with the rounding of MQTTAsync_retry, for all intervals of which
\* the second is less than half the first (it is a tenth) and writes that are taken whole:
\* the hub is never silent for one and a half keep alive intervals, and gives a dead
\* connection up within the keep alive interval and two looks.
THEOREM InTimeAlways ==
  ASSUME ~MayBlock, 2 * RetryLoopInterval + 2 <= KeepAliveInterval
  PROVE  AliveSpec => []KeepaliveInTime
<1>1. AliveInit => Times /\ InTime
  <2> SUFFICES ASSUME AliveInit PROVE InTime
    BY Zenon, TimesInit
  <2> QED
    BY KeepaliveAssumption DEF AliveInit, InTime
<1>2. Times /\ InTime /\ [AliveNext]_aliveVars => Times' /\ InTime'
  BY Zenon, TimesStep, InTimeStep
<1>3. Times /\ InTime => KeepaliveInTime
  BY KeepaliveAssumption DEF Times, Flags, Ages, InTime, KeepaliveInTime, SpeaksInTime,
         DeadIsNoticed, LongestAge
<1> QED
  BY <1>1, <1>2, <1>3, PTL DEF AliveSpec

-----------------------------------------------------------------------------

\* While a ping to a live broker has no answer, MQTTAsync_retry has not looked again.
PingIsYoung ==
    /\ ~pending
    /\ open /\ alive /\ ping_outstanding => last = pingAge /\ pingAge <= MaxDelay

LEMMA PingIsYoungStep ==
  ASSUME ~MayBlock, MaxDelay <= RetryLoopInterval,
         Times, PingIsYoung, [AliveNext]_aliveVars
  PROVE  PingIsYoung' /\ (open /\ ~open' => ~alive)
<1> USE KeepaliveAssumption DEF Times, Flags, Ages, PingIsYoung, LongestAge
<1>1. CASE Tick
  BY <1>1 DEF Tick, Older
<1>2. CASE Cycle
  <2>1. open /\ UNCHANGED <<pending, alive>>
    BY Zenon, <1>2, CycleCases
  <2>2. CASE NotYet
    BY Zenon, <2>1, <2>2 DEF NotYet, StillOutstanding
  <2>3. CASE NoSilence
    BY <2>1, <2>3 DEF NoSilence, StillOutstanding
  <2>4. CASE Pings
    BY <2>1, <2>4 DEF Pings
  <2>5. CASE GivesUp
    BY <2>1, <2>5 DEF GivesUp, StillOutstanding
  <2> QED
    BY Zenon, <1>2, <2>2, <2>3, <2>4, <2>5, CycleCases
<1>3. CASE Sends
  BY <1>3 DEF Sends
<1>4. CASE WriteCompletes
  BY Zenon, <1>4 DEF WriteCompletes
<1>5. CASE PeerDies
  BY Zenon, <1>5 DEF PeerDies, ages
<1>6. CASE Reconnects
  BY Zenon, <1>6 DEF Reconnects
<1>7. CASE UNCHANGED aliveVars
  BY Zenon, <1>7 DEF aliveVars, ages
<1> QED
  BY Zenon, <1>1, <1>2, <1>3, <1>4, <1>5, <1>6, <1>7 DEF AliveNext

\* MQTTProtocol_keepalive gives up only a dead broker, for all intervals, if a live one
\* answers a ping before MQTTAsync_retry looks again and writes are taken whole.
THEOREM AliveKept ==
  ASSUME ~MayBlock, MaxDelay <= RetryLoopInterval
  PROVE  AliveSpec => AliveIsKept
<1>1. AliveInit => Times /\ PingIsYoung
  BY Zenon, TimesInit DEF AliveInit, PingIsYoung
<1>2. Times /\ PingIsYoung /\ [AliveNext]_aliveVars => Times' /\ PingIsYoung'
  BY Zenon, TimesStep, PingIsYoungStep
<1>3. Times /\ PingIsYoung /\ [AliveNext]_aliveVars => [open /\ ~open' => ~alive]_aliveVars
  BY Zenon, PingIsYoungStep
<1> QED
  BY <1>1, <1>2, <1>3, PTL DEF AliveSpec, AliveIsKept

-----------------------------------------------------------------------------
(* The memory of pending writes.                                           *)

\* The caller's buffers of the packet whose writing the send thread has to finish.
CallersOfSender == IF pc = None THEN {} ELSE Mem("buf", pc, Of(pc, "caller"))

\* Where the buffers of the pending write are: a caller's is a copy once the send thread is
\* done with the packet.
PendingMem ==
    [i \in 1 .. Len(pw.packet.bufs) |->
        <<IF pc = None /\ i \in Of(pw.packet, "caller") THEN "copy" ELSE "buf", pw.packet.no, i>>]

PendingInv ==
    /\ pw = [packet |-> pw.packet, mem |-> pw.mem, bytes |-> pw.bytes]
    /\ \A i \in 1 .. Len(pw.packet.bufs) : pw.packet.bufs[i].kind \in Kind
    /\ pw.mem = PendingMem
    /\ pc # None => pw.packet = pc
    /\ pc = None /\ Of(pw.packet, "caller") # {} => pw.packet \in stored

\* What is allocated are the own buffers of the pending write, the caller's buffers as long
\* as the send thread is at them, and the copies.
HeapInv ==
    /\ bad = FALSE
    /\ heap = Socket_abortWrite \cup CallersOfSender \cup Copies(stored)

WriteInv == (pw # None => PendingInv) /\ HeapInv

(* What a step leaves alone.                                               *)
LEMMA WriteInvSame ==
    ASSUME WriteInv, UNCHANGED <<pw, pc, stored, memory>>
    PROVE  WriteInv'
BY Zenon DEF WriteInv, PendingInv, PendingMem, HeapInv, Socket_abortWrite, CallersOfSender, memory

(* Unions and differences of what is allocated.                            *)
LEMMA Regrouped == ASSUME NEW A, NEW B, NEW C PROVE C \cup (A \cup B) = A \cup B \cup C
  OBVIOUS

(* What is freed was allocated, and the rest stays.                        *)
LEMMA Freed ==
    ASSUME NEW S, NEW T, S \cap T = {}, heap = S \cup T, bad = FALSE, Free(S)
    PROVE  heap' = T /\ bad' = FALSE
<1>1. heap' = heap \ S /\ S \subseteq heap
  BY Zenon DEF Free
<1>2. heap' = T
  BY <1>1
<1> QED
  BY Zenon, <1>1, <1>2 DEF Free

(* A packet the socket takes in part is the sender's and the pending one.  *)
LEMMA PutdatasKeeps ==
    ASSUME NoneAssumption, WriteInv, NEW bufs \in Packets, Socket_putdatas(bufs)
    PROVE  WriteInv'
<1> DEFINE p == [no |-> sent + 1, bufs |-> bufs]
           bytes == Taken(PacketBytes(p))
           mem == [i \in 1 .. Len(bufs) |-> <<"buf", p.no, i>>]
<1>1. CASE UNCHANGED <<pw, pc, memory>>
  BY Zenon, <1>1, WriteInvSame DEF Socket_putdatas
<1>2. CASE ~ UNCHANGED <<pw, pc, memory>>
  <2>1. /\ pc = None /\ pw = None /\ stored' = stored /\ bad' = bad
        /\ pw' = [packet |-> p, mem |-> mem, bytes |-> Len(bytes)] /\ pc' = p
        /\ heap' = heap \cup Mem("buf", p, Of(p, "own") \cup Of(p, "caller"))
    BY Zenon, <1>2 DEF Socket_putdatas
  <2> HIDE DEF bytes, mem
  <2>2. pw' # None /\ pc' # None /\ pw'.packet = p /\ pw'.mem = mem
    BY <2>1 DEF NoneAssumption
  <2>3. pw' = [packet |-> pw'.packet, mem |-> pw'.mem, bytes |-> pw'.bytes]
    BY <2>1
  <2>4. bufs \in Seq([n : Nat, kind : Kind])
    BY Zenon, WriteAssumption
  <2>5. \A i \in 1 .. Len(pw'.packet.bufs) : pw'.packet.bufs[i].kind \in Kind
    <3>1. pw'.packet.bufs = bufs
      BY <2>2
    <3>2. \A i \in 1 .. Len(bufs) : bufs[i] \in [n : Nat, kind : Kind]
      BY Zenon, <2>4, ElementOfSeq
    <3> QED
      BY <3>1, <3>2
  <2>6. mem = PendingMem'
    BY <2>2, <2>1 DEF PendingMem, mem
  <2>7. PendingInv'
    BY Zenon, <2>1, <2>2, <2>3, <2>5, <2>6 DEF PendingInv
  <2>8. Mem("buf", p, Of(p, "own") \cup Of(p, "caller"))
          = Mem("buf", p, Of(p, "own")) \cup Mem("buf", p, Of(p, "caller"))
    BY Zenon DEF Mem
  <2> HIDE DEF p
  <2>9. heap = Copies(stored) /\ bad = FALSE
    BY Zenon, <2>1 DEF WriteInv, HeapInv, Socket_abortWrite, CallersOfSender
  <2>10. Socket_abortWrite' = Mem("buf", p, Of(p, "own"))
    BY Zenon, <2>2 DEF Socket_abortWrite
  <2>11. CallersOfSender' = Mem("buf", p, Of(p, "caller"))
    BY Zenon, <2>1, <2>2 DEF CallersOfSender
  <2>12. HeapInv'
    <3>1. Copies(stored)' = Copies(stored)
      BY Zenon, <2>1 DEF Copies
    <3> QED
      BY Zenon, <3>1, <2>1, <2>8, <2>9, <2>10, <2>11, Regrouped DEF HeapInv
  <2> QED
    BY Zenon, <2>7, <2>12 DEF WriteInv
<1> QED
  BY Zenon, <1>1, <1>2

(* Own buffers, caller's buffers and copies are different memory.          *)
LEMMA MemoryApart ==
    ASSUME NEW p, NEW q, NEW r
    PROVE  /\ Mem("buf", p, Of(p, "own")) \cap Mem("buf", p, Of(p, "caller")) = {}
           /\ \A S : Mem("buf", q, Of(q, r)) \cap Copies(S) = {}
<1>1. Mem("buf", p, Of(p, "own")) \cap Mem("buf", p, Of(p, "caller")) = {}
  BY DEF Mem, Of
<1>2. ASSUME NEW S PROVE Mem("buf", q, Of(q, r)) \cap Copies(S) = {}
  BY DEF Mem, Copies
<1> QED
  BY Zenon, <1>1, <1>2

(* The send thread finishes: the copies take the place of the caller's     *)
(* buffers, in the pending write as well if it is still there.             *)
LEMMA StoreKeeps ==
    ASSUME NoneAssumption, WriteInv, MQTTProtocol_storeQoS0
    PROVE  WriteInv'
<1> DEFINE caller == Of(pc, "caller")
<1>1. pc # None /\ pc' = None /\ bad' = bad
  BY Zenon DEF MQTTProtocol_storeQoS0
<1>2. heap' = (heap \ Mem("buf", pc, caller)) \cup Mem("copy", pc, caller)
  BY Zenon DEF MQTTProtocol_storeQoS0
<1>3. CallersOfSender = Mem("buf", pc, caller) /\ CallersOfSender' = {}
  BY Zenon, <1>1 DEF CallersOfSender
<1>4. pw = None <=> pw' = None
  <2>1. CASE pw' = pw
    BY Zenon, <2>1
  <2>2. CASE pw # None /\ SocketBuffer_updateWrite(pc)
    <3>1. PICK m : pw' = [pw EXCEPT !.mem = m]
      BY Zenon, <2>2 DEF SocketBuffer_updateWrite
    <3>2. pw' = [packet |-> pw.packet, mem |-> m, bytes |-> pw.bytes]
      BY <2>2, <3>1 DEF WriteInv, PendingInv
    <3> QED
      BY <2>2, <3>2 DEF NoneAssumption
  <2> QED
    BY Zenon, <2>1, <2>2 DEF MQTTProtocol_storeQoS0, SocketBuffer_updateWrite
<1>5. ASSUME pw # None
      PROVE  pw'.packet = pw.packet /\ PendingInv'
  <2>1. PendingInv /\ pw.packet = pc
    BY Zenon, <1>1, <1>5 DEF WriteInv, PendingInv
  <2>2. pw.mem = [i \in 1 .. Len(pc.bufs) |-> <<"buf", pc.no, i>>]
    BY <1>1, <2>1 DEF PendingInv, PendingMem
  <2> DEFINE m == [i \in 1 .. Len(pc.bufs) |-> <<IF i \in caller THEN "copy" ELSE "buf", pc.no, i>>]
  <2>3. pw' = [packet |-> pc, mem |-> m, bytes |-> pw.bytes]
    <3>1. CASE caller = {}
      <4>1. pw' = pw
        BY Zenon, <3>1 DEF MQTTProtocol_storeQoS0
      <4>2. m = pw.mem
        BY <2>2, <3>1
      <4> QED
        BY <2>1, <4>1, <4>2 DEF PendingInv
    <3>2. CASE caller # {}
      <4>1. SocketBuffer_updateWrite(pc)
        BY Zenon, <3>2 DEF MQTTProtocol_storeQoS0
      <4>2. pw' = [pw EXCEPT !.mem = [i \in DOMAIN @ |-> IF i \in caller THEN <<"copy", pc.no, i>> ELSE @[i]]]
        BY Zenon, <4>1, <1>5 DEF SocketBuffer_updateWrite
      <4> DEFINE u == [i \in DOMAIN pw.mem |-> IF i \in caller THEN <<"copy", pc.no, i>> ELSE pw.mem[i]]
      <4>3. pw' = [pw EXCEPT !.mem = u]
        BY <4>2, <2>1 DEF PendingInv
      <4>4. u = m
        BY <2>2
      <4> HIDE DEF u, m
      <4> QED
        BY <2>1, <4>3, <4>4 DEF PendingInv
    <3> QED
      BY Zenon, <3>1, <3>2
  <2>4. m = PendingMem'
    BY <1>1, <2>3 DEF PendingMem
  <2>5. caller # {} => pc \in stored'
    BY Zenon DEF MQTTProtocol_storeQoS0
  <2> HIDE DEF m
  <2>6. pw'.packet = pc /\ pw'.mem = m /\ pw'.bytes = pw.bytes
    BY <2>3
  <2>7. \A i \in 1 .. Len(pc.bufs) : pc.bufs[i].kind \in Kind
    BY Zenon, <2>1 DEF PendingInv
  <2>8. Of(pw'.packet, "caller") = caller
    BY Zenon, <2>6
  <2> QED
    BY Zenon, <1>1, <2>1, <2>3, <2>4, <2>5, <2>6, <2>7, <2>8 DEF PendingInv
<1>6. Socket_abortWrite' = Socket_abortWrite
  BY Zenon, <1>4, <1>5 DEF Socket_abortWrite
<1>7. Copies(stored') = Copies(stored) \cup Mem("copy", pc, caller)
  <2>1. CASE caller = {}
    BY <2>1 DEF MQTTProtocol_storeQoS0, Mem
  <2>2. CASE caller # {}
    BY Zenon, <2>2 DEF MQTTProtocol_storeQoS0, Copies
  <2> QED
    BY Zenon, <2>1, <2>2
<1>8. Socket_abortWrite \cap Mem("buf", pc, caller) = {}
  BY Zenon, <1>1, MemoryApart DEF WriteInv, PendingInv, Socket_abortWrite
<1>9. Copies(stored) \cap Mem("buf", pc, caller) = {}
  BY Zenon, MemoryApart
<1>10. HeapInv'
  <2>1. Copies(stored)' = Copies(stored')
    BY Zenon DEF Copies
  <2> HIDE DEF caller
  <2> QED
    BY <2>1, <1>1, <1>2, <1>3, <1>6, <1>7, <1>8, <1>9 DEF WriteInv, HeapInv
<1> QED
  BY Zenon, <1>4, <1>5, <1>10 DEF WriteInv

(* The receive thread goes on with the pending write; at its end its own   *)
(* buffers and all copies go.                                              *)
LEMMA ContinueKeeps ==
    ASSUME NoneAssumption, WriteInv, Socket_continueWrite
    PROVE  WriteInv'
<1> DEFINE own == Mem("buf", pw.packet, Of(pw.packet, "own"))
<1>1. pw # None /\ PendingInv /\ pc' = pc /\ own = Socket_abortWrite
  BY Zenon DEF Socket_continueWrite, WriteInv, Socket_abortWrite
<1>2. CallersOfSender' = CallersOfSender
  BY Zenon, <1>1 DEF CallersOfSender
<1>3. CASE pw' = None /\ stored' = {} /\ Free(own \cup Copies(stored))
  <2>1. CallersOfSender \cap (own \cup Copies(stored)) = {}
    <3>1. CallersOfSender \cap own = {}
      BY Zenon, <1>1, MemoryApart DEF CallersOfSender, PendingInv
    <3>2. CallersOfSender \cap Copies(stored) = {}
      BY Zenon, MemoryApart DEF CallersOfSender
    <3> QED
      BY Zenon, <3>1, <3>2
  <2>2. Socket_abortWrite' = {} /\ Copies(stored)' = {}
    BY Zenon, <1>3 DEF Socket_abortWrite, Copies
  <2> HIDE DEF own
  <2>3. heap = (own \cup Copies(stored)) \cup CallersOfSender /\ bad = FALSE
    <3>1. heap = own \cup CallersOfSender \cup Copies(stored) /\ bad = FALSE
      BY Zenon, <1>1 DEF WriteInv, HeapInv
    <3> QED
      BY Zenon, <3>1
  <2>4. heap' = CallersOfSender /\ bad' = FALSE
    BY Zenon, <1>3, <2>1, <2>3, Freed
  <2>5. HeapInv'
    <3>1. CallersOfSender = {} \cup CallersOfSender \cup {}
      OBVIOUS
    <3> QED
      BY Zenon, <3>1, <1>2, <2>2, <2>4 DEF HeapInv
  <2> QED
    BY Zenon, <1>3, <2>5 DEF WriteInv
<1>4. ASSUME stored' = stored, Free({} \cup {}), NEW b, pw' = [pw EXCEPT !.bytes = b]
      PROVE  WriteInv'
  <2>1. pw' = [packet |-> pw.packet, mem |-> pw.mem, bytes |-> b]
    BY <1>1, <1>4 DEF PendingInv
  <2>2. pw'.packet = pw.packet /\ pw'.mem = pw.mem /\ pw'.bytes = b /\ pw' # None
    BY <2>1 DEF NoneAssumption
  <2>3. PendingInv' /\ Socket_abortWrite' = Socket_abortWrite
    BY Zenon, <1>1, <1>4, <2>1, <2>2 DEF PendingInv, PendingMem, Socket_abortWrite
  <2>4. HeapInv'
    <3>1. heap' = heap /\ bad' = bad
      BY Zenon, <1>4 DEF Free, WriteInv, HeapInv
    <3>2. Copies(stored)' = Copies(stored)
      BY Zenon, <1>4 DEF Copies
    <3> QED
      BY Zenon, <1>2, <2>3, <3>1, <3>2 DEF WriteInv, HeapInv
  <2> QED
    BY Zenon, <2>3, <2>4 DEF WriteInv
<1> DEFINE done == dead \/ pw.bytes + Len(Taken(Remaining)) = Total(pw.packet)
<1>5. CASE done
  <2>1. stored \ stored = {}
    OBVIOUS
  <2> QED
    BY Zenon, <1>3, <1>5, <2>1 DEF Socket_continueWrite, Frees, MQTTProtocol_checkPendingWrites
<1>6. CASE ~ done
  <2>1. Copies({}) = {} /\ stored \ {} = stored
    BY Zenon DEF Copies
  <2> QED
    BY Zenon, <1>4, <1>6, <2>1 DEF Socket_continueWrite, Frees, MQTTProtocol_checkPendingWrites
<1> QED
  BY Zenon, <1>5, <1>6

(* A closed connection takes the pending write's own buffers along, or,    *)
(* when no write is pending, the copies.                                   *)
LEMMA CloseKeeps ==
    ASSUME WriteInv, Socket_close
    PROVE  WriteInv'
<1> DEFINE checked == MQTTProtocol_checkPendingWrites(pw # None)
<1>1. /\ pc = None /\ pc' = None /\ pw' = None /\ stored' = stored \ checked
      /\ Free(Socket_abortWrite \cup Copies(checked))
  BY Zenon DEF Socket_close
<1>2. CallersOfSender = {} /\ CallersOfSender' = {} /\ Socket_abortWrite' = {}
  BY Zenon, <1>1 DEF Socket_abortWrite, CallersOfSender
<1>3. Socket_abortWrite \cap Copies(stored') = {}
  BY Zenon, MemoryApart DEF Socket_abortWrite
<1>4. /\ Copies(checked) \cap Copies(stored') = {}
      /\ Copies(stored) = Copies(checked) \cup Copies(stored')
  <2>1. CASE pw = None
    <3>1. checked = stored /\ stored' = {}
      BY <1>1, <2>1 DEF MQTTProtocol_checkPendingWrites
    <3>2. Copies(stored') = {}
      BY Zenon, <3>1 DEF Copies
    <3> QED
      BY Zenon, <3>1, <3>2
  <2>2. CASE pw # None
    <3>1. checked = {} /\ stored' = stored
      BY <1>1, <2>2 DEF MQTTProtocol_checkPendingWrites
    <3>2. Copies(checked) = {}
      BY Zenon, <3>1 DEF Copies
    <3> QED
      BY Zenon, <3>1, <3>2
  <2> QED
    BY Zenon, <2>1, <2>2
<1> HIDE DEF checked
<1>5. HeapInv'
  <2>1. heap = (Socket_abortWrite \cup Copies(checked)) \cup Copies(stored') /\ bad = FALSE
    BY Zenon, <1>2, <1>4 DEF WriteInv, HeapInv
  <2>2. (Socket_abortWrite \cup Copies(checked)) \cap Copies(stored') = {}
    BY Zenon, <1>3, <1>4
  <2>3. heap' = Copies(stored') /\ bad' = FALSE
    BY Zenon, <1>1, <2>1, <2>2, Freed
  <2>4. Copies(stored') = {} \cup {} \cup Copies(stored')
    OBVIOUS
  <2>5. Copies(stored)' = Copies(stored')
    BY Zenon DEF Copies
  <2> QED
    BY Zenon, <1>2, <2>3, <2>4, <2>5 DEF HeapInv
<1> QED
  BY Zenon, <1>1, <1>5 DEF WriteInv

(* Every operation keeps track of its memory.                              *)
LEMMA WriteInvariant == ASSUME NoneAssumption PROVE WriteSpec => []WriteInv
<1>1. WriteInit => WriteInv
  <2> SUFFICES ASSUME WriteInit PROVE WriteInv
    OBVIOUS
  <2>1. Socket_abortWrite = {} /\ CallersOfSender = {} /\ Copies(stored) = {}
    BY Zenon DEF WriteInit, Socket_abortWrite, CallersOfSender, Copies
  <2> QED
    BY <2>1 DEF WriteInit, WriteInv, HeapInv
<1>2. WriteInv /\ [WriteNext]_writeVars => WriteInv'
  <2> SUFFICES ASSUME WriteInv, [WriteNext]_writeVars PROVE WriteInv'
    OBVIOUS
  <2>1. CASE PeerReads \/ SocketBreaks \/ UNCHANGED writeVars
    BY Zenon, <2>1, WriteInvSame DEF PeerReads, SocketBreaks, writeVars, memory
  <2> QED
    BY Zenon, <2>1, PutdatasKeeps, StoreKeeps, ContinueKeeps, CloseKeeps DEF WriteNext
<1> QED
  BY <1>1, <1>2, PTL DEF WriteSpec

(* Socket_putdatas, MQTTProtocol_storeQoS0, Socket_continueWrite,          *)
(* MQTTProtocol_checkPendingWrites and Socket_close together free every    *)
(* buffer and every copy once, and none that a pending write refers to,    *)
(* however the send and the receive thread take turns; when nothing is     *)
(* pending, all that is allocated are copies that the next check frees.    *)
THEOREM MemorySound == ASSUME NoneAssumption PROVE WriteSpec => []WriteMemorySound
<1>1. WriteInv => WriteMemorySound
  <2> SUFFICES ASSUME WriteInv PROVE WriteMemorySound
    OBVIOUS
  <2>1. NothingLeaks
    <3>1. Copies(stored) = {} \cup {} \cup Copies(stored)
      OBVIOUS
    <3> QED
      BY Zenon, <3>1 DEF NothingLeaks, WriteInv, HeapInv, Socket_abortWrite, CallersOfSender
  <2>2. ASSUME pw # None, NEW i \in DOMAIN pw.mem \ Of(pw.packet, "kept")
        PROVE  pw.mem[i] \in heap
    <3>1. PendingInv
      BY Zenon, <2>2 DEF WriteInv
    <3>2. i \in 1 .. Len(pw.packet.bufs)
      BY Zenon, <2>2, <3>1 DEF PendingInv, PendingMem
    <3>3. pw.mem[i] = <<IF pc = None /\ i \in Of(pw.packet, "caller") THEN "copy" ELSE "buf", pw.packet.no, i>>
      BY <3>1, <3>2 DEF PendingInv, PendingMem
    <3>4. i \in Of(pw.packet, "own") \/ i \in Of(pw.packet, "caller")
      BY Zenon, <2>2, <3>1, <3>2 DEF PendingInv, Of, Kind
    <3>5. CASE i \in Of(pw.packet, "own")
      <4>1. pw.mem[i] = <<"buf", pw.packet.no, i>>
        BY <3>3, <3>5 DEF Of
      <4>2. pw.mem[i] \in Socket_abortWrite
        BY Zenon, <2>2, <3>5, <4>1 DEF Socket_abortWrite, Mem
      <4> QED
        BY Zenon, <4>2 DEF WriteInv, HeapInv
    <3>6. CASE i \in Of(pw.packet, "caller") /\ pc = None
      <4>1. pw.mem[i] = <<"copy", pw.packet.no, i>> /\ pw.packet \in stored
        BY Zenon, <3>1, <3>3, <3>6 DEF PendingInv
      <4>2. pw.mem[i] \in Copies(stored)
        BY <3>6, <4>1 DEF Copies, Mem
      <4> QED
        BY Zenon, <4>2 DEF WriteInv, HeapInv
    <3>7. CASE i \in Of(pw.packet, "caller") /\ pc # None
      <4>1. pw.mem[i] = <<"buf", pc.no, i>> /\ pw.packet = pc
        BY Zenon, <3>1, <3>3, <3>7 DEF PendingInv
      <4>2. pw.mem[i] \in CallersOfSender
        BY Zenon, <3>7, <4>1 DEF CallersOfSender, Mem
      <4> QED
        BY Zenon, <4>2 DEF WriteInv, HeapInv
    <3> QED
      BY Zenon, <3>4, <3>5, <3>6, <3>7
  <2> QED
    BY Zenon, <2>1, <2>2 DEF WriteMemorySound, PendingMemoryLives, WriteInv, HeapInv
<1> QED
  BY <1>1, WriteInvariant, PTL

=============================================================================
