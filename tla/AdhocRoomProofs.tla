---------------------------- MODULE AdhocRoomProofs ----------------------------
(* What the room protocol keeps, whatever is lost, late or out of order:   *)
(* one place per watcher, no connection that was not granted, and no live  *)
(* place taken away.                                                       *)
EXTENDS AdhocRoom, TLAPS

Packets == [type : {"JOIN", "LEAVE", "ACCEPT", "REJECT", "CLOSE"},
            session : Nat, mac : Watchers, token : Nat, sequence : Nat]

(* A packet of the join that its watcher is still engaged in.              *)
Present(p) == Joined(p.mac) /\ watcher[p.mac].token = p.token

(* No token was used before it was drawn.                                  *)
TokenInv ==
    /\ \A p \in network : p.token <= tokens
    /\ \A w \in Watchers : watcher[w].token <= tokens
    /\ \A i \in Places : places[i].token <= tokens

(* An ACCEPT of the present join was preceded by its grant, and nobody     *)
(* leaves a join and goes on with it.                                      *)
PacketInv ==
    \A p \in network : Present(p) =>
        /\ p.type = "ACCEPT" => p.mac \in granted
        /\ p.type # "LEAVE"

PlaceInv == \A i \in Occupied : places[i].mac \in Watchers

Inv == /\ TypeOK /\ TokenInv /\ PlaceInv /\ PacketInv
       /\ OnePlacePerWatcher /\ ConnectedWasGranted
-----------------------------------------------------------------------------
(* A send adds nothing but what is sent.                                   *)
LEMMA Sent ==
    ASSUME NEW air, NEW packets, SendFrom(air, packets)
    PROVE  network' \subseteq air \union packets
  BY DEF SendFrom

LEMMA ReceivedAndSent ==
    ASSUME NEW p, NEW packets, ReceiveAndSend(p, packets)
    PROVE  p \in network /\ network' \subseteq network \union packets
  BY Sent DEF ReceiveAndSend

(* Before the first room.                                                  *)
LEMMA Initially == Init => Inv
  <1> SUFFICES ASSUME Init PROVE Inv
    OBVIOUS
  <1>1. TypeOK
    BY DEF Init, TypeOK, FreePlace, Out
  <1>2. TokenInv
    BY DEF Init, TokenInv, FreePlace, Out
  <1>3. Occupied = {}
    BY DEF Init, Occupied, FreePlace
  <1>4. PlaceInv /\ OnePlacePerWatcher
    BY <1>3 DEF PlaceInv, OnePlacePerWatcher
  <1>5. PacketInv
    BY DEF Init, PacketInv
  <1>6. ConnectedWasGranted
    BY DEF Init, ConnectedWasGranted, Out
  <1> QED
    BY <1>1, <1>2, <1>4, <1>5, <1>6 DEF Inv
-----------------------------------------------------------------------------
(* What the host says when it closes the room.                             *)
LEMMA ClosesSound ==
    ASSUME Inv
    PROVE  \A p \in Closes : /\ p \in Packets /\ p.type = "CLOSE"
                             /\ p.token <= tokens
  <1> DEFINE Close(i) == Packet("CLOSE", session, places[i].mac,
                                places[i].token, places[i].sequence)
  <1>1. ASSUME NEW i \in Occupied
        PROVE  /\ Close(i) \in Packets /\ Close(i).type = "CLOSE"
               /\ Close(i).token <= tokens
    <2>1. /\ session \in Nat /\ places[i].mac \in Watchers
          /\ places[i].token \in Nat /\ places[i].sequence \in Nat
          /\ places[i].token <= tokens
      BY DEF Inv, PlaceInv, TokenInv, TypeOK, Occupied
    <2> QED
      BY <2>1 DEF Packet, Packets
  <1>2. \A p \in Closes : \E i \in Occupied : p = Close(i)
    BY DEF Closes
  <1> HIDE DEF Close
  <1> QED
    BY <1>1, <1>2

(* The steps of the host keep what it knows.                               *)
LEMMA HostPlaces ==
    ASSUME Inv, Host
    PROVE  /\ places' \in [Places -> [mac : Watchers \union {0}, token : Nat,
                                      sequence : Nat]]
           /\ \A i \in Places : places'[i].token <= tokens
           /\ PlaceInv' /\ OnePlacePerWatcher'
           /\ hosting' \in BOOLEAN /\ session' \in Nat
  <1> DEFINE Row == [mac : Watchers \union {0}, token : Nat, sequence : Nat]
  <1> USE DEF Inv, TypeOK, TokenInv, PlaceInv, OnePlacePerWatcher, Occupied
  <1>0. FreePlace \in Row /\ FreePlace.token = 0
    BY DEF FreePlace
  <1>1. CASE places' = [i \in Places |-> FreePlace]
             /\ hosting' \in BOOLEAN /\ session' \in Nat
    BY <1>0, <1>1
  <1>2. CASE HostStart \/ HostStop
    <2>1. /\ places' = [i \in Places |-> FreePlace]
          /\ hosting' \in BOOLEAN /\ session' \in {session, session + 1}
      BY <1>2 DEF HostStart, HostStop
    <2>2. session \in Nat /\ session + 1 \in Nat
      OBVIOUS
    <2> QED
      BY <1>1, <2>1, <2>2
  <1>3. CASE UNCHANGED <<session, places>> /\ hosting' \in BOOLEAN
    BY <1>3
  <1>4. CASE HostFail \/ HostAdvert
    BY <1>3, <1>4 DEF HostFail, HostAdvert, hostVars
  <1>5. ASSUME NEW i \in Places, places' = [places EXCEPT ![i] = FreePlace],
               UNCHANGED <<hosting, session>>
        PROVE  /\ places' \in [Places -> Row]
               /\ \A k \in Places : places'[k].token <= tokens
               /\ PlaceInv' /\ OnePlacePerWatcher'
               /\ hosting' \in BOOLEAN /\ session' \in Nat
    BY <1>0, <1>5
  <1>6. ASSUME NEW i \in Places, Prune(i)
        PROVE  /\ places' \in [Places -> Row]
               /\ \A k \in Places : places'[k].token <= tokens
               /\ PlaceInv' /\ OnePlacePerWatcher'
               /\ hosting' \in BOOLEAN /\ session' \in Nat
    BY <1>5, <1>6 DEF Prune
  <1>7. ASSUME NEW p \in network, Vacate(p)
        PROVE  /\ places' \in [Places -> Row]
               /\ \A k \in Places : places'[k].token <= tokens
               /\ PlaceInv' /\ OnePlacePerWatcher'
               /\ hosting' \in BOOLEAN /\ session' \in Nat
    BY <1>5, <1>7 DEF Vacate, PlaceOf
  <1>8. ASSUME NEW p \in network, Admit(p)
        PROVE  /\ places' \in [Places -> Row]
               /\ \A k \in Places : places'[k].token <= tokens
               /\ PlaceInv' /\ OnePlacePerWatcher'
               /\ hosting' \in BOOLEAN /\ session' \in Nat
    BY <1>8 DEF Admit, Accept, PlaceOf
  <1>9. ASSUME NEW p \in network, Refresh(p)
        PROVE  /\ places' \in [Places -> Row]
               /\ \A k \in Places : places'[k].token <= tokens
               /\ PlaceInv' /\ OnePlacePerWatcher'
               /\ hosting' \in BOOLEAN /\ session' \in Nat
    BY <1>9 DEF Refresh, Accept, PlaceOf
  <1>10. ASSUME NEW p \in network, Refuse(p)
        PROVE  UNCHANGED <<hosting, session, places>>
    BY <1>10 DEF Refuse, hostVars
  <1> QED
    BY <1>2, <1>3, <1>4, <1>6, <1>7, <1>8, <1>9, <1>10 DEF Host

-----------------------------------------------------------------------------
(* What a step of the host puts on the air: refusals, and acceptances it   *)
(* has granted.                                                            *)
Said(p) == /\ p \in Packets /\ p.token <= tokens /\ p.type # "LEAVE"
           /\ p.type = "ACCEPT" /\ watcher[p.mac].token = p.token
                => p.mac \in granted'

Speaks == /\ tokens' = tokens /\ UNCHANGED watcher
          /\ granted \subseteq granted' /\ granted' \subseteq Watchers
          /\ \A p \in network' : p \in network \/ Said(p)

LEMMA AcceptSpeaks ==
    ASSUME Inv, NEW p \in network, Accept(p) PROVE Speaks
  <1>1. p \in Packets /\ p.token <= tokens /\ session \in Nat
    BY DEF Inv, TypeOK, TokenInv, Packets
  <1> DEFINE answer == Packet("ACCEPT", session, p.mac, p.token, p.sequence)
  <1>2. network' \subseteq network \union {answer}
    BY ReceivedAndSent DEF Accept
  <1>3. granted' = granted \union {w \in {p.mac} : watcher[w].token = p.token}
    BY DEF Accept
  <1>4. /\ answer \in Packets /\ answer.type = "ACCEPT"
        /\ answer.mac = p.mac /\ answer.token = p.token
    BY <1>1 DEF Packet, Packets
  <1>5. Said(answer)
    BY <1>1, <1>3, <1>4 DEF Said
  <1>6. granted' \subseteq Watchers
    BY <1>1, <1>3 DEF Inv, TypeOK, Packets
  <1> HIDE DEF answer
  <1> QED
    BY <1>2, <1>3, <1>5, <1>6 DEF Speaks, Accept

LEMMA RefuseSpeaks ==
    ASSUME Inv, NEW p \in network, Refuse(p) PROVE Speaks
  <1>1. p \in Packets /\ p.token <= tokens /\ session \in Nat
    BY DEF Inv, TypeOK, TokenInv, Packets
  <1> DEFINE answer == Packet("REJECT", session, p.mac, p.token, p.sequence)
  <1>2. network' \subseteq network \union {answer}
    BY ReceivedAndSent DEF Refuse
  <1>3. /\ answer \in Packets /\ answer.type = "REJECT"
        /\ answer.token = p.token
    BY <1>1 DEF Packet, Packets
  <1>4. Said(answer)
    BY <1>1, <1>3 DEF Said
  <1>5. granted \subseteq Watchers
    BY DEF Inv, TypeOK
  <1> HIDE DEF answer
  <1> QED
    BY <1>2, <1>4, <1>5 DEF Speaks, Refuse

LEMMA ClosesSpeak ==
    ASSUME Inv, HostStart \/ HostStop PROVE Speaks
  <1>1. network' \subseteq network \union Closes
    BY Sent DEF HostStart, HostStop
  <1>2. \A p \in Closes : Said(p)
    BY ClosesSound DEF Said
  <1>3. granted \subseteq Watchers
    BY DEF Inv, TypeOK
  <1> QED
    BY <1>1, <1>2, <1>3 DEF Speaks, HostStart, HostStop

(* A broadcast changes nothing but whether a watcher has found the host.   *)
LEMMA AdvertKeeps == ASSUME Inv, HostAdvert PROVE Inv'
  <1>1. UNCHANGED <<hosting, session, places, tokens, network, granted>>
    BY DEF HostAdvert, hostVars
  <1>2. PICK listeners \in SUBSET Watchers :
          watcher' = [w \in Watchers |->
                        IF w \in listeners
                          THEN [watcher[w] EXCEPT !.found = TRUE]
                          ELSE watcher[w]]
    BY DEF HostAdvert
  <1>3. /\ watcher' \in [Watchers ->
                     [state : {"out", "joining", "connected"}, session : Nat,
                      token : Nat, found : BOOLEAN, sequence : Nat,
                      accepted : Nat]]
        /\ \A w \in Watchers : /\ watcher'[w].state = watcher[w].state
                               /\ watcher'[w].token = watcher[w].token
    BY <1>2 DEF Inv, TypeOK
  <1>4. TypeOK'
    BY <1>1, <1>3 DEF Inv, TypeOK
  <1>5. TokenInv'
    BY <1>1, <1>3 DEF Inv, TokenInv
  <1>6. PacketInv'
    <2>1. \A p \in network : p.mac \in Watchers
      BY DEF Inv, TypeOK
    <2> QED
      BY <1>1, <1>3, <2>1 DEF Inv, PacketInv, Present, Joined
  <1>7. ConnectedWasGranted'
    BY <1>1, <1>3 DEF Inv, ConnectedWasGranted
  <1>8. PlaceInv' /\ OnePlacePerWatcher'
    BY <1>1 DEF Inv, PlaceInv, OnePlacePerWatcher, Occupied
  <1> QED
    BY <1>4, <1>5, <1>6, <1>7, <1>8 DEF Inv

(* Every step of the host but the broadcast speaks.                        *)
LEMMA HostSpeaks == ASSUME Inv, Host PROVE HostAdvert \/ Speaks
  <1>1. ASSUME UNCHANGED <<tokens, watcher, granted>>,
               network' \subseteq network
        PROVE  Speaks
    BY <1>1 DEF Speaks, Inv, TypeOK
  <1>2. CASE HostStart \/ HostStop
    BY <1>2, ClosesSpeak
  <1>3. CASE HostFail \/ \E i \in Places : Prune(i)
    BY <1>1, <1>3 DEF HostFail, Prune
  <1>4. ASSUME NEW p \in network, Admit(p) \/ Refresh(p)
        PROVE  Speaks
    BY <1>4, AcceptSpeaks DEF Admit, Refresh
  <1>5. ASSUME NEW p \in network, Refuse(p)
        PROVE  Speaks
    BY <1>5, RefuseSpeaks
  <1>6. ASSUME NEW p \in network, Vacate(p)
        PROVE  Speaks
    BY <1>1, <1>6, ReceivedAndSent DEF Vacate
  <1> QED
    BY <1>2, <1>3, <1>4, <1>5, <1>6 DEF Host

LEMMA HostKeeps == ASSUME Inv, Host PROVE Inv'
  <1>1. CASE HostAdvert
    BY <1>1, AdvertKeeps
  <1>2. CASE Speaks
    <2>1. /\ places' \in [Places -> [mac : Watchers \union {0}, token : Nat,
                                      sequence : Nat]]
          /\ \A i \in Places : places'[i].token <= tokens
          /\ PlaceInv' /\ OnePlacePerWatcher'
          /\ hosting' \in BOOLEAN /\ session' \in Nat
      BY HostPlaces
    <2>2. /\ tokens' = tokens /\ watcher' = watcher
          /\ granted \subseteq granted' /\ granted' \subseteq Watchers
          /\ \A p \in network' : p \in network \/ Said(p)
      BY <1>2 DEF Speaks
    <2>3. \A p \in network' : p \in Packets /\ p.token <= tokens
      BY <2>2 DEF Said, Inv, TypeOK, TokenInv, Packets
    <2>4. TypeOK'
      BY <2>1, <2>2, <2>3 DEF Inv, TypeOK, Packets
    <2>5. TokenInv'
      BY <2>1, <2>2, <2>3 DEF Inv, TokenInv
    <2>6. PacketInv'
      BY <2>2 DEF Inv, PacketInv, Present, Joined, Said
    <2>7. ConnectedWasGranted'
      BY <2>2 DEF Inv, ConnectedWasGranted
    <2> QED
      BY <2>1, <2>4, <2>5, <2>6, <2>7 DEF Inv
  <1> QED
    BY <1>1, <1>2, HostSpeaks
-----------------------------------------------------------------------------
(* The steps of the watchers leave the host alone.                         *)
WatcherType == [state : {"out", "joining", "connected"}, session : Nat,
                token : Nat, found : BOOLEAN, sequence : Nat, accepted : Nat]

LEMMA HostAlone ==
    ASSUME Inv, UNCHANGED hostVars, tokens' \in Nat, tokens <= tokens'
    PROVE  /\ PlaceInv' /\ OnePlacePerWatcher'
           /\ hosting' \in BOOLEAN /\ session' \in Nat
           /\ places' \in [Places -> [mac : Watchers \union {0}, token : Nat,
                                      sequence : Nat]]
           /\ \A i \in Places : places'[i].token <= tokens'
  <1>1. UNCHANGED <<hosting, session, places>>
    BY DEF hostVars
  <1>2. \A i \in Places : places[i].token \in Nat /\ places[i].token <= tokens
    BY DEF Inv, TypeOK, TokenInv
  <1>3. tokens \in Nat
    BY DEF Inv, TypeOK
  <1>4. \A i \in Places : places'[i].token <= tokens'
    BY <1>1, <1>2, <1>3
  <1>5. PlaceInv' /\ OnePlacePerWatcher'
    BY <1>1 DEF Inv, PlaceInv, OnePlacePerWatcher, Occupied
  <1> QED
    BY <1>1, <1>4, <1>5 DEF Inv, TypeOK

(* A watcher draws a token that no packet on its way has.                  *)
LEMMA JoinKeeps ==
    ASSUME Inv, NEW w \in Watchers, WatcherJoin(w) PROVE Inv'
  <1> DEFINE joining == [Out EXCEPT !.state = "joining", !.session = session,
                                    !.token = tokens + 1]
  <1>1. /\ UNCHANGED <<hostVars, network, granted>> /\ tokens' = tokens + 1
        /\ watcher' = [watcher EXCEPT ![w] = joining]
    BY DEF WatcherJoin
  <1>2. tokens \in Nat /\ session \in Nat
    BY DEF Inv, TypeOK
  <1>3. /\ joining \in WatcherType /\ joining.token = tokens + 1
        /\ joining.state = "joining"
    <2> DEFINE r1 == [Out EXCEPT !.state = "joining"]
               r2 == [r1 EXCEPT !.session = session]
    <2>1. Out \in WatcherType /\ tokens + 1 \in Nat
      BY <1>2 DEF Out, WatcherType
    <2>2. r1 \in WatcherType /\ r1.state = "joining"
      BY <2>1 DEF WatcherType
    <2> HIDE DEF r1
    <2>3. r2 \in WatcherType /\ r2.state = "joining"
      BY <1>2, <2>2 DEF WatcherType
    <2> HIDE DEF r2
    <2>4. [r2 EXCEPT !.token = tokens + 1]
            \in {r \in WatcherType : r.token = tokens + 1
                                    /\ r.state = "joining"}
      BY <2>1, <2>3 DEF WatcherType
    <2>5. joining = [r2 EXCEPT !.token = tokens + 1]
      BY Zenon DEF r1, r2
    <2> HIDE DEF joining
    <2> QED
      BY <2>4, <2>5
  <1> HIDE DEF joining
  <1>4. /\ watcher \in [Watchers -> WatcherType]
        /\ watcher' \in [Watchers -> WatcherType]
        /\ watcher'[w] = joining
        /\ \A v \in Watchers \ {w} : watcher'[v] = watcher[v]
    BY <1>1, <1>3 DEF Inv, TypeOK, WatcherType
  <1>5. /\ PlaceInv' /\ OnePlacePerWatcher'
        /\ hosting' \in BOOLEAN /\ session' \in Nat
        /\ places' \in [Places -> [mac : Watchers \union {0}, token : Nat,
                                   sequence : Nat]]
        /\ \A i \in Places : places'[i].token <= tokens'
    BY <1>1, <1>2, HostAlone
  <1>6. \A p \in network : p.mac \in Watchers /\ p.token \in Nat
                            /\ p.token <= tokens
    BY DEF Inv, TypeOK, TokenInv
  <1>7. TypeOK'
    BY <1>1, <1>2, <1>4, <1>5 DEF Inv, TypeOK, WatcherType
  <1>8. TokenInv'
    <2>1. \A p \in network' : p.token <= tokens'
      BY <1>1, <1>2, <1>6
    <2>2. ASSUME NEW v \in Watchers PROVE watcher'[v].token <= tokens'
      <3>1. watcher[v].token \in Nat /\ watcher[v].token <= tokens
        BY <1>4 DEF Inv, TokenInv, WatcherType
      <3> QED
        BY <1>1, <1>2, <1>3, <1>4, <3>1
    <2> QED
      BY <1>5, <2>1, <2>2 DEF TokenInv
  <1>9. PacketInv'
    <2> SUFFICES ASSUME NEW p \in network', Present(p)'
                 PROVE  /\ p.type = "ACCEPT" => p.mac \in granted'
                        /\ p.type # "LEAVE"
      BY DEF PacketInv
    <2>1. p \in network /\ p.mac \in Watchers
      BY <1>1, <1>6
    <2>2. watcher'[p.mac].token = p.token
      BY DEF Present
    <2>3. p.mac # w
      BY <1>2, <1>3, <1>4, <1>6, <2>1, <2>2
    <2>4. Present(p)
      BY <1>4, <2>1, <2>3 DEF Present, Joined
    <2> QED
      BY <1>1, <2>1, <2>4 DEF Inv, PacketInv
  <1>10. ConnectedWasGranted'
    BY <1>1, <1>3, <1>4 DEF Inv, ConnectedWasGranted
  <1> QED
    BY <1>5, <1>7, <1>8, <1>9, <1>10 DEF Inv

(* A watcher changes the state of its join and not the join itself.        *)
LEMMA SameJoinKeeps ==
    ASSUME Inv, NEW w \in Watchers, NEW row \in WatcherType,
           watcher' = [watcher EXCEPT ![w] = row],
           row.token = watcher[w].token, Joined(w),
           row.state = "connected" => w \in granted,
           UNCHANGED <<hostVars, tokens, granted>>,
           \A p \in network' :
              \/ p \in network
              \/ p \in Packets /\ p.token <= tokens /\ p.type = "JOIN"
    PROVE  Inv'
  <1>1. /\ watcher \in [Watchers -> WatcherType]
        /\ watcher' \in [Watchers -> WatcherType]
        /\ watcher'[w] = row
        /\ \A v \in Watchers \ {w} : watcher'[v] = watcher[v]
    BY DEF Inv, TypeOK, WatcherType
  <1>2. tokens \in Nat /\ tokens' = tokens
    BY DEF Inv, TypeOK
  <1>3. /\ PlaceInv' /\ OnePlacePerWatcher'
        /\ hosting' \in BOOLEAN /\ session' \in Nat
        /\ places' \in [Places -> [mac : Watchers \union {0}, token : Nat,
                                   sequence : Nat]]
        /\ \A i \in Places : places'[i].token <= tokens'
    BY <1>2, HostAlone
  <1>4. \A p \in network' : p \in Packets /\ p.token <= tokens
    BY DEF Inv, TypeOK, TokenInv, Packets
  <1>5. TypeOK'
    BY <1>1, <1>2, <1>3, <1>4 DEF Inv, TypeOK, WatcherType, Packets
  <1>6. TokenInv'
    BY <1>1, <1>2, <1>3, <1>4 DEF Inv, TokenInv
  <1>7. PacketInv'
    <2> SUFFICES ASSUME NEW p \in network', Present(p)'
                 PROVE  /\ p.type = "ACCEPT" => p.mac \in granted'
                        /\ p.type # "LEAVE"
      BY DEF PacketInv
    <2>1. p.mac \in Watchers
      BY <1>4 DEF Packets
    <2>2. Present(p)
      BY <1>1, <2>1 DEF Present, Joined
    <2> QED
      BY <2>2 DEF Inv, PacketInv
  <1>8. ConnectedWasGranted'
    BY <1>1 DEF Inv, ConnectedWasGranted
  <1> QED
    BY <1>3, <1>5, <1>6, <1>7, <1>8 DEF Inv

(* A watcher gives up, with or without a LEAVE.                            *)
LEMMA OutKeeps ==
    ASSUME Inv, NEW w \in Watchers, watcher' = [watcher EXCEPT ![w] = Out],
           granted' = granted \ {w}, UNCHANGED <<hostVars, tokens>>,
           \A p \in network' :
              \/ p \in network
              \/ p \in Packets /\ p.token <= tokens /\ p.mac = w
    PROVE  Inv'
  <1>0. Out \in WatcherType /\ Out.token = 0 /\ Out.state = "out"
    BY DEF Out, WatcherType
  <1>1. /\ watcher \in [Watchers -> WatcherType]
        /\ watcher' \in [Watchers -> WatcherType]
        /\ watcher'[w] = Out
        /\ \A v \in Watchers \ {w} : watcher'[v] = watcher[v]
    BY <1>0 DEF Inv, TypeOK, WatcherType
  <1>2. tokens \in Nat /\ tokens' = tokens
    BY DEF Inv, TypeOK
  <1>3. /\ PlaceInv' /\ OnePlacePerWatcher'
        /\ hosting' \in BOOLEAN /\ session' \in Nat
        /\ places' \in [Places -> [mac : Watchers \union {0}, token : Nat,
                                   sequence : Nat]]
        /\ \A i \in Places : places'[i].token <= tokens'
    BY <1>2, HostAlone
  <1>4. \A p \in network' : p \in Packets /\ p.token <= tokens
    BY DEF Inv, TypeOK, TokenInv, Packets
  <1>5. TypeOK'
    BY <1>1, <1>2, <1>3, <1>4 DEF Inv, TypeOK, WatcherType, Packets
  <1>6. TokenInv'
    BY <1>0, <1>1, <1>2, <1>3, <1>4 DEF Inv, TokenInv
  <1>7. PacketInv'
    <2> SUFFICES ASSUME NEW p \in network', Present(p)'
                 PROVE  /\ p.type = "ACCEPT" => p.mac \in granted'
                        /\ p.type # "LEAVE"
      BY DEF PacketInv
    <2>1. p.mac \in Watchers
      BY <1>4 DEF Packets
    <2>2. p.mac # w
      BY <1>0, <1>1 DEF Present, Joined
    <2>3. p \in network /\ Present(p)
      BY <1>1, <2>1, <2>2 DEF Present, Joined
    <2> QED
      BY <2>2, <2>3 DEF Inv, PacketInv
  <1>8. ConnectedWasGranted'
    BY <1>0, <1>1 DEF Inv, ConnectedWasGranted
  <1> QED
    BY <1>3, <1>5, <1>6, <1>7, <1>8 DEF Inv

(* Every step of a watcher is one of these three.                          *)
LEMMA WatcherKeeps ==
    ASSUME Inv, NEW w \in Watchers, Watcher(w) PROVE Inv'
  <1>0. /\ watcher[w] \in WatcherType /\ watcher[w].token <= tokens
        /\ watcher \in [Watchers -> WatcherType]
    BY DEF Inv, TypeOK, TokenInv, WatcherType
  <1>1. CASE WatcherJoin(w)
    BY <1>1, JoinKeeps
  <1>2. CASE SendJoin(w)
    <2> DEFINE next == watcher[w].sequence + 1
               row  == [watcher[w] EXCEPT !.sequence = next]
               join == Packet("JOIN", watcher[w].session, w, watcher[w].token,
                              next)
    <2>1. /\ Joined(w) /\ UNCHANGED <<hostVars, tokens, granted>>
          /\ watcher' = [watcher EXCEPT ![w].sequence = next]
          /\ SendFrom(network, {join})
      BY <1>2 DEF SendJoin
    <2>2. next \in Nat
      BY <1>0 DEF WatcherType
    <2>3. /\ row \in WatcherType /\ row.token = watcher[w].token
          /\ row.state = watcher[w].state
      BY <1>0, <2>2 DEF WatcherType
    <2>4. watcher' = [watcher EXCEPT ![w] = row]
      BY <1>0, <2>1
    <2>5. /\ join \in Packets /\ join.type = "JOIN"
          /\ join.token = watcher[w].token
      BY <1>0, <2>2 DEF WatcherType, Packet, Packets
    <2>6. row.state = "connected" => w \in granted
      BY <2>3 DEF Inv, ConnectedWasGranted
    <2> HIDE DEF row, join, next
    <2>7. network' \subseteq network \union {join}
      BY <2>1, Sent
    <2> QED
      BY <1>0, <2>1, <2>3, <2>4, <2>5, <2>6, <2>7, SameJoinKeeps
  <1>3. ASSUME NEW p \in network, HearAccept(w, p) PROVE Inv'
    <2> DEFINE row == [watcher[w] EXCEPT !.accepted = p.sequence,
                                         !.state = "connected"]
    <2>1. /\ Joined(w) /\ UNCHANGED <<hostVars, tokens, granted>>
          /\ p.mac = w /\ p.token = watcher[w].token /\ p.type = "ACCEPT"
          /\ watcher' = [watcher EXCEPT ![w].accepted = p.sequence,
                                        ![w].state = "connected"]
      BY <1>3 DEF HearAccept, ToWatcher
    <2>2. p.sequence \in Nat
      BY DEF Inv, TypeOK
    <2>3. row \in WatcherType /\ row.token = watcher[w].token
      BY <1>0, <2>2 DEF WatcherType
    <2>4. watcher' = [watcher EXCEPT ![w] = row]
      BY <1>0, <2>1
    <2>5. w \in granted
      BY <2>1 DEF Inv, PacketInv, Present
    <2>6. network' \subseteq network
      BY <1>3, ReceivedAndSent DEF HearAccept
    <2> HIDE DEF row
    <2> QED
      BY <2>1, <2>3, <2>4, <2>5, <2>6, SameJoinKeeps
  <1>4. ASSUME NEW p \in network, HearRefusal(w, p) PROVE Inv'
    <2>1. network' \subseteq network
      BY <1>4, ReceivedAndSent DEF HearRefusal
    <2> QED
      BY <1>4, <2>1, OutKeeps DEF HearRefusal
  <1>5. CASE WatcherLeave(w)
    <2> DEFINE leave == Packet("LEAVE", watcher[w].session, w,
                               watcher[w].token, watcher[w].sequence)
    <2>1. SendFrom(network, {p \in {leave} : watcher[w].found})
      BY <1>5 DEF WatcherLeave
    <2>2. /\ leave \in Packets /\ leave.mac = w
          /\ leave.token = watcher[w].token
      BY <1>0 DEF WatcherType, Packet, Packets
    <2> HIDE DEF leave
    <2>3. network' \subseteq network \union {leave}
      BY <2>1, Sent
    <2>4. /\ UNCHANGED <<hostVars, tokens>> /\ granted' = granted \ {w}
          /\ watcher' = [watcher EXCEPT ![w] = Out]
      BY <1>5 DEF WatcherLeave
    <2> QED
      BY <1>0, <2>2, <2>3, <2>4, OutKeeps
  <1>6. CASE WatcherFail(w)
    BY <1>6, OutKeeps DEF WatcherFail
  <1> QED
    BY <1>1, <1>2, <1>3, <1>4, <1>5, <1>6 DEF Watcher

(* Fewer packets are no harm.                                              *)
LEMMA LoseKeeps == ASSUME Inv, NEW p \in network, Lose(p) PROVE Inv'
  <1>1. /\ network' \subseteq network
        /\ UNCHANGED <<hosting, session, places, tokens, watcher, granted>>
    BY DEF Lose, hostVars
  <1>2. TypeOK'
    BY <1>1 DEF Inv, TypeOK
  <1>3. TokenInv'
    BY <1>1 DEF Inv, TokenInv
  <1>4. PacketInv'
    BY <1>1 DEF Inv, PacketInv, Present, Joined
  <1>5. PlaceInv' /\ OnePlacePerWatcher' /\ ConnectedWasGranted'
    BY <1>1 DEF Inv, PlaceInv, OnePlacePerWatcher, ConnectedWasGranted, Occupied
  <1> QED
    BY <1>2, <1>3, <1>4, <1>5 DEF Inv

LEMMA Inductive == Inv /\ [Next]_vars => Inv'
  <1> SUFFICES ASSUME Inv, [Next]_vars PROVE Inv'
    OBVIOUS
  <1>1. CASE Host
    BY <1>1, HostKeeps
  <1>2. CASE \E w \in Watchers : Watcher(w)
    BY <1>2, WatcherKeeps
  <1>3. CASE \E p \in network : Lose(p)
    BY <1>3, LoseKeeps
  <1>4. CASE UNCHANGED vars
    <2>1. UNCHANGED <<hosting, session, places, tokens, watcher, network,
                      granted>>
      BY <1>4 DEF vars, hostVars
    <2> QED
      BY <2>1 DEF Inv, TypeOK, TokenInv, PlaceInv, PacketInv, Present, Joined,
                  OnePlacePerWatcher, ConnectedWasGranted, Occupied
  <1> QED
    BY <1>1, <1>2, <1>3, <1>4 DEF Next

(* The parts of the invariant hold of every room, together.                *)
THEOREM Invariance == Spec => []Inv
  BY Initially, Inductive, PTL DEF Spec

(* Every variable of the room protocol keeps its type.                     *)
THEOREM TypeCorrect == Spec => []TypeOK
  <1>1. Inv => TypeOK
    BY DEF Inv
  <1> QED
    BY <1>1, Invariance, PTL

(* No watcher ever has two places of a room.                               *)
THEOREM OnePlaceEach == Spec => []OnePlacePerWatcher
  <1>1. Inv => OnePlacePerWatcher
    BY DEF Inv
  <1> QED
    BY <1>1, Invariance, PTL

(* No watcher shows itself connected to a room that did not let it in.     *)
THEOREM ConnectedOnlyWhenGranted == Spec => []ConnectedWasGranted
  <1>1. Inv => ConnectedWasGranted
    BY DEF Inv
  <1> QED
    BY <1>1, Invariance, PTL
-----------------------------------------------------------------------------
(* No step but the place's own timeout takes a live place away.            *)
LEMMA StepKeepsLivePlaces ==
    ASSUME Inv, Next, NEW i \in Places, i \in Occupied, Live(i), ~Prune(i),
           hosting', session' = session
    PROVE  /\ places'[i].mac = places[i].mac
           /\ places'[i].token = places[i].token
  <1>0. places[i].mac \in Watchers /\ session \in Nat
    BY DEF Inv, PlaceInv, TypeOK
  <1>1. CASE UNCHANGED places
    BY <1>1
  <1>2. CASE HostStart \/ HostStop
    BY <1>0, <1>2 DEF HostStart, HostStop
  <1>3. CASE HostFail \/ HostAdvert
    BY <1>1, <1>3 DEF HostFail, HostAdvert, hostVars
  <1>4. ASSUME NEW k \in Places, Prune(k)
        PROVE  places'[i] = places[i]
    BY <1>4 DEF Prune, Inv, TypeOK
  <1>5. ASSUME NEW p \in network, Admit(p)
        PROVE  places'[i] = places[i]
    BY <1>5 DEF Admit, Inv, TypeOK
  <1>6. ASSUME NEW p \in network, Refresh(p)
        PROVE  /\ places'[i].mac = places[i].mac
               /\ places'[i].token = places[i].token
    BY <1>6 DEF Refresh, Inv, TypeOK
  <1>7. ASSUME NEW p \in network, Vacate(p)
        PROVE  places'[i] = places[i]
    <2>1. PICK k \in PlaceOf(p.mac) :
            /\ places[k].token = p.token
            /\ places' = [places EXCEPT ![k] = FreePlace]
      BY <1>7 DEF Vacate
    <2>2. k \in Occupied /\ places[k].mac = p.mac /\ p.type = "LEAVE"
      BY <1>7, <2>1 DEF PlaceOf, Vacate
    <2>3. ~Present(p)
      BY <2>2 DEF Inv, PacketInv
    <2>4. k # i
      BY <2>1, <2>2, <2>3 DEF Present, Live
    <2> QED
      BY <2>1, <2>4 DEF Inv, TypeOK
  <1>8. ASSUME NEW p \in network, Refuse(p) \/ Lose(p)
        PROVE  UNCHANGED places
    BY <1>8 DEF Refuse, Lose, hostVars
  <1>9. ASSUME NEW w \in Watchers, Watcher(w)
        PROVE  UNCHANGED places
    BY <1>9 DEF Watcher, WatcherJoin, SendJoin, WatcherLeave, WatcherFail,
                HearAccept, HearRefusal, hostVars
  <1> QED
    BY <1>1, <1>2, <1>3, <1>4, <1>5, <1>6, <1>7, <1>8, <1>9 DEF Next, Host

(* In an open room only its own timeout takes a place from a join that     *)
(* goes on: never a packet, however old, and never another watcher.        *)
THEOREM LivePlacesAreKept == Spec => LivePlaceKept
  <1>1. Inv /\ [Next]_vars =>
          [\A i \in Places :
             /\ i \in Occupied /\ Live(i) /\ ~Prune(i)
             /\ hosting' /\ session' = session
             => /\ places'[i].mac = places[i].mac
                /\ places'[i].token = places[i].token]_vars
    BY StepKeepsLivePlaces
  <1> QED
    BY <1>1, Invariance, PTL DEF Spec, LivePlaceKept
=============================================================================
