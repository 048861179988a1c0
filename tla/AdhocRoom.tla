------------------------------- MODULE AdhocRoom -------------------------------
(***************************************************************************)
(* The room protocol of psp/adhoc.c: one host gives out places, watchers   *)
(* ask for one with JOIN twice a second under a token of their own and a   *)
(* sequence number.  Packets get lost, arrive late and out of order.       *)
(*                                                                         *)
(* The radio and the worker thread below are AdhocWorker's subject: here   *)
(* either end may fail at any time, and a timeout (3 s for a place, 3 s or *)
(* 5 s for a watcher) may run out whenever nothing came that restarts it.  *)
(* Nonces are numbered in the order they are drawn.  The PROGRESS packet   *)
(* that follows every ACCEPT changes only what the watcher displays and is *)
(* left out.                                                               *)
(***************************************************************************)
EXTENDS Integers, FiniteSets

CONSTANTS
    Watchers,      (* the MAC addresses of the other PSPs                    *)
    Places,        (* indices of sPeers                                      *)
    MaxSessions,   (* bound: rooms opened by the host                        *)
    MaxTokens,     (* bound: joins attempted by the time of each room        *)
    MaxSequence,   (* bound: JOIN packets of each join                       *)
    MaxInFlight    (* packets the air holds; a send beyond would block and   *)
                   (* is dropped                                             *)

ASSUME RoomAssumption ==
    /\ 0 \notin Watchers
    /\ {MaxSessions, MaxInFlight} \subseteq Nat
    /\ MaxTokens \in [1..MaxSessions -> Nat]
    /\ \A s \in 1..MaxSessions : 1..MaxTokens[s] \subseteq DOMAIN MaxSequence
    /\ \A t \in DOMAIN MaxSequence : MaxSequence[t] \in Nat

VARIABLES
    hosting,       (* the host's socket is open                              *)
    session,       (* sSession of the host                                   *)
    places,        (* sPeers; token 0 marks a free one                       *)
    tokens,        (* nonces drawn by watchers so far                        *)
    watcher,       (* what each watcher knows of its join                    *)
    network,       (* packets on their way                                   *)
    granted        (* history: watchers whose present join the host accepted *)

hostVars == <<hosting, session, places>>
vars == <<hostVars, tokens, watcher, network, granted>>

FreePlace == [mac |-> 0, token |-> 0, sequence |-> 0]
Out == [state |-> "out", session |-> 0, token |-> 0, found |-> FALSE,
        sequence |-> 0, accepted |-> 0]

Init ==
    /\ hosting = FALSE /\ session = 0
    /\ places = [i \in Places |-> FreePlace]
    /\ tokens = 0 /\ watcher = [w \in Watchers |-> Out]
    /\ network = {} /\ granted = {}

Joined(w) == watcher[w].state \in {"joining", "connected"}
-----------------------------------------------------------------------------
(* Packets.  mac is the watcher's, sender or receiver.                     *)

Packet(type, s, w, t, n) ==
    [type |-> type, session |-> s, mac |-> w, token |-> t, sequence |-> n]

(* Send the packets there is room for; the others would block.             *)
SendFrom(air, packets) ==
    \E sent \in SUBSET packets :
        /\ network' = air \union sent
        /\ Cardinality(network') <= MaxInFlight
        /\ sent = packets \/ Cardinality(network') = MaxInFlight

ReceiveAndSend(p, packets) ==
    p \in network /\ SendFrom(network \ {p}, packets)

Lose(p) ==
    /\ p \in network /\ network' = network \ {p}
    /\ UNCHANGED <<hostVars, tokens, watcher, granted>>
-----------------------------------------------------------------------------
(* The host.                                                               *)

Occupied == {i \in Places : places[i].token # 0}
PlaceOf(w) == {i \in Occupied : places[i].mac = w}

(* adhoc_leave: tell everyone who has a place.                             *)
Closes ==
    IF hosting THEN {Packet("CLOSE", session, places[i].mac, places[i].token,
                            places[i].sequence) : i \in Occupied}
               ELSE {}

(* PspAdhoc_Host, and the worker opening the room it asks for.             *)
HostStart ==
    /\ session < MaxSessions
    /\ hosting' = TRUE /\ session' = session + 1
    /\ places' = [i \in Places |-> FreePlace]
    /\ SendFrom(network, Closes)
    /\ UNCHANGED <<tokens, watcher, granted>>

HostStop ==
    /\ hosting /\ hosting' = FALSE
    /\ places' = [i \in Places |-> FreePlace]
    /\ SendFrom(network, Closes)
    /\ UNCHANGED <<session, tokens, watcher, granted>>

(* Any error of adhoc_step closes the socket without a word.               *)
HostFail ==
    /\ hosting /\ hosting' = FALSE
    /\ UNCHANGED <<session, places, tokens, watcher, network, granted>>

(* The broadcast from which watchers learn the host's address              *)
(* (adhoc_advert); any number of those that wait for it hear it.           *)
HostAdvert ==
    /\ hosting
    /\ \E listeners \in SUBSET {w \in Watchers :
                               /\ watcher[w].state = "joining"
                               /\ watcher[w].session = session} :
         watcher' = [w \in Watchers |->
                       IF w \in listeners THEN [watcher[w] EXCEPT !.found = TRUE]
                                         ELSE watcher[w]]
    /\ UNCHANGED <<hostVars, tokens, network, granted>>

(* Variant: places are looked over only when the room is full.             *)
PruneFull(i) ==
    /\ hosting /\ i \in Occupied /\ Occupied = Places
    /\ places' = [places EXCEPT ![i] = FreePlace]
    /\ UNCHANGED <<hosting, session, tokens, watcher, network, granted>>

(* adhoc_prune: three seconds have passed without a newer JOIN for place i.*)
Prune(i) ==
    /\ hosting /\ i \in Occupied
    /\ places' = [places EXCEPT ![i] = FreePlace]
    /\ UNCHANGED <<hosting, session, tokens, watcher, network, granted>>
-----------------------------------------------------------------------------
(* adhoc_host_packet.                                                      *)

ToHost(p) == hosting /\ p \in network /\ p.session = session

Accept(p) ==
    /\ granted' = granted \union {w \in {p.mac} : watcher[w].token = p.token}
    /\ ReceiveAndSend(p, {Packet("ACCEPT", session, p.mac, p.token, p.sequence)})
    /\ UNCHANGED <<hosting, session, tokens, watcher>>

(* Variant: a place is looked up by watcher and token.                     *)
AdmitJoin(p) ==
    /\ ToHost(p) /\ p.type = "JOIN"
    /\ \A i \in PlaceOf(p.mac) : places[i].token # p.token
    /\ \E i \in Places \ Occupied :
         places' = [places EXCEPT ![i] =
                     [mac |-> p.mac, token |-> p.token,
                      sequence |-> p.sequence]]
    /\ Accept(p)

(* A JOIN of a watcher that has no place takes a free one.                 *)
Admit(p) ==
    /\ ToHost(p) /\ p.type = "JOIN" /\ PlaceOf(p.mac) = {}
    /\ \E i \in Places \ Occupied :
         places' = [places EXCEPT ![i] =
                     [mac |-> p.mac, token |-> p.token,
                      sequence |-> p.sequence]]
    /\ Accept(p)

(* A JOIN of the same join as before; only a newer one keeps the place.    *)
Refresh(p) ==
    /\ ToHost(p) /\ p.type = "JOIN"
    /\ \E i \in PlaceOf(p.mac) :
         /\ places[i].token = p.token
         /\ places' = IF p.sequence > places[i].sequence
                        THEN [places EXCEPT ![i].sequence = p.sequence]
                        ELSE places
    /\ Accept(p)

(* The room is full, or the watcher's place belongs to another join.       *)
Refuse(p) ==
    /\ ToHost(p) /\ p.type = "JOIN"
    /\ \/ PlaceOf(p.mac) = {} /\ Occupied = Places
       \/ \E i \in PlaceOf(p.mac) : places[i].token # p.token
    /\ ReceiveAndSend(p, {Packet("REJECT", session, p.mac, p.token, p.sequence)})
    /\ UNCHANGED <<hostVars, tokens, watcher, granted>>

(* Variant: the token of a LEAVE is not compared.                          *)
VacateAny(p) ==
    /\ ToHost(p) /\ p.type = "LEAVE"
    /\ \E i \in PlaceOf(p.mac) :
         places' = [places EXCEPT ![i] = FreePlace]
    /\ ReceiveAndSend(p, {})
    /\ UNCHANGED <<hosting, session, tokens, watcher, granted>>

Vacate(p) ==
    /\ ToHost(p) /\ p.type = "LEAVE"
    /\ \E i \in PlaceOf(p.mac) :
         /\ places[i].token = p.token
         /\ places' = [places EXCEPT ![i] = FreePlace]
    /\ ReceiveAndSend(p, {})
    /\ UNCHANGED <<hosting, session, tokens, watcher, granted>>
-----------------------------------------------------------------------------
(* A watcher.                                                              *)

(* The user picks the room last seen in a scan, and the radio joins it.    *)
WatcherJoin(w) ==
    /\ watcher[w] = Out /\ session > 0 /\ tokens < MaxTokens[session]
    /\ tokens' = tokens + 1
    /\ watcher' = [watcher EXCEPT ![w] =
                    [Out EXCEPT !.state = "joining", !.session = session,
                                !.token = tokens + 1]]
    /\ UNCHANGED <<hostVars, network, granted>>

SendJoin(w) ==
    LET next == watcher[w].sequence + 1
    IN  /\ Joined(w) /\ watcher[w].found
        /\ next <= MaxSequence[watcher[w].token]
        /\ watcher' = [watcher EXCEPT ![w].sequence = next]
        /\ SendFrom(network, {Packet("JOIN", watcher[w].session, w,
                                     watcher[w].token, next)})
        /\ UNCHANGED <<hostVars, tokens, granted>>

(* adhoc_packet: what a watcher takes for its own.                         *)
ToWatcherAnyJoin(w, p) ==
    /\ Joined(w) /\ watcher[w].found /\ p \in network /\ p.mac = w
    /\ p.session = watcher[w].session

ToWatcher(w, p) ==
    /\ Joined(w) /\ watcher[w].found /\ p \in network /\ p.mac = w
    /\ p.session = watcher[w].session /\ p.token = watcher[w].token

HearAccept(w, p) ==
    /\ ToWatcher(w, p) /\ p.type = "ACCEPT"
    /\ p.sequence <= watcher[w].sequence /\ p.sequence > watcher[w].accepted
    /\ watcher' = [watcher EXCEPT ![w].accepted = p.sequence,
                                  ![w].state = "connected"]
    /\ ReceiveAndSend(p, {})
    /\ UNCHANGED <<hostVars, tokens, granted>>

HearRefusal(w, p) ==
    /\ ToWatcher(w, p) /\ p.type \in {"REJECT", "CLOSE"}
    /\ p.sequence <= watcher[w].sequence
    /\ watcher' = [watcher EXCEPT ![w] = Out] /\ granted' = granted \ {w}
    /\ ReceiveAndSend(p, {})
    /\ UNCHANGED <<hostVars, tokens>>

(* adhoc_leave, when another request replaces the join.                    *)
WatcherLeave(w) ==
    /\ Joined(w)
    /\ watcher' = [watcher EXCEPT ![w] = Out] /\ granted' = granted \ {w}
    /\ SendFrom(network,
                {p \in {Packet("LEAVE", watcher[w].session, w,
                               watcher[w].token, watcher[w].sequence)} :
                   watcher[w].found})
    /\ UNCHANGED <<hostVars, tokens>>

(* A timeout or an error: nothing is sent.                                 *)
WatcherFail(w) ==
    /\ Joined(w)
    /\ watcher' = [watcher EXCEPT ![w] = Out] /\ granted' = granted \ {w}
    /\ UNCHANGED <<hostVars, tokens, network>>
-----------------------------------------------------------------------------
Host ==
    \/ HostStart \/ HostStop \/ HostFail \/ HostAdvert
    \/ \E i \in Places : Prune(i)
    \/ \E p \in network : Admit(p) \/ Refresh(p) \/ Refuse(p) \/ Vacate(p)

Watcher(w) ==
    \/ WatcherJoin(w) \/ SendJoin(w) \/ WatcherLeave(w) \/ WatcherFail(w)
    \/ \E p \in network : HearAccept(w, p) \/ HearRefusal(w, p)

Next == Host \/ (\E w \in Watchers : Watcher(w)) \/ \E p \in network : Lose(p)

Spec == Init /\ [][Next]_vars

(* A place is given up unless its join is still going on.                  *)
Live(i) == Joined(places[i].mac) /\ watcher[places[i].mac].token = places[i].token
Abandoned(i) == i \in Occupied /\ ~Live(i)

(* Time passes: with nobody sending JOINs, a place's three seconds run out *)
(* and the host, which looks every 20 ms, notices.                         *)
Fairness == \A i \in Places : WF_vars(Abandoned(i) /\ Prune(i))

FairSpec == Spec /\ Fairness
-----------------------------------------------------------------------------
TypeOK ==
    /\ hosting \in BOOLEAN /\ session \in Nat
    /\ tokens \in Nat
    /\ places \in [Places -> [mac : Watchers \union {0}, token : Nat,
                              sequence : Nat]]
    /\ watcher \in [Watchers ->
                     [state : {"out", "joining", "connected"}, session : Nat,
                      token : Nat, found : BOOLEAN, sequence : Nat,
                      accepted : Nat]]
    /\ network \subseteq
         [type : {"JOIN", "LEAVE", "ACCEPT", "REJECT", "CLOSE"},
          session : Nat, mac : Watchers, token : Nat, sequence : Nat]
    /\ granted \subseteq Watchers

(* A watcher never has two of the room's places, however its JOINs, old    *)
(* and new, and its LEAVEs are delayed, repeated and reordered.            *)
OnePlacePerWatcher ==
    \A i, j \in Occupied : places[i].mac = places[j].mac => i = j

(* A watcher that shows itself connected was given a place for this very   *)
(* join, in this very room.                                                *)
ConnectedWasGranted ==
    \A w \in Watchers :
        watcher[w].state = "connected" => w \in granted

(* While a room stays open, a join that goes on keeps its place unless its *)
(* JOINs stop coming for three seconds: no late packet of an earlier join, *)
(* and no other watcher, takes it away.                                    *)
LivePlaceKept ==
    [][\A i \in Places :
         /\ i \in Occupied /\ Live(i) /\ ~Prune(i)
         /\ hosting' /\ session' = session
         => /\ places'[i].mac = places[i].mac
            /\ places'[i].token = places[i].token]_vars

(* A watcher that is gone, with or without a word, gives its place back.   *)
AbandonedPlaceFreed ==
    \A w \in Watchers :
        <>[](watcher[w] = Out) => <>[](hosting => PlaceOf(w) = {})
=============================================================================
