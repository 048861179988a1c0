------------------------------ MODULE AdhocWorker ------------------------------
(***************************************************************************)
(* The worker thread of psp/adhoc.c and its single-slot request: the       *)
(* graphics thread replaces the request at any time, the worker opens and  *)
(* closes the layers of the radio one system call at a time.               *)
(*                                                                         *)
(* sSerial = sRequest.serial is the variable `current': the worker's       *)
(* serial is that of the request it took last, so only their equality      *)
(* matters.  The graphics thread has the higher priority: it replaces a    *)
(* request and wakes the worker in one step.  What the packets say is      *)
(* AdhocRoom's subject; a step of a session that fails, for whatever       *)
(* reason, is StepFails.                                                   *)
(***************************************************************************)
EXTENDS Naturals, Sequences

VARIABLES
    started,       (* sThread >= 0                                           *)
    request,       (* sRequest.action                                        *)
    current,       (* sSerial = sRequest.serial                              *)
    wakeup,        (* a wake-up is pending                                   *)
    published,     (* sPublished.state                                       *)
    worker,        (* where the worker is                                    *)
    taken,         (* the action of the request it applies                   *)
    view,          (* sView.state                                            *)
    host,          (* sHost                                                  *)
    scan, join,    (* sScanPending, sJoinPending                             *)
    layers,        (* sResources: what the worker opened and must close      *)
    foreign,       (* modules somebody else had loaded                       *)
    failed         (* history: the last cleanup was stopped by an error      *)

session == <<host, scan, join>>
workerVars == <<taken, view, session, layers, failed>>
adhocVars == <<started, request, current, wakeup, published, worker,
               workerVars, foreign>>

Stack == <<"common", "module", "net", "adhoc", "control", "handler", "socket">>
Top == CHOOSE i \in DOMAIN Stack :
         /\ Stack[i] \in layers
         /\ \A j \in DOMAIN Stack : Stack[j] \in layers => j <= i

(* worker: "look", "apply", "check", "step", "sleep", "ended", an index of *)
(* Stack while that layer is being opened, or <<"close", why>>.            *)
Closing(why) == <<"close", why>>
OpeningAt == 1..Len(Stack)

AdhocInit ==
    /\ started = FALSE /\ request = "none" /\ current = TRUE
    /\ wakeup = FALSE /\ published = "idle" /\ worker = <<"look">>
    /\ taken = "none" /\ view = "idle"
    /\ host = FALSE /\ scan = FALSE /\ join = FALSE
    /\ layers = {} /\ failed = FALSE
    /\ foreign \in SUBSET {"common", "module"}
-----------------------------------------------------------------------------
(* adhoc_request, called by the graphics thread.                           *)

Placeholder(action) ==
    IF action \in {"stop", "exit"} THEN "stopping" ELSE "starting"

RequestFrom(action) ==
    \/ /\ ~started /\ action \in {"stop", "exit"}
       /\ UNCHANGED adhocVars
    \/ /\ ~started /\ action \notin {"stop", "exit"}
       /\ published' = "error"
       /\ UNCHANGED <<started, request, current, wakeup, worker, workerVars,
                      foreign>>
    \/ /\ started \/ action \notin {"stop", "exit"}
       /\ started' = TRUE /\ request' = action /\ current' = FALSE
       /\ published' = Placeholder(action) /\ wakeup' = TRUE
       /\ UNCHANGED <<worker, workerVars, foreign>>
-----------------------------------------------------------------------------
(* adhoc_publish, at the end of a step that leaves the view as shown.      *)

(* Variant: the view is published whatever was requested meanwhile.        *)
PublishAlways(shown) == view' = shown /\ published' = shown

Publish(shown) ==
    /\ view' = shown
    /\ published' = IF current THEN shown ELSE published

At(pc) == started /\ worker = pc
Goto(pc) == worker' = pc /\ UNCHANGED <<started, request, foreign>>

TakeRequest ==
    /\ At(<<"look">>) /\ ~current
    /\ taken' = request /\ current' = TRUE /\ Goto(<<"apply">>)
    /\ UNCHANGED <<wakeup, published, view, session, layers, failed>>

NoRequest ==
    /\ At(<<"look">>) /\ current /\ Goto(<<"check">>)
    /\ UNCHANGED <<current, wakeup, published, workerVars>>

(* A room of the last search is joined without closing anything.           *)
FastJoin == /\ taken = "join" /\ "control" \in layers /\ ~host
            /\ view \in {"searching", "results"}

ApplyJoin ==
    /\ At(<<"apply">>) /\ FastJoin
    /\ join' = TRUE /\ Publish("joining") /\ Goto(<<"check">>)
    /\ UNCHANGED <<current, wakeup, taken, host, scan, layers, failed>>

(* adhoc_leave may fail to say goodbye; the layers are closed all the same.*)
ApplyOther ==
    /\ At(<<"apply">>) /\ ~FastJoin
    /\ \/ UNCHANGED <<view, published>>
       \/ "socket" \in layers /\ Publish("error")
    /\ Goto(Closing("request"))
    /\ UNCHANGED <<current, wakeup, taken, session, layers, failed>>
-----------------------------------------------------------------------------
(* adhoc_cleanup: from the top down, one layer per step.                   *)

IsClosing == \E why \in {"request", "open", "error"} : At(Closing(why))
AfterClosing == IF worker = Closing("error") THEN <<"look">> ELSE <<"check">>

(* Variant: the layers are closed in the order in which they were opened.  *)
CloseBottom ==
    /\ IsClosing /\ layers # {}
    /\ \E i \in OpeningAt :
         /\ Stack[i] \in layers
         /\ \A j \in 1..(i - 1) : Stack[j] \notin layers
         /\ layers' = layers \ {Stack[i]}
    /\ Goto(worker)
    /\ UNCHANGED <<current, wakeup, published, taken, view, session, failed>>

CloseLayer ==
    /\ IsClosing /\ layers # {}
    /\ layers' = layers \ {Stack[Top]} /\ Goto(worker)
    /\ UNCHANGED <<current, wakeup, published, taken, view, session, failed>>

CloseFails ==
    /\ IsClosing /\ layers # {}
    /\ Publish("error") /\ failed' = TRUE
    /\ Goto(IF worker = Closing("request") /\ taken = "exit" THEN <<"ended">>
                                                          ELSE AfterClosing)
    /\ UNCHANGED <<current, wakeup, taken, session, layers>>

(* The failed session is closed: the worker looks for a request again.     *)
ClosedAfterFailure ==
    /\ IsClosing /\ layers = {} /\ worker # Closing("request")
    /\ failed' = FALSE /\ Goto(AfterClosing)
    /\ UNCHANGED <<current, wakeup, published, taken, view, session, layers>>

Closed == At(Closing("request")) /\ layers = {} /\ failed' = FALSE

ClosedOutdated ==
    /\ Closed /\ ~current /\ Goto(<<"check">>)
    /\ UNCHANGED <<current, wakeup, published, taken, view, session, layers>>

Stopped ==
    /\ Closed /\ current /\ taken = "stop"
    /\ Publish("idle") /\ Goto(<<"check">>)
    /\ UNCHANGED <<current, wakeup, taken, session, layers>>

Ended ==
    /\ Closed /\ current /\ taken = "exit"
    /\ view' = "idle" /\ Goto(<<"ended">>)
    /\ UNCHANGED <<current, wakeup, published, taken, session, layers>>

JoinOutdated ==
    /\ Closed /\ current /\ taken = "join"
    /\ Publish("error") /\ Goto(<<"check">>)
    /\ UNCHANGED <<current, wakeup, taken, session, layers>>

(* The view starts anew; adhoc_open first looks at the WLAN switch.        *)
StartOpening ==
    /\ Closed /\ current /\ taken \in {"host", "search"}
    /\ host' = (taken = "host")
    /\ \/ Publish("starting") /\ Goto(<<"open", 1>>)
       \/ Publish("error") /\ Goto(Closing("open"))
    /\ UNCHANGED <<current, wakeup, taken, scan, join, layers>>
-----------------------------------------------------------------------------
(* adhoc_open: from the bottom up, looking for a newer request in between. *)

Opening(i) == At(<<"open", i>>) /\ Stack[i] # "socket"

OpenLayer(i) ==
    /\ Opening(i)
    /\ layers' = layers \union ({Stack[i]} \ foreign)
    /\ Goto(IF current THEN <<"open", i + 1>> ELSE Closing("open"))
    /\ UNCHANGED <<current, wakeup, published, taken, view, session, failed>>

OpenFails ==
    /\ \E i \in OpeningAt : At(<<"open", i>>)
    /\ Publish("error") /\ Goto(Closing("open"))
    /\ UNCHANGED <<current, wakeup, taken, session, layers, failed>>

(* All open but the socket: create the group or scan for one.  The last    *)
(* look for a newer request comes after the WLAN address was read.         *)
OpenOutdated ==
    /\ At(<<"open", Len(Stack)>>) /\ ~current /\ Goto(Closing("open"))
    /\ UNCHANGED <<current, wakeup, published, workerVars>>

OpenDone ==
    /\ At(<<"open", Len(Stack)>>) /\ current
    /\ join' = FALSE /\ scan' = ~host
    /\ Publish(IF host THEN "starting" ELSE "searching")
    /\ Goto(<<"check">>)
    /\ UNCHANGED <<current, wakeup, taken, host, layers, failed>>
-----------------------------------------------------------------------------
(* The loop: sleep, or a step of the session every 20 ms.                  *)

CheckOutdated ==
    /\ At(<<"check">>) /\ ~current /\ Goto(<<"look">>)
    /\ UNCHANGED <<current, wakeup, published, workerVars>>

GoToSleep ==
    /\ At(<<"check">>) /\ current /\ view \in {"idle", "error"}
    /\ Goto(<<"sleep">>)
    /\ UNCHANGED <<current, wakeup, published, workerVars>>

(* A wake-up that came before the worker slept is not lost.                *)
Wake ==
    /\ At(<<"sleep">>) /\ wakeup /\ wakeup' = FALSE /\ Goto(<<"look">>)
    /\ UNCHANGED <<current, published, workerVars>>

GoToStep ==
    /\ At(<<"check">>) /\ current /\ view \notin {"idle", "error"}
    /\ Goto(<<"step">>)
    /\ UNCHANGED <<current, wakeup, published, workerVars>>

StepTo(shown) ==
    /\ At(<<"step">>) /\ Publish(shown) /\ Goto(<<"look">>)
    /\ UNCHANGED <<current, wakeup, taken, host, failed>>

(* Switch, radio event, timeout, refusal, send or receive error.           *)
StepFails ==
    /\ At(<<"step">>) /\ Publish("error") /\ Goto(Closing("error"))
    /\ UNCHANGED <<current, wakeup, taken, session, layers, failed>>

InSession == ~scan /\ ~join /\ (host \/ view \notin {"searching", "results"})

(* Nothing came: a scan, the group, a packet is still waited for.          *)
StepWaits ==
    /\ At(<<"step">>) /\ Goto(<<"look">>)
    /\ scan \/ (InSession /\ "socket" \notin layers)
    /\ UNCHANGED <<current, wakeup, published, workerVars>>

BeginJoin ==
    /\ join /\ StepTo("joining")
    /\ scan' = FALSE /\ join' = FALSE
    /\ UNCHANGED layers

(* A scan is over; the next one starts, or ten seconds have passed.        *)
StepSearching ==
    /\ ~join /\ ~host /\ view \in {"searching", "results"}
    /\ \E shown \in {view, "results"} : StepTo(shown) /\ scan' = FALSE
    /\ UNCHANGED <<join, layers>>

StepScans ==
    /\ ~join /\ ~host /\ view = "searching"
    /\ StepTo("searching") /\ scan' = TRUE
    /\ UNCHANGED <<join, layers>>

OpenSocket ==
    /\ InSession /\ "socket" \notin layers
    /\ StepTo(IF host THEN "hosting" ELSE "joining")
    /\ layers' = layers \union {"socket"}
    /\ UNCHANGED <<scan, join>>

StepSession ==
    /\ InSession /\ "socket" \in layers
    /\ \E shown \in {view} \union {s \in {"connected"} : view = "joining"} :
         StepTo(shown)
    /\ UNCHANGED <<scan, join, layers>>
-----------------------------------------------------------------------------
Worker ==
    \/ TakeRequest \/ NoRequest \/ ApplyJoin \/ ApplyOther
    \/ CloseLayer \/ CloseFails \/ ClosedAfterFailure \/ ClosedOutdated
    \/ Stopped \/ Ended \/ JoinOutdated \/ StartOpening
    \/ \E i \in OpeningAt : OpenLayer(i)
    \/ OpenFails \/ OpenOutdated \/ OpenDone
    \/ CheckOutdated \/ GoToSleep \/ Wake \/ GoToStep
    \/ StepFails \/ StepWaits \/ BeginJoin \/ StepSearching \/ StepScans
    \/ OpenSocket \/ StepSession
-----------------------------------------------------------------------------
States == {"idle", "starting", "hosting", "searching", "results", "joining",
           "connected", "stopping", "error"}
Actions == {"none", "stop", "host", "search", "join", "exit"}
Positions ==
    {<<"look">>, <<"apply">>, <<"check">>, <<"step">>, <<"sleep">>, <<"ended">>}
    \union {<<"open", i>> : i \in OpeningAt}
    \union {Closing(why) : why \in {"request", "open", "error"}}

AdhocTypeOK ==
    /\ started \in BOOLEAN /\ current \in BOOLEAN /\ wakeup \in BOOLEAN
    /\ request \in Actions /\ taken \in Actions
    /\ published \in States /\ view \in States \ {"stopping"}
    /\ host \in BOOLEAN /\ scan \in BOOLEAN /\ join \in BOOLEAN
    /\ layers \subseteq {Stack[i] : i \in OpeningAt}
    /\ foreign \subseteq {"common", "module"} /\ failed \in BOOLEAN
    /\ worker \in Positions

(* What the menu shows is never the outcome of a request that was replaced:*)
(* until the worker takes the newest one, the menu sees its placeholder.   *)
PublishedIsCurrent ==
    ~current => published = Placeholder(request)

(* No layer of the radio is closed, or found missing, under an open one,   *)
(* whichever call fails and whenever a request comes in between.           *)
LayersNested ==
    \A i, j \in OpeningAt :
        i < j /\ Stack[j] \in layers => Stack[i] \in layers \union foreign
=============================================================================
