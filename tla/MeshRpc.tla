------------------------------ MODULE MeshRpc ------------------------------
(***************************************************************************)
(* Mesh commands between two daemons over direct WebSockets                *)
(* (mesh/transport/ws-mesh-transport.ts, mesh-rpc-endpoint.ts).  Each end  *)
(* keeps one peer entry for the other, with the requests that wait for a   *)
(* socket, the requests in flight and the attached sockets, one per link;  *)
(* the dialling end of a link redials it whenever its socket is gone.      *)
(*                                                                         *)
(* A socket is an ordered, reliable channel in each direction until the    *)
(* network breaks it; from then on nothing arrives and neither end is      *)
(* told.  All that a handler does before it returns to the event loop is   *)
(* one step.  A torn peer object owns nothing any more, so one entry per   *)
(* end is enough; a command that runs for a torn peer can only lose its    *)
(* answer ("orphaned").                                                    *)
(***************************************************************************)
EXTENDS Naturals, Sequences, FiniteSets, Functions

CONSTANTS
    Ends,           \* the two daemons
    Calls, From,    \* the commands, and the end that sends each of them
    KindsOf,        \* what each may be: plain, a background poll with a connect budget, too big to send
    Links, Dialler, \* the links, and the end that dials each of them
    Sockets,        \* names of sockets; a name is used again once both ends are rid of the socket
    NoLink, NoSocket,
    MaxQueue,       \* MAX_CONNECT_QUEUE
    MaxTimeouts,    \* MAX_CONSECUTIVE_TIMEOUTS
    MaxFaults       \* broken sockets, handshakes that take too long and operator commands of a behaviour

ASSUME MeshRpcAssumption ==
    /\ IsFiniteSet(Ends) /\ Cardinality(Ends) = 2
    /\ From \in [Calls -> Ends] /\ KindsOf \in [Calls -> SUBSET {"plain", "poll", "big"}] /\ Dialler \in [Links -> Ends]
    /\ NoLink \notin Links /\ NoSocket \notin Sockets
    /\ MaxQueue \in Nat /\ MaxTimeouts \in Nat \ {0} /\ MaxFaults \in Nat

VARIABLES
    peer,       \* the peer entry of each end, "none" when there is none
    dropped,    \* ends that remember a dropped peer whose reconnect is scheduled (peerDiagnostics)
    down,       \* ends whose transport was closed
    links,      \* of each link: its socket, whether a dial is due ("no", "now", "redial"), whether it was removed
    socks,      \* the sockets: their link, the ready state and the frames under way to each end, broken or not
    calls,      \* what became of each command for its caller
    run, ran,   \* the command at its receiver, and how often it was begun
    faults

vars == <<peer, dropped, down, links, socks, calls, run, ran, faults>>

Other(d) == CHOOSE e \in Ends : e # d

NoPeer ==
    [ state |-> "none", queue |-> <<>>, inflight |-> {}, att |-> <<>>,
      supportsAck |-> FALSE, timeouts |-> 0, proved |-> FALSE ]
NewPeer == [NoPeer EXCEPT !.state = "connecting"]
NewLink == [ws |-> NoSocket, due |-> "now", stopped |-> FALSE]
StoppedLink == [ws |-> NoSocket, due |-> "no", stopped |-> TRUE]
Unused == [link |-> NoLink, rs |-> [d \in Ends |-> "none"], chan |-> [d \in Ends |-> <<>>], dead |-> FALSE]

Init ==
    /\ peer = [d \in Ends |-> NoPeer]
    /\ dropped = [d \in Ends |-> FALSE] /\ down = [d \in Ends |-> FALSE]
    /\ links = [l \in Links |-> NewLink]
    /\ socks = [s \in Sockets |-> Unused]
    /\ calls = [c \in Calls |-> [st |-> "new", kind |-> "plain", acked |-> FALSE]]
    /\ run = [c \in Calls |-> "no"] /\ ran = [c \in Calls |-> 0]
    /\ faults = 0

----------------------------------------------------------------------------
(* What the handlers share: functions from the state to the state.          *)

World ==
    [ peer |-> peer, dropped |-> dropped, links |-> links, socks |-> socks, calls |-> calls, run |-> run, ran |-> ran ]

Become(w) ==
    /\ peer' = w.peer /\ dropped' = w.dropped /\ links' = w.links /\ socks' = w.socks
    /\ calls' = w.calls /\ run' = w.run /\ ran' = w.ran

Attachments(w, d) == Range(w.peer[d].att)

\* The entries of a sequence at the places of a set, in order: SelectSeq without its recursion.
Keep(q, S) == [n \in 1 .. Cardinality(S) |-> q[CHOOSE i \in S : Cardinality({j \in S : j <= i}) = n]]
Without(q, x) == Keep(q, {i \in DOMAIN q : q[i] # x})

\* newestAttachment among the sockets that are open at this end
OpenSockets(w, d) ==
    LET att == w.peer[d].att IN Keep(att, {i \in DOMAIN att : w.socks[att[i]].rs[d] = "open"})
IsOpen(w, d) == OpenSockets(w, d) # <<>>
Newest(w, d) == OpenSockets(w, d)[Len(OpenSockets(w, d))]

\* sendMessage: the frames go to the newest open socket; what a broken or closed one takes is lost.
WriteOn(w, d, s, frames) ==
    IF w.socks[s].dead \/ w.socks[s].rs[Other(d)] \in {"closing", "closed"} THEN w
    ELSE [w EXCEPT !.socks[s].chan[Other(d)] = @ \o frames]
Write(w, d, frames) == IF IsOpen(w, d) THEN WriteOn(w, d, Newest(w, d), frames) ELSE w

\* resolve or reject: a promise is settled once.
Settle(w, cs, how) ==
    [w EXCEPT !.calls = [c \in Calls |-> IF c \in cs /\ @[c].st = "open" THEN [@[c] EXCEPT !.st = how] ELSE @[c]]]

\* ws.close at one end: what is under way to it is not listened to any more.
Close(w, d, ss) ==
    [w EXCEPT !.socks = [s \in Sockets |->
        IF s \in ss /\ @[s].rs[d] \in {"open", "connecting"}
        THEN [@[s] EXCEPT !.rs[d] = "closing", !.chan[d] = <<>>] ELSE @[s]]]

\* Mutant: the requests that wait for a socket are forgotten.
FailPeerKeepsQueue(w, d, code) ==
    IF w.peer[d].state = "none" THEN w
    ELSE Close(Settle([w EXCEPT !.peer[d] = NoPeer, !.dropped[d] = TRUE,
                                !.run = [c \in Calls |-> IF From[c] # d /\ @[c] = "running" THEN "orphaned" ELSE @[c]]],
                      w.peer[d].inflight, code),
               d, Attachments(w, d))

FailPeer(w, d, code) ==
    IF w.peer[d].state = "none" THEN w
    ELSE Close(Settle([w EXCEPT !.peer[d] = NoPeer, !.dropped[d] = TRUE,
                                !.run = [c \in Calls |-> IF From[c] # d /\ @[c] = "running" THEN "orphaned" ELSE @[c]]],
                      Range(w.peer[d].queue) \cup w.peer[d].inflight, code),
               d, Attachments(w, d))

\* releaseAttachment: the peer falls with its last socket.
Detached(w, d, s) == [w EXCEPT !.peer[d].att = Without(@, s)]
ReleaseAttachment(w, d, s, code) ==
    IF s \notin Attachments(w, d) THEN w
    ELSE IF Attachments(w, d) = {s} THEN FailPeer(Detached(w, d, s), d, code)
    ELSE Detached(w, d, s)

\* writeRequest, for requests in order.
WriteRequests(w, d, q) ==
    LET sent == Keep(q, {i \in DOMAIN q : w.calls[q[i]].kind # "big"}) IN
    Write(Settle([w EXCEPT !.peer[d].inflight = @ \cup Range(sent)], Range(q) \ Range(sent), "PAYLOAD_TOO_LARGE"),
          d, [i \in DOMAIN sent |-> [k |-> "req", c |-> sent[i]]])

\* Mutant: the queue is written and not emptied.
FlushKeepsQueue(w, d) == WriteRequests(w, d, w.peer[d].queue)

FlushConnectQueue(w, d) == WriteRequests([w EXCEPT !.peer[d].queue = <<>>], d, w.peer[d].queue)

GetOrCreatePeer(w, d) == IF w.peer[d].state = "none" THEN [w EXCEPT !.peer[d] = NewPeer] ELSE w

\* Mutant: one slot per peer.
SlotOfPeer(w, s) == "any"

\* The slot of a socket in its peer: its direction and mesh, that is, its link.
SlotOf(w, s) == w.socks[s].link
Occupied(w, d, s) == \E t \in Attachments(w, d) : SlotOf(w, t) = SlotOf(w, s)

\* attachSocket: a newer socket in the same slot replaces the peer, then the queue is written.  Frames that came with
\* the end of the handshake stay in the channel.
Attached(w, d, s) ==
    FlushConnectQueue([w EXCEPT !.peer[d].att = Append(@, s), !.peer[d].state = "connected", !.dropped[d] = FALSE], d)
AttachSocket(w, d, s) ==
    Attached(GetOrCreatePeer(IF Occupied(w, d, s) THEN FailPeer(w, d, "PEER_REPLACED") ELSE w, d), d, s)

\* noteRequestTimeout: too many in a row end the peer, unless the last proof of life is recent.
NoteRequestTimeout(w, d) ==
    IF w.peer[d].timeouts + 1 < MaxTimeouts THEN {[w EXCEPT !.peer[d].timeouts = @ + 1]}
    ELSE {FailPeer(w, d, "PEER_UNRESPONSIVE")}
           \cup IF w.peer[d].proved THEN {[w EXCEPT !.peer[d].timeouts = 0]} ELSE {}

----------------------------------------------------------------------------
(* Commands *)

Submitted(c, kind) == [World EXCEPT !.calls[c] = [st |-> "open", kind |-> kind, acked |-> FALSE]]

Enqueue(w, d, c) ==
    IF w.peer[d].state = "connected" /\ IsOpen(w, d) THEN WriteRequests(w, d, <<c>>)
    ELSE IF Len(w.peer[d].queue) >= MaxQueue THEN Settle(w, {c}, "QUEUE_OVERFLOW")
    ELSE [w EXCEPT !.peer[d].queue = Append(@, c)]

SendCommand(c, kind) ==
    LET d == From[c] IN
    /\ calls[c].st = "new"
    /\ \/ down[d] /\ Become(Settle(Submitted(c, kind), {c}, "MANAGER_SHUTDOWN"))
       \/ /\ ~down[d] /\ kind = "poll" /\ peer[d].state = "none" /\ dropped[d]
          /\ Become(Settle(Submitted(c, kind), {c}, "RETRY_SCHEDULED"))
       \/ ~down[d] /\ Become(Enqueue(GetOrCreatePeer(Submitted(c, kind), d), d, c))
    /\ UNCHANGED <<down, faults>>

\* armConnectWait's timer: the request leaves the queue.
ConnectWaitEnds(c) ==
    LET d == From[c] IN
    /\ calls[c].kind = "poll" /\ c \in Range(peer[d].queue)
    /\ Become(Settle([World EXCEPT !.peer[d].queue = Without(@, c)], {c}, "PEER_NOT_CONNECTED"))
    /\ UNCHANGED <<down, faults>>

\* the connect deadline of a peer without a socket
ConnectTimeout(d) ==
    /\ peer[d].state = "connecting"
    /\ Become(FailPeer(World, d, "CONNECT_TIMEOUT"))
    /\ UNCHANGED <<down, faults>>

TimedOut(c, code) == Settle([World EXCEPT !.peer[From[c]].inflight = @ \ {c}], {c}, code)

\* the ack deadline: inert while the peer has never acknowledged anything
AckTimeout(c) ==
    LET d == From[c] IN
    /\ c \in peer[d].inflight /\ ~calls[c].acked /\ peer[d].supportsAck
    /\ \E w \in NoteRequestTimeout(TimedOut(c, "ACK_TIMEOUT"), d) : Become(w)
    /\ UNCHANGED <<down, faults>>

\* the result deadline
RequestTimeout(c) ==
    LET d == From[c] IN
    /\ c \in peer[d].inflight
    /\ \E w \in NoteRequestTimeout(TimedOut(c, "REQUEST_TIMEOUT"), d) : Become(w)
    /\ UNCHANGED <<down, faults>>

\* The responses: the result or the error of the command, or, when that is too large to send, the fallback that says
\* so.  The caller of the latter is rejected with PAYLOAD_TOO_LARGE, as for a request too big to send; st keeps apart
\* which of the two it was.
Answers == {"answered", "RESPONSE_TOO_LARGE"}

\* A frame is read from an attached socket.  The answers go to the newest socket, whichever the frame came from.
HandleIncomingRequest(w, d, c) ==
    Write([w EXCEPT !.run[c] = "running", !.ran[c] = IF @ < 2 THEN @ + 1 ELSE @], d, <<[k |-> "ack", c |-> c]>>)

Proved(w, d) == [w EXCEPT !.peer[d].timeouts = 0, !.peer[d].proved = TRUE]

HandleIncomingAck(w, d, c) ==
    IF c \in w.peer[d].inflight /\ ~w.calls[c].acked
    THEN [Proved(w, d) EXCEPT !.peer[d].supportsAck = TRUE, !.calls[c].acked = TRUE]
    ELSE [w EXCEPT !.peer[d].supportsAck = TRUE]

HandleIncomingResponse(w, d, c, how) ==
    IF c \in w.peer[d].inflight
    THEN Settle([Proved(w, d) EXCEPT !.peer[d].inflight = @ \ {c}], {c}, how)
    ELSE w

OnMessage(w, d, f) ==
    CASE f.k = "req" -> HandleIncomingRequest(w, d, f.c)
      [] f.k = "ack" -> HandleIncomingAck(w, d, f.c)
      [] f.k \in Answers -> HandleIncomingResponse(w, d, f.c, f.k)

MayDeliver(s, d) == s \in Range(peer[d].att) /\ socks[s].chan[d] # <<>>

Deliver(s, d) ==
    /\ MayDeliver(s, d)
    /\ Become(OnMessage([World EXCEPT !.socks[s].chan[d] = Tail(@)], d, Head(socks[s].chan[d])))
    /\ UNCHANGED <<down, faults>>

\* The command returns or throws at its receiver: writeResponse sends the answer, or the fallback, through the peer
\* the request came from.
HandlerEnds(c, how) ==
    LET w == [World EXCEPT !.run[c] = "done"] IN
    /\ run[c] \in {"running", "orphaned"}
    /\ Become(IF run[c] = "running" THEN Write(w, Other(From[c]), <<[k |-> how, c |-> c]>>) ELSE w)
    /\ UNCHANGED <<down, faults>>

----------------------------------------------------------------------------
(* Links and sockets *)

\* The redial delay (4 s and more) outlasts the closing handshake of the link's last socket, if the network works.
MayDial(l) ==
    /\ links[l].ws = NoSocket /\ \E s \in Sockets : socks[s] = Unused
    /\ \/ links[l].due = "now"
       \/ links[l].due = "redial" /\ \A s \in Sockets : socks[s].link = l => socks[s].dead

\* dial, at once for a new link and when the redial timer fires otherwise
Dial(l) ==
    /\ MayDial(l)
    /\ LET s == CHOOSE s \in Sockets : socks[s] = Unused IN   \* names mean nothing
       Become([World EXCEPT !.links[l] = [@ EXCEPT !.due = "no", !.ws = s],
                            !.socks[s] = [@ EXCEPT !.link = l, !.rs[Dialler[l]] = "connecting"]])
    /\ UNCHANGED <<down, faults>>

Acceptor(s) == Other(Dialler[socks[s].link])

MayAccept(s) ==
    /\ socks[s].link # NoLink /\ ~socks[s].dead
    /\ socks[s].rs[Acceptor(s)] = "none" /\ socks[s].rs[Dialler[socks[s].link]] \in {"connecting", "closing"}

\* The responder's handshake is done: acceptPeerSocket attaches the socket before the dialling end has read mesh_ok,
\* or refuses it after close.
Accept(s) ==
    LET d == Acceptor(s) IN
    /\ MayAccept(s)
    /\ Become(IF down[d] THEN [World EXCEPT !.socks[s].rs[d] = "closed"]
              ELSE AttachSocket([World EXCEPT !.socks[s].rs[d] = "open"], d, s))
    /\ UNCHANGED <<down, faults>>

\* The handshake of the dialling end has an outcome: mesh_ok is under way, or the socket has ended.
Answered(s) ==
    socks[s].link # NoLink /\ socks[s].rs[Dialler[socks[s].link]] = "connecting" /\ socks[s].rs[Acceptor(s)] # "none"
Failed(s) ==
    /\ socks[s].link # NoLink /\ socks[s].rs[Dialler[socks[s].link]] = "connecting"
    /\ socks[s].dead \/ socks[s].rs[Acceptor(s)] \in {"closing", "closed"}

\* The dialling end has read mesh_ok.
Established(s) ==
    LET d == Dialler[socks[s].link] IN
    /\ Answered(s) /\ ~socks[s].dead
    /\ Become(AttachSocket([World EXCEPT !.socks[s].rs[d] = "open"], d, s))
    /\ UNCHANGED <<down, faults>>

\* link.ws is cleared and scheduleRedial, if the socket is the link's.
Redial(w, s) ==
    IF w.links[w.socks[s].link].ws = s
    THEN [w EXCEPT !.links[w.socks[s].link].ws = NoSocket, !.links[w.socks[s].link].due = "redial"] ELSE w

\* The handshake is rejected, by the socket's end or by its own deadline.
HandshakeFails(s) ==
    /\ socks[s].link # NoLink /\ socks[s].rs[Dialler[socks[s].link]] = "connecting"
    /\ Become(Redial(Close(World, Dialler[socks[s].link], {s}), s))
    /\ UNCHANGED down

DialFails(s) == Failed(s) /\ HandshakeFails(s) /\ UNCHANGED faults

HandshakeTimesOut(s) == faults < MaxFaults /\ HandshakeFails(s) /\ faults' = faults + 1

CloseUnderWay(s, d) ==
    /\ socks[s].rs[d] = "open" /\ ~socks[s].dead
    /\ socks[s].rs[Other(d)] \in {"closing", "closed"} /\ socks[s].chan[d] = <<>>

\* The other end's close frame arrives, after all frames before it.
CloseArrives(s, d) ==
    /\ CloseUnderWay(s, d)
    /\ socks' = [socks EXCEPT ![s].rs[d] = "closing"]
    /\ UNCHANGED <<peer, dropped, down, links, calls, run, ran, faults>>

\* Mutant: the redial is left to sockets that are still attached.
ClosedIfAttached(w, d, s) ==
    IF s \notin Attachments(w, d) THEN w
    ELSE ReleaseAttachment(IF d = Dialler[w.socks[s].link] THEN Redial(w, s) ELSE w, d, s, "DATACHANNEL_CLOSED")

OnSocketClosed(w, d, s) ==
    ReleaseAttachment(IF d = Dialler[w.socks[s].link] THEN Redial(w, s) ELSE w, d, s, "DATACHANNEL_CLOSED")

\* The last end to close frees the name.
Rid(w, s, d) ==
    IF w.socks[s].rs[Other(d)] \in {"none", "closed"} THEN [w EXCEPT !.socks[s] = Unused]
    ELSE [w EXCEPT !.socks[s].rs[d] = "closed", !.socks[s].chan[d] = <<>>]

Closes(s, d) ==
    \/ socks[s].rs[d] = "closing" /\ (socks[s].dead \/ socks[s].rs[Other(d)] \in {"none", "closing", "closed"})
    \/ socks[s].rs[d] = "open" /\ socks[s].dead

\* 'close': both ends have closed, or the network reports the broken connection.
SocketClosed(s, d) ==
    /\ Closes(s, d)
    /\ Become(Rid(OnSocketClosed(World, d, s), s, d))
    /\ UNCHANGED <<down, faults>>

\* pingAttachment after maxMissedPongs: terminate and release; 'close' follows.
LivenessLost(s, d) ==
    /\ s \in Range(peer[d].att) /\ socks[s].dead
    /\ Become(ReleaseAttachment(Close(World, d, {s}), d, s, "PEER_UNRESPONSIVE"))
    /\ UNCHANGED <<down, faults>>

\* The network loses the connection without telling either end.
Break(s) ==
    /\ socks[s].link # NoLink /\ ~socks[s].dead /\ faults < MaxFaults
    /\ socks' = [socks EXCEPT ![s].dead = TRUE, ![s].chan = [d \in Ends |-> <<>>]]
    /\ faults' = faults + 1
    /\ UNCHANGED <<peer, dropped, down, links, calls, run, ran>>

----------------------------------------------------------------------------
(* Operator commands and shutdown *)

\* stopLink: an attached socket is released through its peer, one in its handshake is closed.
StopLink(w, l) ==
    LET s == w.links[l].ws
        v == [w EXCEPT !.links[l] = StoppedLink] IN
    IF s = NoSocket THEN v ELSE ReleaseAttachment(Close(v, Dialler[l], {s}), Dialler[l], s, "LINK_REMOVED")

RemoveHostLink(l) ==
    /\ ~links[l].stopped /\ faults < MaxFaults
    /\ Become(StopLink(World, l))
    /\ faults' = faults + 1 /\ UNCHANGED down

\* addHostLink, of a link that was removed or with another url or secret
AddHostLink(l) ==
    /\ ~down[Dialler[l]] /\ faults < MaxFaults
    /\ Become([StopLink(World, l) EXCEPT !.links[l] = NewLink])
    /\ faults' = faults + 1 /\ UNCHANGED down

DisconnectPeer(d) ==
    /\ peer[d].state # "none" /\ faults < MaxFaults
    /\ Become(FailPeer(World, d, "PEER_DISCONNECTED"))
    /\ faults' = faults + 1 /\ UNCHANGED down

\* close: the sockets of its links and of its peer close, every request fails.
Shutdown(d) ==
    LET own == {l \in Links : Dialler[l] = d}
        stopped == [l \in Links |-> IF l \in own THEN StoppedLink ELSE links[l]] IN
    /\ ~down[d] /\ faults < MaxFaults
    /\ down' = [down EXCEPT ![d] = TRUE]
    /\ Become(FailPeer(Close([World EXCEPT !.links = stopped], d, {links[l].ws : l \in own}), d, "MANAGER_SHUTDOWN"))
    /\ faults' = faults + 1

Next ==
    \/ \E c \in Calls : \E kind \in KindsOf[c] : SendCommand(c, kind)
    \/ \E c \in Calls : ConnectWaitEnds(c) \/ AckTimeout(c) \/ RequestTimeout(c)
    \/ \E c \in Calls, how \in Answers : HandlerEnds(c, how)
    \/ \E d \in Ends : ConnectTimeout(d) \/ DisconnectPeer(d) \/ Shutdown(d)
    \/ \E s \in Sockets, d \in Ends :
          Deliver(s, d) \/ CloseArrives(s, d) \/ SocketClosed(s, d) \/ LivenessLost(s, d)
    \/ \E s \in Sockets : Accept(s) \/ Established(s) \/ DialFails(s) \/ HandshakeTimesOut(s) \/ Break(s)
    \/ \E l \in Links : Dial(l) \/ RemoveHostLink(l) \/ AddHostLink(l)

Spec == Init /\ [][Next]_vars

\* Something happens by itself: a dial is due, a handshake, a frame or a close frame is under way, a broken socket has
\* not been found, a deadline runs.
Restless ==
    \/ \E l \in Links : MayDial(l)
    \/ \E s \in Sockets : MayAccept(s) \/ Answered(s) \/ Failed(s)
    \/ \E s \in Sockets, d \in Ends : MayDeliver(s, d) \/ CloseUnderWay(s, d) \/ Closes(s, d)
    \/ \E d \in Ends : peer[d].state = "connecting" \/ peer[d].inflight # {}

\* The network and the event loops do not stop while something is to happen.  Commands, faults and operator commands
\* are finitely many, so this is weak fairness of the steps Restless enables, taken together.
Fairness == []<>(~Restless) \/ []<><<TRUE>>_vars

FairSpec == Spec /\ Fairness

----------------------------------------------------------------------------
(* Properties *)

InQueue(c) == c \in Range(peer[From[c]].queue)
InFlight(c) == c \in peer[From[c]].inflight

\* A command whose caller waits is in exactly one place, the connect queue or the in-flight table of the live peer
\* entry, and that place is timed: a peer without a socket has its connect deadline, one with sockets ends with the
\* last of them, and what is in flight has its result deadline.  No settled command stays in a place.
CallsOwned ==
    \A c \in Calls :
        /\ calls[c].st = "open" <=> (InQueue(c) \/ InFlight(c))
        /\ ~(InQueue(c) /\ InFlight(c))
        /\ InFlight(c) => peer[From[c]].state = "connected"
        /\ peer[From[c]].state = "connected" <=> peer[From[c]].att # <<>>

Unsent == {"QUEUE_OVERFLOW", "PEER_NOT_CONNECTED", "CONNECT_TIMEOUT", "PAYLOAD_TOO_LARGE", "RETRY_SCHEDULED"}
Requested(c) == \E s \in Sockets : \E f \in Range(socks[s].chan[Other(From[c])]) : f.k = "req" /\ f.c = c

\* What the caller sees: both payloads that are too large have one code.
Told(c) == IF calls[c].st = "RESPONSE_TOO_LARGE" THEN "PAYLOAD_TOO_LARGE" ELSE calls[c].st

NeverBegun(c) == ran[c] = 0 /\ ~Requested(c)
RanOnce(c) == ran[c] = 1 /\ run[c] = "done"

\* What the caller is told is true of the other daemon: a command rejected with a code of the time before the send
\* never runs there, an answered one has run exactly once, one rejected as too large either never left or has run to
\* its end exactly once, and no command ever runs twice by one sendCommand.
ToldTruly ==
    \A c \in Calls :
        /\ Told(c) \in Unsent \ {"PAYLOAD_TOO_LARGE"} => NeverBegun(c)
        /\ Told(c) = "answered" => RanOnce(c)
        /\ Told(c) = "PAYLOAD_TOO_LARGE" => NeverBegun(c) \/ RanOnce(c)
        /\ ran[c] <= 1

\* A link that was not removed is never abandoned: it has a dial due or a socket of its own whose end its dialling
\* end will still be told of (dial, onSocketClosed, scheduleRedial).
LinksKept ==
    \A l \in Links :
        ~links[l].stopped =>
            IF links[l].due # "no" THEN links[l].ws = NoSocket
            ELSE links[l].ws # NoSocket /\ socks[links[l].ws].link = l
                   /\ socks[links[l].ws].rs[Dialler[l]] \in {"connecting", "open", "closing"}

Carries(s, l) == socks[s].link = l /\ ~socks[s].dead /\ \A d \in Ends : s \in Range(peer[d].att) /\ socks[s].rs[d] = "open"

\* Once faults and operators are quiet, every link of two running daemons settles on one socket attached at both
\* ends; links in opposite directions, or of several meshes, do not keep replacing each other.
LinksSettle == <>[](\A l \in Links : ~links[l].stopped /\ (\A d \in Ends : ~down[d]) => \E s \in Sockets : Carries(s, l))

\* "ACK_TIMEOUT fires only when the peer never acknowledged receipt ... the command provably never started executing
\* anywhere" (commands/mesh-oneshot-retry.ts).
AckTimeoutUnrun == \A c \in Calls : calls[c].st = "ACK_TIMEOUT" => ran[c] = 0

============================================================================
