--------------------------- MODULE MeshRpcProofs ---------------------------
(***************************************************************************)
(* The owners of commands, the truth of what callers are told, and the     *)
(* links of the mesh transport, for any number of commands, links and      *)
(* sockets, any bounds and any number of faults: every handler preserves   *)
(* the invariant of MeshRpcWorlds.                                         *)
(***************************************************************************)
EXTENDS MeshRpcFunctions

\* handleIncomingRequest, handleIncomingAck, handleIncomingResponse.
LEMMA MessageInv ==
    ASSUME NEW w, Inv(w, {}, {}), NEW d \in Ends, NEW f \in Frames,
           f.k = "req" => Fresh(w, f.c) /\ ~Queued(w, f.c) /\ w.calls[f.c].st \notin Unsent \cup {"new"},
           f.k \in Answers => w.ran[f.c] = 1 /\ w.run[f.c] = "done",
           NEW v, v = OnMessage(w, d, f)
    PROVE  Inv(v, {}, {})
  <1>1. w \in WorldType /\ w.peer[d] \in PeerType /\ PeerOK(w.peer[d], d) /\ w.calls \in [Calls -> CallType]
    BY Zenon DEF Inv, WorldType
  <1>2. PICK c \in Calls : c = f.c
    BY Zenon DEF Frames
  <1>3. f.k \in {"req", "ack"} \cup Answers
    BY DEF Frames
  <1>4. PICK r \in PeerType : r = w.peer[d]
    BY <1>1, Zenon
  <1>5. CASE f.k = "req"
    <2>1. PICK u : u = [w EXCEPT !.run[c] = "running", !.ran[c] = IF @ < 2 THEN @ + 1 ELSE @]
      OBVIOUS
    <2>2. PICK q : q = <<[k |-> "ack", c |-> c]>>
      BY Zenon
    <2>3. v = Write(u, d, q)
      BY <1>2, <1>5, <2>1, <2>2 DEF OnMessage, HandleIncomingRequest, Answers
    <2>4. w.ran[c] = 0
      BY <1>2, <1>5, Zenon DEF Fresh
    <2>5. u = [w EXCEPT !.run = [w.run EXCEPT ![c] = "running"], !.ran = [w.ran EXCEPT ![c] = 1]]
      BY ONLY <2>1, <2>4
    <2>6. PICK x : x = [w.run EXCEPT ![c] = "running"]
      BY Zenon
    <2>7. PICK y : y = [w.ran EXCEPT ![c] = 1]
      BY Zenon
    <2>8. /\ x \in [Calls -> {"no", "running", "orphaned", "done"}] /\ y \in [Calls -> 0 .. 2]
          /\ x[c] = "running" /\ y[c] = 1 /\ \A a \in Calls : a # c => x[a] = w.run[a] /\ y[a] = w.ran[a]
      BY ONLY <1>1, <2>6, <2>7, c \in Calls DEF WorldType
    <2>9. /\ u \in WorldType /\ u.run = x /\ u.ran = y /\ u.peer = w.peer /\ u.links = w.links
          /\ u.socks = w.socks /\ u.calls = w.calls
      BY ONLY <1>1, <2>5, <2>6, <2>7, <2>8, Zenon DEF WorldType
    <2>10. Inv(u, {}, {})
      BY <1>2, <1>5, <2>8, <2>9, RunInv
    <2>11. PICK g \in Frames : g = [k |-> "ack", c |-> c]
      BY Zenon DEF Frames
    <2>12. q \in Seq(Frames) /\ \A j \in DOMAIN q : q[j].k = "ack"
      BY ONLY <2>2, <2>11
    <2>13. Truthful(u, q)
      <3>1. "ack" # "req" /\ "ack" \notin Answers
        BY DEF Answers
      <3> QED
        BY <2>12, <3>1, Zenon DEF Truthful
    <2> QED
      BY <2>3, <2>10, <2>12, <2>13, WriteInv, Zenon
  <1>6. PICK b \in CallType : b = [w.calls[c] EXCEPT !.acked = TRUE]
    BY <1>1, Zenon DEF CallType
  <1>7. CASE f.k = "ack" /\ c \in w.peer[d].inflight /\ ~w.calls[c].acked
    <2>1. PICK u : u = Proved(w, d)
      BY Zenon
    <2>2. /\ Inv(u, {}, {}) /\ u \in WorldType /\ u.peer[d] \in PeerType
          /\ u.calls = w.calls /\ u.peer \in [Ends -> PeerType]
      BY <2>1, ProvedInv DEF Inv, WorldType
    <2>3. PICK o \in PeerType : o = u.peer[d]
      BY <2>2, Zenon
    <2>4. PICK p : p = [o EXCEPT !.supportsAck = TRUE]
      BY Zenon
    <2>5. p \in PeerType /\ p.queue = o.queue /\ p.att = o.att /\ p.state = o.state /\ p.inflight = o.inflight
      BY ONLY <2>4, o \in PeerType, Zenon DEF PeerType
    <2>6. PICK m : m = [w.calls EXCEPT ![c] = b]
      BY Zenon
    <2>7. m \in [Calls -> CallType] /\ \A a \in Calls : m[a].st = w.calls[a].st
      <3>1. b.st = w.calls[c].st
        BY <1>1, <1>6 DEF CallType
      <3> QED
        BY ONLY <1>1, <2>6, <3>1, b \in CallType, c \in Calls, Zenon
    <2>8. v = [u EXCEPT !.peer[d].supportsAck = TRUE, !.calls[c].acked = TRUE]
      BY <1>2, <1>7, <2>1 DEF OnMessage, HandleIncomingAck, Answers
    <2>9. v = [u EXCEPT !.peer = [u.peer EXCEPT ![d] = p], !.calls = m]
      BY ONLY <1>6, <2>2, <2>3, <2>4, <2>6, <2>8, Zenon DEF WorldType
    <2>10. PICK z : z = [u.peer EXCEPT ![d] = p]
      BY Zenon
    <2>11. z \in [Ends -> PeerType]
      BY ONLY <2>2, <2>5, <2>10, d \in Ends
    <2>12. /\ v \in WorldType /\ v.peer = z /\ v.calls = m /\ v.links = u.links /\ v.socks = u.socks
           /\ v.run = u.run /\ v.ran = u.ran
      BY ONLY <2>2, <2>7, <2>9, <2>10, <2>11, Zenon DEF WorldType
    <2> QED
      BY <2>2, <2>3, <2>5, <2>7, <2>10, <2>12, TouchInv
  <1>8. CASE f.k = "ack" /\ ~(c \in w.peer[d].inflight /\ ~w.calls[c].acked)
    <2>1. PICK p : p = [r EXCEPT !.supportsAck = TRUE]
      BY Zenon
    <2>2. p \in PeerType /\ p.queue = r.queue /\ p.att = r.att /\ p.state = r.state /\ p.inflight = r.inflight
      BY ONLY <2>1, r \in PeerType, Zenon DEF PeerType
    <2>3. v = WithPeer(w, d, p)
      BY <1>2, <1>4, <1>8, <2>1 DEF OnMessage, HandleIncomingAck, WithPeer, Answers
    <2>4. /\ v \in WorldType /\ v.peer = [w.peer EXCEPT ![d] = p]
          /\ v.links = w.links /\ v.socks = w.socks /\ v.calls = w.calls /\ v.run = w.run /\ v.ran = w.ran
      BY ONLY <1>1, <2>2, <2>3, d \in Ends, PeerReplaced
    <2> QED
      BY <1>4, <2>2, <2>4, TouchInv, Zenon
  <1>9. CASE f.k \in Answers /\ c \in w.peer[d].inflight
    <2>1. PICK u : u = Proved(w, d)
      OBVIOUS
    <2>2. /\ Inv(u, {}, {}) /\ u.peer[d].inflight = w.peer[d].inflight
          /\ u.run = w.run /\ u.ran = w.ran
      BY <2>1, ProvedInv, Zenon
    <2>3. d = From[c]
      BY <1>1, <1>9, Zenon DEF PeerOK
    <2>4. Flying(u, c)
      BY <1>9, <2>2, <2>3, Zenon DEF Flying
    <2>5. f.k \in Outcomes /\ f.k \notin Unsent
      BY <1>9 DEF Outcomes, Unsent, Answers
    <2>6. v = Settle([u EXCEPT !.peer[d].inflight = @ \ {c}], {c}, f.k)
      BY <1>2, <1>9, <2>1 DEF OnMessage, HandleIncomingResponse
    <2>7. u.ran[c] = 1 /\ u.run[c] = "done"
      BY <1>2, <1>9, <2>2, Zenon
    <2> QED
      BY <2>2, <2>3, <2>4, <2>5, <2>6, <2>7, LeavesFlight
  <1>10. CASE f.k \in Answers /\ c \notin w.peer[d].inflight
    BY <1>2, <1>10 DEF OnMessage, HandleIncomingResponse
  <1> QED
    BY <1>3, <1>5, <1>7, <1>8, <1>9, <1>10, Zenon


\* The end of a command at its receiver.
LEMMA EndInv ==
    ASSUME NEW w, Inv(w, {}, {}), NEW c \in Calls, w.run[c] \in {"running", "orphaned"},
           NEW how \in Answers,
           NEW v, v = IF w.run[c] = "running"
                      THEN Write([w EXCEPT !.run[c] = "done"], Other(From[c]), <<[k |-> how, c |-> c]>>)
                      ELSE [w EXCEPT !.run[c] = "done"]
    PROVE  Inv(v, {}, {})
  <1>1. w \in WorldType /\ ToldOK(w, {})
    BY DEF Inv
  <1>2. w.run \in [Calls -> {"no", "running", "orphaned", "done"}] /\ w.ran \in [Calls -> 0 .. 2]
    BY <1>1 DEF WorldType
  <1>3. w.ran[c] = 1
    BY <1>1, <1>2 DEF ToldOK
  <1>4. PICK x : x = [w.run EXCEPT ![c] = "done"]
    BY Zenon
  <1>5. /\ x \in [Calls -> {"no", "running", "orphaned", "done"}]
        /\ x[c] = "done" /\ \A a \in Calls : a # c => x[a] = w.run[a]
    BY ONLY <1>2, <1>4, c \in Calls
  <1>6. PICK u : u = [w EXCEPT !.run = x]
    BY Zenon
  <1>7. /\ u \in WorldType /\ u.run = x /\ u.ran = w.ran /\ u.peer = w.peer /\ u.links = w.links
        /\ u.socks = w.socks /\ u.calls = w.calls
    BY ONLY <1>1, <1>5, <1>6 DEF WorldType
  <1>8. Inv(u, {}, {})
    BY <1>3, <1>5, <1>7, RunInv
  <1>9. PICK q : q = <<[k |-> how, c |-> c]>>
    OBVIOUS
  <1>10. v = IF w.run[c] = "running" THEN Write(u, Other(From[c]), q) ELSE u
    BY <1>4, <1>6, <1>9
  <1>11. PICK g \in Frames : g = [k |-> how, c |-> c]
    BY DEF Frames
  <1>12. g.k = how /\ g.c = c /\ how # "req"
    BY <1>11 DEF Answers
  <1>13. q \in Seq(Frames) /\ \A j \in DOMAIN q : q[j] = g
    BY ONLY <1>9, <1>11
  <1>14. Truthful(u, q)
    BY ONLY <1>3, <1>5, <1>7, <1>12, <1>13, Zenon DEF Truthful
  <1>15. Other(From[c]) \in Ends
    BY TwoEnds, MeshRpcAssumption
  <1>16. Inv(Write(u, Other(From[c]), q), {}, {})
    BY ONLY <1>8, <1>13, <1>14, <1>15, WriteInv
  <1> QED
    BY <1>8, <1>10, <1>16

----------------------------------------------------------------------------
(* Links and sockets *)

\* A step of links and sockets keeps the rest.
LEMMA LinkStepInv ==
    ASSUME NEW w, Inv(w, {}, {}), NEW v \in WorldType, LinkOK(v), Emptied(w, v),
           v.peer = w.peer, v.calls = w.calls, v.run = w.run, v.ran = w.ran
    PROVE  Inv(v, {}, {})
  <1>1. /\ w \in WorldType /\ CallOK(w, {}) /\ ToldOK(w, {})
        /\ \A e \in Ends : PeerOK(w.peer[e], e) /\ AttOK(w.peer[e])
    BY DEF Inv
  <1>2. \A b \in Calls : (Queued(v, b) <=> Queued(w, b)) /\ (Flying(v, b) <=> Flying(w, b))
    BY Zenon DEF Queued, Flying
  <1>3. CallOK(v, {})
    BY <1>1, <1>2, Zenon DEF CallOK
  <1>4. ToldOK(v, {})
    <2>1. \A b \in Calls : v.calls[b].st \in Unsent \cup {"new"} \/ Queued(v, b) \/ b \in {} => Fresh(w, b)
      BY <1>1, <1>2, Zenon DEF ToldOK
    <2>2. \A b \in Calls : v.calls[b].st \in Answers => w.ran[b] = 1 /\ w.run[b] = "done"
      BY <1>1, Zenon DEF ToldOK
    <2> QED
      BY <1>1, <2>1, <2>2, EmptiedTold
  <1> QED
    BY <1>1, <1>3, <1>4 DEF Inv

\* A link as it is kept in the world.
LinkKept(w, l) ==
    ~w.links[l].stopped =>
        IF w.links[l].due # "no" THEN w.links[l].ws = NoSocket
        ELSE /\ w.links[l].ws # NoSocket /\ w.socks[w.links[l].ws].link = l
             /\ w.socks[w.links[l].ws].rs[Dialler[l]] \in {"connecting", "open", "closing"}

WithLinks(w, m) == [w EXCEPT !.links = m]
WithLink(w, l, k) == [w EXCEPT !.links[l] = k]
WithSock(w, s, h) == [w EXCEPT !.socks[s] = h]

\* Links that are stopped or have a dial due are kept, whatever becomes of sockets.
LEMMA LinksChangeInv ==
    ASSUME NEW w, Inv(w, {}, {}), NEW m \in [Links -> LinkType],
           \A l \in Links : m[l] = w.links[l] \/ m[l].stopped \/ (m[l].due # "no" /\ m[l].ws = NoSocket),
           NEW v, v = WithLinks(w, m)
    PROVE  Inv(v, {}, {}) /\ v.links = m /\ v.socks = w.socks
  <1>1. w \in WorldType /\ LinkOK(w)
    BY Zenon DEF Inv
  <1>2. /\ v \in WorldType /\ v.links = m /\ v.peer = w.peer /\ v.socks = w.socks /\ v.calls = w.calls
        /\ v.run = w.run /\ v.ran = w.ran
    BY ONLY <1>1, m \in [Links -> LinkType], v = WithLinks(w, m) DEF WorldType, WithLinks
  <1>3. ASSUME NEW l \in Links PROVE LinkKept(v, l)
    <2>1. LinkKept(w, l)
      BY <1>1, Zenon DEF LinkOK, LinkKept
    <2> QED
      BY ONLY <1>2, <2>1, l \in Links,
              \A a \in Links : m[a] = w.links[a] \/ m[a].stopped \/ (m[a].due # "no" /\ m[a].ws = NoSocket), Zenon DEF LinkKept
  <1>4. LinkOK(v)
    <2>1. \A s \in Sockets : w.socks[s].link = NoLink => \A e \in Ends : w.socks[s].rs[e] = "none"
      BY <1>1, Zenon DEF LinkOK
    <2>2. \A s \in Sockets : v.socks[s].link = NoLink => \A e \in Ends : v.socks[s].rs[e] = "none"
      BY ONLY <1>2, <2>1, Zenon
    <2> QED
      BY ONLY <1>3, <2>2, Zenon DEF LinkOK, LinkKept
  <1>5. Emptied(w, v)
    BY <1>2, Zenon DEF Emptied
  <1> QED
    BY <1>2, <1>4, <1>5, LinkStepInv, Zenon

\* The same for one link.
LEMMA LinkChangeInv ==
    ASSUME NEW w, Inv(w, {}, {}), NEW l \in Links, NEW k \in LinkType, k.stopped \/ (k.due # "no" /\ k.ws = NoSocket),
           NEW v, v = WithLink(w, l, k)
    PROVE  Inv(v, {}, {}) /\ v.links[l] = k /\ v.socks = w.socks
  <1>1. PICK m : m = [w.links EXCEPT ![l] = k]
    BY Zenon
  <1>2. m \in [Links -> LinkType] /\ m[l] = k /\ \A a \in Links : a # l => m[a] = w.links[a]
    BY <1>1 DEF Inv, WorldType
  <1>3. v = WithLinks(w, m)
    BY <1>1 DEF WithLinks, WithLink
  <1>4. \A a \in Links : m[a] = w.links[a] \/ m[a].stopped \/ (m[a].due # "no" /\ m[a].ws = NoSocket)
    BY <1>2, Zenon
  <1>5. Inv(v, {}, {}) /\ v.links = m /\ v.socks = w.socks
    BY ONLY <1>2, <1>3, <1>4, Inv(w, {}, {}), LinksChangeInv, Zenon
  <1> QED
    BY <1>2, <1>5


\* A socket that changes.
LEMMA SockReplaced ==
    ASSUME NEW w \in WorldType, NEW s \in Sockets, NEW h \in SockType, NEW v, v = WithSock(w, s, h)
    PROVE  /\ v \in WorldType /\ v.socks[s] = h /\ \A t \in Sockets : t # s => v.socks[t] = w.socks[t]
           /\ v.links = w.links /\ v.peer = w.peer /\ v.calls = w.calls /\ v.run = w.run /\ v.ran = w.ran
  <1>1. PICK m : m = [w.socks EXCEPT ![s] = h]
    BY Zenon
  <1>2. m \in [Sockets -> SockType] /\ m[s] = h /\ \A t \in Sockets : t # s => m[t] = w.socks[t]
    BY <1>1 DEF WorldType
  <1>3. v = [w EXCEPT !.socks = m]
    BY <1>1 DEF WithSock
  <1>4. /\ v \in WorldType /\ v.socks = m /\ v.links = w.links /\ v.peer = w.peer /\ v.calls = w.calls
        /\ v.run = w.run /\ v.ran = w.ran
    BY ONLY <1>2, <1>3, w \in WorldType DEF WorldType
  <1> QED
    BY <1>2, <1>4

\* It keeps the invariant if no link waits for its end in vain and it has no new frames.
LEMMA SockInv ==
    ASSUME NEW w, Inv(w, {}, {}), NEW s \in Sockets, NEW h \in SockType,
           \A e \in Ends : h.chan[e] \in {w.socks[s].chan[e], <<>>},
           h.link = NoLink => \A e \in Ends : h.rs[e] = "none",
           \A l \in Links : ~w.links[l].stopped /\ w.links[l].due = "no" /\ w.links[l].ws = s =>
                h.link = l /\ h.rs[Dialler[l]] \in {"connecting", "open", "closing"},
           NEW v, v = WithSock(w, s, h)
    PROVE  Inv(v, {}, {}) /\ v.links = w.links /\ v.peer = w.peer /\ v.socks[s] = h
  <1>1. w \in WorldType /\ LinkOK(w)
    BY Zenon DEF Inv
  <1>2. /\ v \in WorldType /\ v.socks[s] = h /\ \A t \in Sockets : t # s => v.socks[t] = w.socks[t]
        /\ v.links = w.links /\ v.peer = w.peer /\ v.calls = w.calls /\ v.run = w.run /\ v.ran = w.ran
    BY ONLY <1>1, SockReplaced, s \in Sockets, h \in SockType, v = WithSock(w, s, h)
  <1>3. ASSUME NEW l \in Links PROVE LinkKept(v, l)
    <2>1. LinkKept(w, l)
      BY <1>1, Zenon DEF LinkOK, LinkKept
    <2>2. w.links[l].ws \in Sockets \cup {NoSocket}
      BY <1>1, Zenon DEF WorldType, LinkType
    <2>3. CASE w.links[l].ws = s
      BY <1>2, <2>1, <2>3 DEF LinkKept
    <2>4. CASE w.links[l].ws # s
      <3>1. w.links[l].ws # NoSocket => v.socks[w.links[l].ws] = w.socks[w.links[l].ws]
        BY <1>2, <2>2, <2>4, Zenon
      <3>2. PICK k : k = w.links[l] /\ k = v.links[l]
        BY <1>2, Zenon
      <3>3. k.ws # NoSocket => v.socks[k.ws] = w.socks[k.ws]
        BY ONLY <3>1, <3>2, Zenon
      <3> QED
        BY ONLY <2>1, <3>2, <3>3, Zenon DEF LinkKept
    <2> QED
      BY <2>3, <2>4, Zenon
  <1>4. LinkOK(v)
    <2>1. ASSUME NEW t \in Sockets, v.socks[t].link = NoLink, NEW e \in Ends PROVE v.socks[t].rs[e] = "none"
      <3>1. CASE t = s
        BY ONLY <1>2, <2>1, <3>1, h.link = NoLink => \A a \in Ends : h.rs[a] = "none", Zenon
      <3>2. CASE t # s
        <4>1. w.socks[t].link = NoLink => \A a \in Ends : w.socks[t].rs[a] = "none"
          BY <1>1, <2>1, Zenon DEF LinkOK
        <4> QED
          BY ONLY <1>2, <2>1, <3>2, <4>1, Zenon
      <3> QED
        BY ONLY <3>1, <3>2
    <2> QED
      BY <1>3, <2>1, Zenon DEF LinkOK, LinkKept
  <1>5. Emptied(w, v)
    <2>1. ASSUME NEW t \in Sockets, NEW e \in Ends PROVE v.socks[t].chan[e] \in {w.socks[t].chan[e], <<>>}
      <3>1. CASE t = s
        BY ONLY <1>2, <2>1, <3>1, \A a \in Ends : h.chan[a] \in {w.socks[s].chan[a], <<>>}, Zenon
      <3>2. CASE t # s
        BY ONLY <1>2, <2>1, <3>2, Zenon
      <3> QED
        BY ONLY <3>1, <3>2
    <2> QED
      BY ONLY <2>1, Zenon DEF Emptied
  <1> QED
    BY <1>2, <1>4, <1>5, LinkStepInv, Zenon

\* One end of a socket changes its ready state.
LEMMA ReadyInv ==
    ASSUME NEW w, Inv(w, {}, {}), NEW s \in Sockets, NEW d \in Ends, w.socks[s].link # NoLink,
           NEW r \in {"none", "connecting", "open", "closing", "closed"},
           r \in Live \/ d # Dialler[w.socks[s].link],
           NEW v, v = [w EXCEPT !.socks[s].rs[d] = r]
    PROVE  Inv(v, {}, {})
  <1>1. w \in WorldType /\ LinkOK(w)
    BY DEF Inv
  <1>2. PICK k \in SockType : k = w.socks[s]
    BY <1>1 DEF WorldType
  <1>3. PICK g : g = [k.rs EXCEPT ![d] = r]
    BY Zenon
  <1>4. /\ g \in [Ends -> {"none", "connecting", "open", "closing", "closed"}]
        /\ g[d] = r /\ \A e \in Ends : e # d => g[e] = k.rs[e]
    BY <1>3 DEF SockType
  <1>5. PICK h : h = [k EXCEPT !.rs = g]
    BY Zenon
  <1>6. h \in SockType /\ h.rs = g /\ h.link = k.link /\ h.chan = k.chan
    BY ONLY <1>4, <1>5, k \in SockType, Zenon DEF SockType
  <1>7. v = WithSock(w, s, h)
    BY <1>2, <1>3, <1>5 DEF WithSock
  <1>8. ASSUME NEW l \in Links, ~w.links[l].stopped /\ w.links[l].due = "no" /\ w.links[l].ws = s
        PROVE  h.link = l /\ h.rs[Dialler[l]] \in {"connecting", "open", "closing"}
    <2>1. k.link = l /\ k.rs[Dialler[l]] \in {"connecting", "open", "closing"}
      BY <1>1, <1>2, <1>8, Zenon DEF LinkOK
    <2>2. Dialler[l] \in Ends
      BY MeshRpcAssumption
    <2> QED
      BY <1>2, <1>4, <1>6, <2>1, <2>2 DEF Live
  <1>9. h.link # NoLink /\ \A e \in Ends : h.chan[e] = w.socks[s].chan[e]
    BY <1>2, <1>6
  <1> QED
    <2>1. \A e \in Ends : h.chan[e] \in {w.socks[s].chan[e], <<>>}
      BY ONLY <1>9, Zenon
    <2>2. h.link = NoLink => \A e \in Ends : h.rs[e] = "none"
      BY ONLY <1>9
    <2>3. \A l \in Links : ~w.links[l].stopped /\ w.links[l].due = "no" /\ w.links[l].ws = s =>
             h.link = l /\ h.rs[Dialler[l]] \in {"connecting", "open", "closing"}
      BY ONLY <1>8
    <2>4. h \in SockType
      BY ONLY <1>6
    <2> QED
      BY ONLY <1>7, <2>1, <2>2, <2>3, <2>4, SockInv, Inv(w, {}, {}), s \in Sockets, Zenon


\* Closing one end of sockets.
LEMMA CloseInv ==
    ASSUME NEW w, Inv(w, {}, {}), NEW d \in Ends, NEW ss, NEW v, v = Close(w, d, ss)
    PROVE  Inv(v, {}, {}) /\ Calm(w, v)
  <1>1. w \in WorldType /\ LinkOK(w)
    BY DEF Inv
  <1>2. /\ v \in WorldType /\ Calm(w, v)
        /\ v.peer = w.peer /\ v.links = w.links /\ v.calls = w.calls /\ v.run = w.run /\ v.ran = w.ran
    BY <1>1, CloseMatters
  <1>3. LinkOK(v) /\ Emptied(w, v)
    BY <1>1, <1>2, SteadyLinks DEF Calm
  <1> QED
    BY <1>2, <1>3, LinkStepInv

\* scheduleRedial: the link of the socket, if it is its link's, has a dial due.
LEMMA RedialInv ==
    ASSUME NEW w, Inv(w, {}, {}), NEW s \in Sockets, w.socks[s].link # NoLink, NEW v, v = Redial(w, s)
    PROVE  Inv(v, {}, {}) /\ v.socks = w.socks /\ v.links[w.socks[s].link].ws # s
  <1>1. w \in WorldType /\ w.links \in [Links -> LinkType]
    BY DEF Inv, WorldType
  <1>2. PICK l \in Links : l = w.socks[s].link
    BY <1>1 DEF WorldType, SockType
  <1>3. CASE w.links[l].ws # s
    BY <1>2, <1>3 DEF Redial
  <1>4. CASE w.links[l].ws = s
    <2>1. PICK r \in LinkType : r = w.links[l]
      BY <1>1
    <2>2. PICK k : k = [r EXCEPT !.ws = NoSocket, !.due = "redial"]
      OBVIOUS
    <2>3. k \in LinkType /\ k.ws = NoSocket /\ k.due = "redial"
      BY ONLY <2>2, r \in LinkType, Zenon DEF LinkType
    <2>4. v = WithLink(w, l, k)
      BY <1>1, <1>2, <1>4, <2>1, <2>2, Zenon DEF Redial, LinkType, WorldType, WithLink
    <2>5. Inv(v, {}, {}) /\ v.links[l] = k /\ v.socks = w.socks
      BY ONLY <2>3, <2>4, LinkChangeInv, Inv(w, {}, {}), l \in Links
    <2> QED
      BY <1>2, <2>3, <2>5, MeshRpcAssumption, Zenon
  <1> QED
    BY <1>3, <1>4, Zenon

\* dial: a new socket is the link's.
LEMMA DialInv ==
    ASSUME NEW w, Inv(w, {}, {}), NEW l \in Links, NEW s \in Sockets, w.socks[s] = Unused,
           NEW v, v = [w EXCEPT !.links[l] = [@ EXCEPT !.due = "no", !.ws = s],
                                !.socks[s] = [@ EXCEPT !.link = l, !.rs[Dialler[l]] = "connecting"]]
    PROVE  Inv(v, {}, {})
  <1>1. w \in WorldType /\ LinkOK(w) /\ w.links \in [Links -> LinkType] /\ w.socks \in [Sockets -> SockType]
    BY DEF Inv, WorldType
  <1>2. Dialler[l] \in Ends /\ NoLink \notin Links /\ NoSocket \notin Sockets
    BY MeshRpcAssumption
  <1>3. PICK r \in LinkType : r = w.links[l]
    BY <1>1
  <1>4. PICK k : k = [r EXCEPT !.due = "no", !.ws = s]
    OBVIOUS
  <1>5. k \in LinkType /\ k.ws = s /\ k.due = "no"
    BY ONLY <1>4, r \in LinkType, s \in Sockets, Zenon DEF LinkType
  <1>6. PICK o \in SockType : o = w.socks[s]
    BY <1>1
  <1>7. PICK g : g = [o.rs EXCEPT ![Dialler[l]] = "connecting"]
    BY Zenon
  <1>8. g \in [Ends -> {"none", "connecting", "open", "closing", "closed"}] /\ g[Dialler[l]] = "connecting"
    BY <1>2, <1>7 DEF SockType
  <1>9. PICK h : h = [o EXCEPT !.link = l, !.rs = g]
    OBVIOUS
  <1>10. h \in SockType /\ h.link = l /\ h.rs = g /\ h.chan = o.chan
    BY ONLY <1>8, <1>9, o \in SockType, l \in Links, Zenon DEF SockType
  <1>11. PICK m : m = [w.links EXCEPT ![l] = k]
    BY Zenon
  <1>12. m \in [Links -> LinkType] /\ m[l] = k /\ \A a \in Links : a # l => m[a] = w.links[a]
    BY <1>1, <1>5, <1>11
  <1>13. PICK n : n = [w.socks EXCEPT ![s] = h]
    BY Zenon
  <1>14. n \in [Sockets -> SockType] /\ n[s] = h /\ \A t \in Sockets : t # s => n[t] = w.socks[t]
    BY <1>1, <1>10, <1>13
  <1>15. v = [w EXCEPT !.links = m, !.socks = n]
    BY <1>1, <1>3, <1>4, <1>6, <1>7, <1>9, <1>11, <1>13 DEF WorldType, SockType
  <1>16. /\ v \in WorldType /\ v.links = m /\ v.socks = n /\ v.peer = w.peer /\ v.calls = w.calls
         /\ v.run = w.run /\ v.ran = w.ran
    BY ONLY <1>1, <1>12, <1>14, <1>15, Zenon DEF WorldType
  <1>17. ASSUME NEW a \in Links PROVE LinkKept(v, a)
    <2>1. CASE a = l
      BY ONLY <1>5, <1>8, <1>10, <1>12, <1>14, <1>16, <1>2, <2>1, s \in Sockets DEF LinkKept
    <2>2. CASE a # l
      <3>1. LinkKept(w, a)
        BY <1>1, Zenon DEF LinkOK, LinkKept
      <3>2. PICK b \in LinkType : b = w.links[a] /\ b = v.links[a]
        BY <1>1, <1>12, <1>16, <2>2
      <3>3. b.ws \in Sockets \cup {NoSocket}
        BY DEF LinkType
      <3>4. w.socks[s].link # a
        BY <1>2 DEF Unused
      <3>5. CASE b.ws = s
        BY ONLY <3>1, <3>2, <3>4, <3>5 DEF LinkKept
      <3>6. CASE b.ws # s
        <4>1. b.ws # NoSocket => v.socks[b.ws] = w.socks[b.ws]
          BY <1>14, <1>16, <3>3, <3>6
        <4> QED
          BY ONLY <3>1, <3>2, <4>1, Zenon DEF LinkKept
      <3> QED
        BY <3>5, <3>6
    <2> QED
      BY <2>1, <2>2
  <1>18. LinkOK(v)
    <2>1. ASSUME NEW t \in Sockets, v.socks[t].link = NoLink, NEW e \in Ends PROVE v.socks[t].rs[e] = "none"
      <3>1. t # s
        BY <1>2, <1>10, <1>14, <1>16, <2>1
      <3> QED
        <4>1. \A u \in Sockets : w.socks[u].link = NoLink => \A a \in Ends : w.socks[u].rs[a] = "none"
          BY <1>1, Zenon DEF LinkOK
        <4>2. v.socks[t] = w.socks[t]
          BY ONLY <1>14, <1>16, <3>1, t \in Sockets
        <4> QED
          BY ONLY <2>1, <4>1, <4>2, t \in Sockets, e \in Ends
    <2> QED
      BY <1>17, <2>1, Zenon DEF LinkOK, LinkKept
  <1>19. Emptied(w, v)
    BY ONLY <1>6, <1>10, <1>14, <1>16 DEF Emptied
  <1> QED
    BY ONLY <1>16, <1>18, <1>19, LinkStepInv, Inv(w, {}, {})


\* 'close' at one end: the link redials, the peer loses the socket, and the last end frees it.
LEMMA ClosedInv ==
    ASSUME NEW w, Inv(w, {}, {}), NEW s \in Sockets, NEW d \in Ends, w.socks[s].rs[d] # "none",
           NEW v, v = Rid(OnSocketClosed(w, d, s), s, d)
    PROVE  Inv(v, {}, {})
  <1>1. w \in WorldType /\ LinkOK(w)
    BY DEF Inv
  <1>2. w.socks[s].link # NoLink
    BY <1>1 DEF LinkOK
  <1>3. PICK l \in Links : l = w.socks[s].link
    BY <1>1, <1>2 DEF WorldType, SockType
  <1>4. PICK x : x = IF d = Dialler[l] THEN Redial(w, s) ELSE w
    OBVIOUS
  <1>5. Inv(x, {}, {}) /\ x.socks = w.socks /\ (d = Dialler[l] => x.links[l].ws # s)
    <2>1. Inv(Redial(w, s), {}, {}) /\ Redial(w, s).socks = w.socks /\ Redial(w, s).links[l].ws # s
      BY <1>2, <1>3, RedialInv, Zenon
    <2> QED
      BY <1>4, <2>1, Zenon
  <1>6. PICK u : u = ReleaseAttachment(x, d, s, "DATACHANNEL_CLOSED")
    BY Zenon
  <1>7. v = Rid(u, s, d)
    BY <1>3, <1>4, <1>6, Zenon DEF OnSocketClosed
  <1>8. Inv(u, {}, {}) /\ Calm(x, u)
    <2>1. "DATACHANNEL_CLOSED" \in Outcomes /\ "DATACHANNEL_CLOSED" \notin Unsent /\ "DATACHANNEL_CLOSED" \notin Answers
      BY DEF Outcomes, Unsent, Answers
    <2> QED
      BY <1>5, <1>6, <2>1, ReleaseInv, Zenon
  <1>9. u \in WorldType /\ LinkOK(u)
    BY <1>8, Zenon DEF Inv
  <1>10. u.links = x.links /\ u.socks[s].link = l
    BY <1>3, <1>5, <1>8, Zenon DEF Calm, Steady
  <1>11. ASSUME NEW a \in Links, ~u.links[a].stopped /\ u.links[a].due = "no" /\ u.links[a].ws = s
         PROVE  a = l /\ Dialler[a] # d /\ u.socks[s].rs[Dialler[a]] \in {"connecting", "open", "closing"}
    <2>1. u.socks[s].link = a /\ u.socks[s].rs[Dialler[a]] \in {"connecting", "open", "closing"}
      BY <1>9, <1>11, Zenon DEF LinkOK
    <2> QED
      BY <1>5, <1>10, <1>11, <2>1, Zenon
  <1>12. PICK k \in SockType : k = u.socks[s]
    BY <1>9, Zenon DEF WorldType
  <1>13. ASSUME NEW a \in Links PROVE Dialler[a] \in Ends /\ (Dialler[a] # d => Dialler[a] = Other(d))
    <2>1. Dialler[a] \in Ends
      BY MeshRpcAssumption, Zenon
    <2> QED
      BY <2>1, TwoEnds, Zenon
  <1>14. CASE k.rs[Other(d)] \in {"none", "closed"}
    <2>1. v = WithSock(u, s, Unused)
      BY <1>7, <1>12, <1>14 DEF Rid, WithSock
    <2>2. PICK z : z = <<>>
      OBVIOUS
    <2>3. z \in Seq(Frames)
      BY <2>2
    <2>4. PICK h : h = [link |-> NoLink, rs |-> [e \in Ends |-> "none"], chan |-> [e \in Ends |-> z], dead |-> FALSE]
      BY Zenon
    <2>5. h \in SockType /\ \A e \in Ends : h.rs[e] = "none" /\ h.chan[e] = z
      BY ONLY <2>3, <2>4, Zenon DEF SockType
    <2>6. h = Unused
      BY <2>2, <2>4, Zenon DEF Unused
    <2>7. \A a \in Links : ~(~u.links[a].stopped /\ u.links[a].due = "no" /\ u.links[a].ws = s)
      BY <1>11, <1>12, <1>13, <1>14, Zenon
    <2>8. \A e \in Ends : h.chan[e] \in {u.socks[s].chan[e], <<>>}
      BY <2>2, <2>5
    <2>9. v = WithSock(u, s, h)
      BY <2>1, <2>6
    <2> QED
      BY ONLY <1>8, <2>5, <2>7, <2>8, <2>9, s \in Sockets, SockInv, Zenon
  <1>15. CASE k.rs[Other(d)] \notin {"none", "closed"}
    <2>1. k.rs \in [Ends -> {"none", "connecting", "open", "closing", "closed"}] /\ k.chan \in [Ends -> Seq(Frames)]
      BY Zenon DEF SockType
    <2>2. PICK z : z = <<>>
      OBVIOUS
    <2>3. z \in Seq(Frames)
      BY <2>2
    <2>4. PICK g : g = [k.rs EXCEPT ![d] = "closed"]
      BY Zenon
    <2>5. PICK m : m = [k.chan EXCEPT ![d] = z]
      BY Zenon
    <2>6. /\ g \in [Ends -> {"none", "connecting", "open", "closing", "closed"}] /\ m \in [Ends -> Seq(Frames)]
          /\ \A e \in Ends : (e # d => g[e] = k.rs[e]) /\ m[e] \in {k.chan[e], z}
      BY ONLY <2>1, <2>3, <2>4, <2>5, d \in Ends
    <2>7. PICK h : h = [k EXCEPT !.rs = g, !.chan = m]
      OBVIOUS
    <2>8. h \in SockType /\ h.rs = g /\ h.chan = m /\ h.link = k.link
      BY ONLY <2>6, <2>7, k \in SockType, Zenon DEF SockType
    <2>9. v = [u EXCEPT !.socks[s].rs[d] = "closed", !.socks[s].chan[d] = <<>>]
      BY <1>7, <1>12, <1>15, Zenon DEF Rid
    <2>10. v = WithSock(u, s, h)
      BY ONLY <1>9, <1>12, <2>1, <2>2, <2>4, <2>5, <2>7, <2>9, s \in Sockets, Zenon DEF WithSock, WorldType, SockType
    <2>11. \A a \in Links : ~u.links[a].stopped /\ u.links[a].due = "no" /\ u.links[a].ws = s =>
                h.link = a /\ h.rs[Dialler[a]] \in {"connecting", "open", "closing"}
      BY <1>10, <1>11, <1>12, <1>13, <2>6, <2>8, Zenon
    <2>12. \A e \in Ends : h.chan[e] \in {u.socks[s].chan[e], <<>>}
      BY <1>12, <2>2, <2>6, <2>8, Zenon
    <2>13. h.link # NoLink
      BY <1>10, <1>12, <2>8, MeshRpcAssumption, Zenon
    <2> QED
      BY ONLY <1>8, <2>8, <2>10, <2>11, <2>12, <2>13, s \in Sockets, SockInv, Zenon
  <1> QED
    BY <1>14, <1>15

\* A broken connection delivers nothing more.
LEMMA BreakInv ==
    ASSUME NEW w, Inv(w, {}, {}), NEW s \in Sockets, w.socks[s].link # NoLink,
           NEW v, v = [w EXCEPT !.socks[s] = [@ EXCEPT !.dead = TRUE, !.chan = [d \in Ends |-> <<>>]]]
    PROVE  Inv(v, {}, {})
  <1>1. w \in WorldType /\ LinkOK(w)
    BY DEF Inv
  <1>2. PICK k \in SockType : k = w.socks[s]
    BY <1>1 DEF WorldType
  <1>3. PICK z : z = <<>>
    OBVIOUS
  <1>4. z \in Seq(Frames)
    BY <1>3
  <1>5. PICK m : m = [d \in Ends |-> z]
    BY Zenon
  <1>6. m \in [Ends -> Seq(Frames)] /\ \A e \in Ends : m[e] = z
    BY ONLY <1>4, <1>5
  <1>7. PICK h : h = [k EXCEPT !.dead = TRUE, !.chan = m]
    OBVIOUS
  <1>8. h \in SockType /\ h.rs = k.rs /\ h.chan = m /\ h.link = k.link
    BY ONLY <1>6, <1>7, k \in SockType, Zenon DEF SockType
  <1>9. v = WithSock(w, s, h)
    BY <1>2, <1>3, <1>5, <1>7 DEF WithSock
  <1>10. \A a \in Links : ~w.links[a].stopped /\ w.links[a].due = "no" /\ w.links[a].ws = s =>
                h.link = a /\ h.rs[Dialler[a]] \in {"connecting", "open", "closing"}
    <2> SUFFICES ASSUME NEW a \in Links, ~w.links[a].stopped /\ w.links[a].due = "no" /\ w.links[a].ws = s
                 PROVE  h.link = a /\ h.rs[Dialler[a]] \in {"connecting", "open", "closing"}
      OBVIOUS
    <2>1. LinkKept(w, a)
      BY <1>1, Zenon DEF LinkOK, LinkKept
    <2> QED
      BY <1>2, <1>8, <2>1 DEF LinkKept
  <1>11. (\A e \in Ends : h.chan[e] \in {w.socks[s].chan[e], <<>>}) /\ h.link # NoLink
    BY <1>2, <1>3, <1>6, <1>8
  <1> QED
    BY ONLY <1>8, <1>9, <1>10, <1>11, s \in Sockets, Inv(w, {}, {}), SockInv, Zenon


\* stopLink: the link is stopped, its socket is closed and leaves the peer.
LEMMA StopInv ==
    ASSUME NEW w, Inv(w, {}, {}), NEW l \in Links, NEW v, v = StopLink(w, l)
    PROVE  Inv(v, {}, {})
  <1>1. PICK u : u = WithLink(w, l, StoppedLink)
    OBVIOUS
  <1>2. StoppedLink \in LinkType /\ StoppedLink.stopped
    BY DEF StoppedLink, LinkType
  <1>3. Inv(u, {}, {})
    BY <1>1, <1>2, LinkChangeInv
  <1>4. PICK s : s = w.links[l].ws
    OBVIOUS
  <1>5. PICK x : x = Close(u, Dialler[l], {s})
    OBVIOUS
  <1>6. Dialler[l] \in Ends
    BY MeshRpcAssumption
  <1>7. Inv(x, {}, {})
    BY <1>3, <1>5, <1>6, CloseInv
  <1>8. v = IF s = NoSocket THEN u ELSE ReleaseAttachment(x, Dialler[l], s, "LINK_REMOVED")
    BY <1>1, <1>4, <1>5 DEF StopLink, WithLink
  <1>9. "LINK_REMOVED" \in Outcomes /\ "LINK_REMOVED" \notin Unsent /\ "LINK_REMOVED" \notin Answers
    BY DEF Outcomes, Unsent, Answers
  <1>10. Inv(ReleaseAttachment(x, Dialler[l], s, "LINK_REMOVED"), {}, {})
    BY ONLY <1>6, <1>7, <1>9, ReleaseInv
  <1> QED
    BY <1>3, <1>8, <1>10

\* close: every link of the end is stopped, its sockets are closed, its peer fails.
LEMMA ShutInv ==
    ASSUME NEW w, Inv(w, {}, {}), NEW d \in Ends, NEW ss,
           NEW m, m = [l \in Links |-> IF l \in {a \in Links : Dialler[a] = d} THEN StoppedLink ELSE w.links[l]],
           NEW v, v = FailPeer(Close(WithLinks(w, m), d, ss), d, "MANAGER_SHUTDOWN")
    PROVE  Inv(v, {}, {})
  <1>1. StoppedLink \in LinkType /\ StoppedLink.stopped
    BY Zenon DEF StoppedLink, LinkType
  <1>2. m \in [Links -> LinkType] /\ \A l \in Links : m[l] = w.links[l] \/ m[l].stopped
    BY <1>1 DEF Inv, WorldType
  <1>3. PICK u : u = WithLinks(w, m)
    BY Zenon
  <1>4. Inv(u, {}, {})
    BY ONLY <1>2, <1>3, Inv(w, {}, {}), LinksChangeInv
  <1>5. PICK x : x = Close(u, d, ss)
    OBVIOUS
  <1>6. Inv(x, {}, {})
    BY <1>4, <1>5, CloseInv, Zenon
  <1>7. "MANAGER_SHUTDOWN" \in Outcomes /\ "MANAGER_SHUTDOWN" \notin Unsent /\ "MANAGER_SHUTDOWN" \notin Answers
    BY DEF Outcomes, Unsent, Answers
  <1>8. v = FailPeer(x, d, "MANAGER_SHUTDOWN")
    BY <1>3, <1>5, Zenon
  <1> QED
    BY ONLY <1>6, <1>7, <1>8, d \in Ends, FailPeerInv

\* The connect wait of a queued command ends.
LEMMA WaitEndsInv ==
    ASSUME NEW w, Inv(w, {}, {}), NEW c \in Calls, NEW d \in Ends, d = From[c], c \in Range(w.peer[d].queue),
           NEW v, v = Settle([w EXCEPT !.peer[d].queue = Without(@, c)], {c}, "PEER_NOT_CONNECTED")
    PROVE  Inv(v, {}, {})
  <1>1. w.peer[d] \in PeerType /\ PeerOK(w.peer[d], d)
    BY DEF Inv, WorldType
  <1>2. PICK r \in PeerType : r = w.peer[d]
    BY <1>1
  <1>3. PICK q \in Seq(Calls) : q = r.queue
    BY DEF PeerType
  <1>4. PICK z : z = Without(q, c)
    OBVIOUS
  <1>5. z \in Seq(Calls) /\ Range(z) = Range(q) \ {c} /\ Distinct(z)
    <2>1. Distinct(q)
      BY <1>1, <1>2, <1>3 DEF PeerOK
    <2> QED
      BY <1>4, <2>1, WithoutEntry
  <1>6. PICK p : p = [r EXCEPT !.queue = z]
    BY Zenon
  <1>7. p \in PeerType /\ p.queue = z /\ p.att = r.att /\ p.state = r.state /\ p.inflight = r.inflight
    BY ONLY <1>5, <1>6, r \in PeerType, Zenon DEF PeerType
  <1>8. v = Settle(WithPeer(w, d, p), {c}, "PEER_NOT_CONNECTED")
    BY <1>2, <1>3, <1>4, <1>6 DEF WithPeer
  <1>9. Queued(w, c) /\ c \notin r.inflight
    BY <1>1, <1>2 DEF PeerOK, Queued
  <1>10. "PEER_NOT_CONNECTED" \in Outcomes /\ "PEER_NOT_CONNECTED" \notin Answers
    BY DEF Outcomes, Unsent, Answers
  <1>11. p.inflight = w.peer[d].inflight \ {c} /\ p.state = w.peer[d].state /\ p.att = w.peer[d].att
         /\ Range(p.queue) = Range(w.peer[d].queue) \ {c}
    BY <1>2, <1>3, <1>5, <1>7, <1>9
  <1> QED
    BY ONLY <1>5, <1>7, <1>8, <1>9, <1>10, <1>11, Inv(w, {}, {}), c \in Calls, d \in Ends, d = From[c], LeavesPlace, Zenon


----------------------------------------------------------------------------
(* The specification *)

\* The invariant of the state: no command is in hand between two steps.
MeshInv == Inv(World, {}, {})

\* What a handler makes of the world becomes the state.
LEMMA BecomeInv == ASSUME NEW v, Inv(v, {}, {}), Become(v) PROVE MeshInv'
  <1>1. v \in WorldType
    BY DEF Inv
  <1>2. v = [ peer |-> v.peer, dropped |-> v.dropped, links |-> v.links, socks |-> v.socks, calls |-> v.calls,
              run |-> v.run, ran |-> v.ran ]
    BY <1>1 DEF WorldType
  <1>3. World' = v
    BY <1>2 DEF Become, World
  <1> QED
    BY <1>3 DEF MeshInv

\* The parts of the world are the variables.
LEMMA WorldFields ==
    /\ World.peer = peer /\ World.dropped = dropped /\ World.links = links /\ World.socks = socks
    /\ World.calls = calls /\ World.run = run /\ World.ran = ran
  BY DEF World

\* It holds initially.
LEMMA MeshInit == Init => MeshInv
  <1> SUFFICES ASSUME Init PROVE Inv(World, {}, {})
    BY DEF MeshInv
  <1>1. PICK w : w = World
    OBVIOUS
  <1>2. /\ w.peer = [d \in Ends |-> NoPeer] /\ w.dropped = [d \in Ends |-> FALSE] /\ w.links = [l \in Links |-> NewLink]
        /\ w.socks = [s \in Sockets |-> Unused] /\ w.run = [c \in Calls |-> "no"] /\ w.ran = [c \in Calls |-> 0]
        /\ w.calls = [c \in Calls |-> [st |-> "new", kind |-> "plain", acked |-> FALSE]]
    BY <1>1, WorldFields, Zenon DEF Init
  <1>3. \A d \in Ends : w.peer[d] = NoPeer /\ NoPeer \in PeerType /\ PeerOK(NoPeer, d) /\ AttOK(NoPeer)
    BY <1>2, NoPeerOK
  <1>4. PICK z : z = <<>>
    OBVIOUS
  <1>5. z \in Seq(Frames)
    BY <1>4
  <1>6. PICK h : h = [link |-> NoLink, rs |-> [e \in Ends |-> "none"], chan |-> [e \in Ends |-> z], dead |-> FALSE]
    BY Zenon
  <1>7. h \in SockType /\ h.link = NoLink /\ \A e \in Ends : h.rs[e] = "none" /\ h.chan[e] = z
    BY ONLY <1>5, <1>6 DEF SockType
  <1>8. h = Unused
    BY <1>4, <1>6 DEF Unused
  <1>9. \A s \in Sockets : w.socks[s] = h
    BY <1>2, <1>8
  <1>10. NewLink \in LinkType /\ NewLink.due = "now" /\ NewLink.ws = NoSocket
    BY DEF NewLink, LinkType
  <1>11. PICK k \in CallType : k = [st |-> "new", kind |-> "plain", acked |-> FALSE]
    BY Zenon DEF CallType
  <1>12. k.st = "new"
    BY <1>11
  <1>13. \A c \in Calls : w.calls[c] = k /\ w.run[c] = "no" /\ w.ran[c] = 0
    BY <1>2, <1>11
  <1>14. w \in WorldType
    <2>1. w.peer \in [Ends -> PeerType] /\ w.dropped \in [Ends -> BOOLEAN]
      BY <1>2, <1>3
    <2>2. w.links \in [Links -> LinkType] /\ w.socks \in [Sockets -> SockType]
      BY ONLY <1>2, <1>7, <1>8, <1>10
    <2>3. /\ w.calls \in [Calls -> CallType] /\ w.run \in [Calls -> {"no", "running", "orphaned", "done"}]
          /\ w.ran \in [Calls -> 0 .. 2]
      BY ONLY <1>2, <1>11, k \in CallType
    <2>4. w = [ peer |-> w.peer, dropped |-> w.dropped, links |-> w.links, socks |-> w.socks, calls |-> w.calls,
                run |-> w.run, ran |-> w.ran ]
      BY <1>1 DEF World
    <2> QED
      BY ONLY <2>1, <2>2, <2>3, <2>4 DEF WorldType
  <1>15. \A c \in Calls : ~Queued(w, c) /\ ~Flying(w, c)
    <2>1. Range(NoPeer.queue) = {} /\ NoPeer.inflight = {}
      BY DEF NoPeer, Range
    <2> QED
      BY <1>3, <2>1, MeshRpcAssumption, Zenon DEF Queued, Flying
  <1>16. \A s \in Sockets, e \in Ends : \A i, kk, c : ~FrameAt(w, s, e, i, kk, c)
    BY <1>4, <1>7, <1>9 DEF FrameAt
  <1>17. CallOK(w, {})
    BY <1>12, <1>13, <1>15 DEF CallOK
  <1>18. ToldOK(w, {})
    <2>1. "new" \notin Answers
      BY DEF Answers
    <2> QED
      BY <1>12, <1>13, <1>16, <2>1 DEF ToldOK, Fresh
  <1>19. LinkOK(w)
    <2>1. \A l \in Links : LinkKept(w, l)
      BY <1>2, <1>10 DEF LinkKept
    <2> QED
      BY <1>7, <1>9, <2>1, Zenon DEF LinkOK, LinkKept
  <1> QED
    BY <1>1, <1>3, <1>14, <1>17, <1>18, <1>19 DEF Inv

\* The commands: every step of a caller keeps the invariant.
LEMMA CommandSteps ==
    ASSUME MeshInv, NEW c \in Calls
    PROVE  /\ \A kind \in KindsOf[c] : SendCommand(c, kind) => MeshInv'
           /\ ConnectWaitEnds(c) \/ AckTimeout(c) \/ RequestTimeout(c) => MeshInv'
           /\ \A how \in Answers : HandlerEnds(c, how) => MeshInv'
  <1>1. PICK w : w = World
    OBVIOUS
  <1>2. Inv(w, {}, {})
    BY <1>1 DEF MeshInv
  <1>3. w.peer = peer /\ w.calls = calls /\ w.run = run
    BY <1>1, WorldFields
  <1>4. PICK d \in Ends : d = From[c]
    BY MeshRpcAssumption
  <1>5. ASSUME NEW kind \in KindsOf[c], SendCommand(c, kind) PROVE MeshInv'
    <2>1. PICK u : u = Submitted(c, kind)
      OBVIOUS
    <2>2. Inv(u, {c}, {})
      <3>1. u = [w EXCEPT !.calls[c] = [st |-> "open", kind |-> kind, acked |-> FALSE]] /\ w.calls[c].st = "new"
        BY <1>1, <1>3, <1>5, <2>1, Zenon DEF Submitted, SendCommand
      <3> QED
        BY ONLY <1>2, <3>1, c \in Calls, kind \in KindsOf[c], SubmitInv
    <2>3. ASSUME NEW how \in {"MANAGER_SHUTDOWN", "RETRY_SCHEDULED"} PROVE Inv(Settle(u, {c}, how), {}, {})
      <3>1. how \in Outcomes /\ how \notin Answers
        BY DEF Outcomes, Unsent, Answers
      <3> QED
        BY <2>2, <3>1, SettleHand
    <2>4. Inv(Enqueue(GetOrCreatePeer(u, d), d, c), {}, {})
      <3>1. PICK x : x = GetOrCreatePeer(u, d)
        OBVIOUS
      <3>2. Inv(x, {c}, {}) /\ x.peer[d].state # "none"
        BY <2>2, <3>1, GetPeerInv
      <3> QED
        BY <1>4, <3>1, <3>2, EnqueueInv, Zenon
    <2>5. \/ Become(Settle(u, {c}, "MANAGER_SHUTDOWN")) \/ Become(Settle(u, {c}, "RETRY_SCHEDULED"))
          \/ Become(Enqueue(GetOrCreatePeer(u, d), d, c))
      BY <1>4, <1>5, <2>1, Zenon DEF SendCommand
    <2> QED
      BY <2>3, <2>4, <2>5, BecomeInv, Zenon
  <1>6. ASSUME ConnectWaitEnds(c) PROVE MeshInv'
    <2>1. PICK v : v = Settle([w EXCEPT !.peer[d].queue = Without(@, c)], {c}, "PEER_NOT_CONNECTED")
      OBVIOUS
    <2>2. c \in Range(w.peer[d].queue) /\ Become(v)
      BY <1>1, <1>3, <1>4, <1>6, <2>1 DEF ConnectWaitEnds
    <2>3. Inv(v, {}, {})
      BY <1>2, <1>4, <2>1, <2>2, WaitEndsInv
    <2> QED
      BY <2>2, <2>3, BecomeInv
  <1>7. ASSUME NEW code \in {"ACK_TIMEOUT", "REQUEST_TIMEOUT"}, c \in peer[d].inflight,
               \E v \in NoteRequestTimeout(TimedOut(c, code), d) : Become(v)
        PROVE  MeshInv'
    <2>1. PICK u : u = TimedOut(c, code)
      OBVIOUS
    <2>2. code \in Outcomes /\ code \notin Unsent /\ code \notin Answers
      BY DEF Outcomes, Unsent, Answers
    <2>3. u = Settle([w EXCEPT !.peer[d].inflight = @ \ {c}], {c}, code)
      BY <1>1, <1>4, <2>1 DEF TimedOut
    <2>4. Flying(w, c)
      BY <1>3, <1>4, <1>7 DEF Flying
    <2>5. Inv(u, {}, {})
      BY ONLY <1>2, <1>4, <2>2, <2>3, <2>4, c \in Calls, LeavesFlight
    <2>6. PICK v \in NoteRequestTimeout(u, d) : Become(v)
      BY <1>7, <2>1
    <2>7. Inv(v, {}, {})
      BY <2>5, NoteInv
    <2> QED
      BY <2>6, <2>7, BecomeInv
  <1>8. ASSUME AckTimeout(c) \/ RequestTimeout(c) PROVE MeshInv'
    BY <1>4, <1>7, <1>8 DEF AckTimeout, RequestTimeout
  <1>9. ASSUME NEW how \in Answers, HandlerEnds(c, how) PROVE MeshInv'
    <2>1. PICK v : v = IF w.run[c] = "running"
                       THEN Write([w EXCEPT !.run[c] = "done"], Other(From[c]), <<[k |-> how, c |-> c]>>)
                       ELSE [w EXCEPT !.run[c] = "done"]
      OBVIOUS
    <2>2. w.run[c] \in {"running", "orphaned"} /\ Become(v)
      BY <1>1, <1>3, <1>9, <2>1 DEF HandlerEnds
    <2>3. Inv(v, {}, {})
      BY ONLY <1>2, <2>1, <2>2, c \in Calls, how \in Answers, EndInv
    <2> QED
      BY <2>2, <2>3, BecomeInv
  <1> QED
    BY <1>5, <1>6, <1>8, <1>9


\* The ends: connect deadline, disconnect, close.
LEMMA EndSteps ==
    ASSUME MeshInv, NEW d \in Ends
    PROVE  ConnectTimeout(d) \/ DisconnectPeer(d) \/ Shutdown(d) => MeshInv'
  <1>1. PICK w : w = World
    OBVIOUS
  <1>2. Inv(w, {}, {})
    BY <1>1 DEF MeshInv
  <1>3. w.peer = peer /\ w.links = links
    BY <1>1, WorldFields
  <1>4. ASSUME ConnectTimeout(d) PROVE MeshInv'
    <2>1. PICK v : v = FailPeer(w, d, "CONNECT_TIMEOUT")
      OBVIOUS
    <2>2. "CONNECT_TIMEOUT" \in Outcomes /\ "CONNECT_TIMEOUT" \notin Answers
      BY DEF Outcomes, Unsent, Answers
    <2>3. w.peer[d].inflight = {}
      BY <1>2, <1>3, <1>4, Zenon DEF ConnectTimeout, Inv, PeerOK
    <2>4. Inv(v, {}, {})
      BY ONLY <1>2, <2>1, <2>2, <2>3, d \in Ends, FailPeerInv
    <2>5. Become(v)
      BY <1>1, <1>4, <2>1 DEF ConnectTimeout
    <2> QED
      BY <2>4, <2>5, BecomeInv
  <1>5. ASSUME DisconnectPeer(d) PROVE MeshInv'
    <2>1. PICK v : v = FailPeer(w, d, "PEER_DISCONNECTED")
      OBVIOUS
    <2>2. "PEER_DISCONNECTED" \in Outcomes /\ "PEER_DISCONNECTED" \notin Unsent /\ "PEER_DISCONNECTED" \notin Answers
      BY DEF Outcomes, Unsent, Answers
    <2>3. Inv(v, {}, {})
      BY ONLY <1>2, <2>1, <2>2, d \in Ends, FailPeerInv
    <2>4. Become(v)
      BY <1>1, <1>5, <2>1 DEF DisconnectPeer
    <2> QED
      BY <2>3, <2>4, BecomeInv
  <1>6. ASSUME Shutdown(d) PROVE MeshInv'
    <2>1. PICK m : m = [l \in Links |-> IF l \in {a \in Links : Dialler[a] = d} THEN StoppedLink ELSE w.links[l]]
      BY Zenon
    <2>2. PICK ss : ss = {links[l].ws : l \in {a \in Links : Dialler[a] = d}}
      BY Zenon
    <2>3. PICK v : v = FailPeer(Close(WithLinks(w, m), d, ss), d, "MANAGER_SHUTDOWN")
      OBVIOUS
    <2>4. Inv(v, {}, {})
      BY ONLY <1>2, <2>1, <2>3, d \in Ends, ShutInv, Zenon
    <2>5. Become(v)
      BY <1>1, <1>3, <1>6, <2>1, <2>2, <2>3 DEF Shutdown, WithLinks
    <2> QED
      BY <2>4, <2>5, BecomeInv
  <1> QED
    BY <1>4, <1>5, <1>6

\* The sockets at one end: frames, close frames, 'close' and the liveness probe.
LEMMA SocketEndSteps ==
    ASSUME MeshInv, NEW s \in Sockets, NEW d \in Ends
    PROVE  Deliver(s, d) \/ CloseArrives(s, d) \/ SocketClosed(s, d) \/ LivenessLost(s, d) => MeshInv'
  <1>1. PICK w : w = World
    OBVIOUS
  <1>2. Inv(w, {}, {})
    BY <1>1 DEF MeshInv
  <1>3. w.socks = socks
    BY <1>1, WorldFields
  <1>4. ASSUME w.socks[s].rs[d] # "none" PROVE w.socks[s].link # NoLink
    <2>1. LinkOK(w)
      BY <1>2, Zenon DEF Inv
    <2>2. w.socks[s].link = NoLink => \A e \in Ends : w.socks[s].rs[e] = "none"
      BY <2>1, Zenon DEF LinkOK
    <2> QED
      BY ONLY <1>4, <2>2, d \in Ends
  <1>5. ASSUME Deliver(s, d) PROVE MeshInv'
    <2>1. PICK f : f = Head(w.socks[s].chan[d])
      OBVIOUS
    <2>2. PICK u : u = Popped(w, s, d)
      OBVIOUS
    <2>3. Foremost(w, s, d, f)
      BY <1>3, <1>5, <2>1 DEF Deliver, MayDeliver, Foremost
    <2>4. /\ Inv(u, {}, {}) /\ f \in Frames
          /\ f.k = "req" => Fresh(u, f.c) /\ ~Queued(u, f.c) /\ u.calls[f.c].st \notin Unsent \cup {"new"}
          /\ f.k \in Answers => u.ran[f.c] = 1 /\ u.run[f.c] = "done"
      BY ONLY <1>2, <2>2, <2>3, s \in Sockets, d \in Ends, HeadRead
    <2>5. PICK v : v = OnMessage(u, d, f)
      OBVIOUS
    <2>6. Inv(v, {}, {})
      BY ONLY <2>4, <2>5, d \in Ends, MessageInv, Zenon
    <2>7. Become(v)
      BY <1>1, <1>3, <1>5, <2>1, <2>2, <2>5 DEF Deliver, Popped
    <2> QED
      BY <2>6, <2>7, BecomeInv
  <1>6. ASSUME CloseArrives(s, d) PROVE MeshInv'
    <2>1. w.socks[s].rs[d] = "open"
      BY <1>3, <1>6 DEF CloseArrives, CloseUnderWay
    <2>2. PICK v : v = [w EXCEPT !.socks[s].rs[d] = "closing"]
      BY Zenon
    <2>3. w.socks[s].link # NoLink
      BY <1>4, <2>1
    <2>4. "closing" \in Live
      BY DEF Live
    <2>5. Inv(v, {}, {})
      BY ONLY <1>2, <2>2, <2>3, <2>4, s \in Sockets, d \in Ends, ReadyInv DEF Live
    <2>6. Become(v)
      BY <1>1, <1>6, <2>2 DEF CloseArrives, Become, World
    <2> QED
      BY <2>5, <2>6, BecomeInv
  <1>7. ASSUME SocketClosed(s, d) PROVE MeshInv'
    <2>1. w.socks[s].rs[d] # "none"
      BY <1>3, <1>7 DEF SocketClosed, Closes
    <2>2. PICK v : v = Rid(OnSocketClosed(w, d, s), s, d)
      OBVIOUS
    <2>3. Inv(v, {}, {})
      BY ONLY <1>2, <2>1, <2>2, s \in Sockets, d \in Ends, ClosedInv
    <2>4. Become(v)
      BY <1>1, <1>7, <2>2 DEF SocketClosed
    <2> QED
      BY <2>3, <2>4, BecomeInv
  <1>8. ASSUME LivenessLost(s, d) PROVE MeshInv'
    <2>1. PICK u : u = Close(w, d, {s})
      OBVIOUS
    <2>2. Inv(u, {}, {})
      BY <1>2, <2>1, CloseInv
    <2>3. PICK v : v = ReleaseAttachment(u, d, s, "PEER_UNRESPONSIVE")
      OBVIOUS
    <2>4. "PEER_UNRESPONSIVE" \in Outcomes /\ "PEER_UNRESPONSIVE" \notin Unsent /\ "PEER_UNRESPONSIVE" \notin Answers
      BY DEF Outcomes, Unsent, Answers
    <2>5. Inv(v, {}, {})
      BY ONLY <2>2, <2>3, <2>4, d \in Ends, ReleaseInv
    <2>6. Become(v)
      BY <1>1, <1>8, <2>1, <2>3 DEF LivenessLost
    <2> QED
      BY <2>5, <2>6, BecomeInv
  <1> QED
    BY <1>5, <1>6, <1>7, <1>8

\* The sockets as a whole: the handshake, and the network that breaks them.
LEMMA SocketSteps ==
    ASSUME MeshInv, NEW s \in Sockets
    PROVE  Accept(s) \/ Established(s) \/ DialFails(s) \/ HandshakeTimesOut(s) \/ Break(s) => MeshInv'
  <1>1. PICK w : w = World
    OBVIOUS
  <1>2. Inv(w, {}, {})
    BY <1>1 DEF MeshInv
  <1>3. w.socks = socks
    BY <1>1, WorldFields
  <1>4. ASSUME w.socks[s].link # NoLink
        PROVE  \E l \in Links : l = w.socks[s].link /\ Dialler[l] \in Ends /\ Other(Dialler[l]) \in Ends
                                  /\ Other(Dialler[l]) # Dialler[l]
    <2>1. PICK l \in Links : l = w.socks[s].link
      BY <1>2, <1>4 DEF Inv, WorldType, SockType
    <2>2. Dialler[l] \in Ends
      BY MeshRpcAssumption
    <2> QED
      BY <2>1, <2>2, TwoEnds, Zenon
  <1>5. ASSUME NEW d \in Ends, w.socks[s].link # NoLink
        PROVE  Inv(AttachSocket([w EXCEPT !.socks[s].rs[d] = "open"], d, s), {}, {})
    <2>1. PICK u : u = [w EXCEPT !.socks[s].rs[d] = "open"]
      BY Zenon
    <2>2. Inv(u, {}, {})
      <3>1. "open" \in Live
        BY DEF Live
      <3> QED
        BY ONLY <1>2, <1>5, <2>1, <3>1, s \in Sockets, d \in Ends, ReadyInv DEF Live
    <2> QED
      BY <2>1, <2>2, AttachInv
  <1>6. ASSUME Accept(s) PROVE MeshInv'
    <2>1. w.socks[s].link # NoLink
      BY <1>3, <1>6 DEF Accept, MayAccept
    <2>2. PICK l \in Links : l = w.socks[s].link /\ Other(Dialler[l]) \in Ends /\ Other(Dialler[l]) # Dialler[l]
      BY <1>4, <2>1
    <2>3. PICK d \in Ends : d = Other(Dialler[l])
      BY <2>2
    <2>4. d = Acceptor(s)
      BY <1>3, <2>2, <2>3 DEF Acceptor
    <2>5. PICK x : x = [w EXCEPT !.socks[s].rs[d] = "closed"]
      BY Zenon
    <2>6. Inv(x, {}, {})
      <3>1. d # Dialler[w.socks[s].link]
        BY <2>2, <2>3
      <3> QED
        BY ONLY <1>2, <2>1, <2>5, <3>1, s \in Sockets, d \in Ends, ReadyInv
    <2>7. PICK y : y = AttachSocket([w EXCEPT !.socks[s].rs[d] = "open"], d, s)
      OBVIOUS
    <2>8. Inv(y, {}, {})
      BY <1>5, <2>1, <2>7
    <2>9. Become(IF down[d] THEN x ELSE y)
      BY <1>1, <1>6, <2>4, <2>5, <2>7 DEF Accept
    <2> QED
      BY <2>6, <2>8, <2>9, BecomeInv
  <1>7. ASSUME Established(s) PROVE MeshInv'
    <2>1. w.socks[s].link # NoLink
      BY <1>3, <1>7 DEF Established, Answered
    <2>2. PICK d \in Ends : d = Dialler[w.socks[s].link]
      BY <1>4, <2>1
    <2>3. PICK v : v = AttachSocket([w EXCEPT !.socks[s].rs[d] = "open"], d, s)
      OBVIOUS
    <2>4. Inv(v, {}, {})
      BY <1>5, <2>1, <2>3
    <2>5. Become(v)
      BY <1>1, <1>3, <1>7, <2>2, <2>3 DEF Established
    <2> QED
      BY <2>4, <2>5, BecomeInv
  <1>8. ASSUME HandshakeFails(s) PROVE MeshInv'
    <2>1. w.socks[s].link # NoLink
      BY <1>3, <1>8 DEF HandshakeFails
    <2>2. PICK d \in Ends : d = Dialler[w.socks[s].link]
      BY <1>4, <2>1
    <2>3. PICK u : u = Close(w, d, {s})
      OBVIOUS
    <2>4. Inv(u, {}, {}) /\ Calm(w, u)
      BY <1>2, <2>3, CloseInv
    <2>5. u.socks[s].link # NoLink
      BY <2>1, <2>4, Zenon DEF Calm, Steady
    <2>6. PICK v : v = Redial(u, s)
      OBVIOUS
    <2>7. Inv(v, {}, {})
      BY <2>4, <2>5, <2>6, RedialInv, Zenon
    <2>8. Become(v)
      BY <1>1, <1>3, <1>8, <2>2, <2>3, <2>6 DEF HandshakeFails
    <2> QED
      BY <2>7, <2>8, BecomeInv
  <1>9. ASSUME DialFails(s) \/ HandshakeTimesOut(s) PROVE MeshInv'
    BY <1>8, <1>9 DEF DialFails, HandshakeTimesOut
  <1>10. ASSUME Break(s) PROVE MeshInv'
    <2>1. w.socks[s].link # NoLink
      BY <1>3, <1>10 DEF Break
    <2>2. PICK v : v = [w EXCEPT !.socks[s] = [@ EXCEPT !.dead = TRUE, !.chan = [d \in Ends |-> <<>>]]]
      BY Zenon
    <2>3. Inv(v, {}, {})
      BY ONLY <1>2, <2>1, <2>2, s \in Sockets, BreakInv, Zenon
    <2>4. socks \in [Sockets -> SockType]
      BY <1>2, <1>3 DEF Inv, WorldType
    <2>5. Become(v)
      BY <1>1, <1>10, <2>2, <2>4, Zenon DEF Break, Become, World, SockType
    <2> QED
      BY <2>3, <2>5, BecomeInv
  <1> QED
    BY <1>6, <1>7, <1>9, <1>10

\* The links.
LEMMA LinkSteps ==
    ASSUME MeshInv, NEW l \in Links
    PROVE  Dial(l) \/ RemoveHostLink(l) \/ AddHostLink(l) => MeshInv'
  <1>1. PICK w : w = World
    OBVIOUS
  <1>2. Inv(w, {}, {})
    BY <1>1 DEF MeshInv
  <1>3. w.socks = socks
    BY <1>1, WorldFields
  <1>4. ASSUME Dial(l) PROVE MeshInv'
    <2>1. PICK s \in Sockets : socks[s] = Unused /\ s = CHOOSE t \in Sockets : socks[t] = Unused
      BY <1>4 DEF Dial, MayDial
    <2>2. PICK v : v = [w EXCEPT !.links[l] = [@ EXCEPT !.due = "no", !.ws = s],
                                 !.socks[s] = [@ EXCEPT !.link = l, !.rs[Dialler[l]] = "connecting"]]
      OBVIOUS
    <2>3. w.socks[s] = Unused
      BY <1>3, <2>1
    <2>4. Inv(v, {}, {})
      BY ONLY <1>2, <2>2, <2>3, s \in Sockets, l \in Links, DialInv, Zenon
    <2>5. Become(v)
      BY <1>1, <1>4, <2>1, <2>2 DEF Dial
    <2> QED
      BY <2>4, <2>5, BecomeInv
  <1>5. PICK u : u = StopLink(w, l)
    OBVIOUS
  <1>6. Inv(u, {}, {})
    BY <1>2, <1>5, StopInv
  <1>7. ASSUME RemoveHostLink(l) PROVE MeshInv'
    <2>1. Become(u)
      BY <1>1, <1>5, <1>7 DEF RemoveHostLink
    <2> QED
      BY <1>6, <2>1, BecomeInv
  <1>8. ASSUME AddHostLink(l) PROVE MeshInv'
    <2>1. PICK v : v = WithLink(u, l, NewLink)
      OBVIOUS
    <2>2. NewLink \in LinkType /\ NewLink.due = "now" /\ NewLink.ws = NoSocket
      BY DEF NewLink, LinkType
    <2>3. Inv(v, {}, {})
      BY ONLY <1>6, <2>1, <2>2, l \in Links, LinkChangeInv
    <2>4. Become(v)
      BY <1>1, <1>5, <1>8, <2>1 DEF AddHostLink, WithLink
    <2> QED
      BY <2>3, <2>4, BecomeInv
  <1> QED
    BY <1>4, <1>7, <1>8

\* Every step keeps the invariant.
LEMMA MeshStep == MeshInv /\ [Next]_vars => MeshInv'
  <1> SUFFICES ASSUME MeshInv, [Next]_vars PROVE MeshInv'
    OBVIOUS
  <1>1. CASE UNCHANGED vars
    BY <1>1 DEF MeshInv, World, vars
  <1>2. ASSUME NEW c \in Calls, NEW kind \in KindsOf[c], SendCommand(c, kind) PROVE MeshInv'
    BY <1>2, CommandSteps
  <1>3. ASSUME NEW c \in Calls, ConnectWaitEnds(c) \/ AckTimeout(c) \/ RequestTimeout(c) PROVE MeshInv'
    BY <1>3, CommandSteps
  <1>8. ASSUME NEW c \in Calls, NEW how \in Answers, HandlerEnds(c, how) PROVE MeshInv'
    BY <1>8, CommandSteps
  <1>4. ASSUME NEW d \in Ends, ConnectTimeout(d) \/ DisconnectPeer(d) \/ Shutdown(d) PROVE MeshInv'
    BY <1>4, EndSteps
  <1>5. ASSUME NEW s \in Sockets, NEW d \in Ends,
               Deliver(s, d) \/ CloseArrives(s, d) \/ SocketClosed(s, d) \/ LivenessLost(s, d)
        PROVE  MeshInv'
    BY <1>5, SocketEndSteps
  <1>6. ASSUME NEW s \in Sockets, Accept(s) \/ Established(s) \/ DialFails(s) \/ HandshakeTimesOut(s) \/ Break(s)
        PROVE  MeshInv'
    BY <1>6, SocketSteps
  <1>7. ASSUME NEW l \in Links, Dial(l) \/ RemoveHostLink(l) \/ AddHostLink(l) PROVE MeshInv'
    BY <1>7, LinkSteps
  <1> QED
    BY <1>1, <1>2, <1>3, <1>4, <1>5, <1>6, <1>7, <1>8, Zenon DEF Next

\* What the invariant says of the three properties.
LEMMA MeshImplies == MeshInv => CallsOwned /\ ToldTruly /\ LinksKept
  <1> SUFFICES ASSUME MeshInv PROVE CallsOwned /\ ToldTruly /\ LinksKept
    OBVIOUS
  <1>1. PICK w : w = World
    OBVIOUS
  <1>2. Inv(w, {}, {})
    BY <1>1 DEF MeshInv
  <1>3. w.peer = peer /\ w.links = links /\ w.socks = socks /\ w.calls = calls /\ w.run = run /\ w.ran = ran
    BY <1>1, WorldFields
  <1>4. CallOK(w, {}) /\ ToldOK(w, {}) /\ LinkOK(w) /\ w \in WorldType
    BY <1>2 DEF Inv
  <1>5. CallsOwned
    <2> SUFFICES ASSUME NEW c \in Calls
                 PROVE  /\ calls[c].st = "open" <=> (InQueue(c) \/ InFlight(c))
                        /\ ~(InQueue(c) /\ InFlight(c))
                        /\ InFlight(c) => peer[From[c]].state = "connected"
                        /\ peer[From[c]].state = "connected" <=> peer[From[c]].att # <<>>
      BY DEF CallsOwned
    <2>1. From[c] \in Ends
      BY MeshRpcAssumption
    <2>2. PICK p : p = peer[From[c]]
      OBVIOUS
    <2>3. PeerOK(p, From[c]) /\ AttOK(p)
      BY <1>2, <1>3, <2>1, <2>2 DEF Inv
    <2>4. (InQueue(c) <=> c \in Range(p.queue)) /\ (InFlight(c) <=> c \in p.inflight)
      BY <2>2 DEF InQueue, InFlight
    <2>5. calls[c].st = "open" <=> (InQueue(c) \/ InFlight(c))
      BY <1>3, <1>4, Zenon DEF CallOK, Queued, Flying, InQueue, InFlight
    <2> QED
      BY <2>2, <2>3, <2>4, <2>5, Zenon DEF PeerOK, AttOK
  <1>6. ToldTruly
    <2> SUFFICES ASSUME NEW c \in Calls
                 PROVE  /\ Told(c) \in Unsent \ {"PAYLOAD_TOO_LARGE"} => NeverBegun(c)
                        /\ Told(c) = "answered" => RanOnce(c)
                        /\ Told(c) = "PAYLOAD_TOO_LARGE" => NeverBegun(c) \/ RanOnce(c)
                        /\ ran[c] <= 1
      BY DEF ToldTruly
    <2>1. ASSUME calls[c].st \in Unsent PROVE NeverBegun(c)
      <3>1. Fresh(w, c)
        BY <1>3, <1>4, <2>1, Zenon DEF ToldOK
      <3>2. ASSUME Requested(c) PROVE FALSE
        <4>1. PICK e \in Ends : e = Other(From[c])
          BY TwoEnds, MeshRpcAssumption
        <4>2. PICK s \in Sockets : \E f \in Range(socks[s].chan[e]) : f.k = "req" /\ f.c = c
          BY <3>2, <4>1 DEF Requested
        <4>3. PICK q \in Seq(Frames) : q = socks[s].chan[e]
          BY <1>3, <1>4 DEF WorldType, SockType
        <4>4. PICK i \in DOMAIN q : q[i].k = "req" /\ q[i].c = c
          BY <4>2, <4>3, Zenon DEF Range
        <4>5. i \in Nat /\ q[i] \in Frames
          BY <4>3
        <4>6. q[i] = [k |-> "req", c |-> c]
          BY <4>4, <4>5 DEF Frames
        <4>7. FrameAt(w, s, e, i, "req", c)
          BY <1>3, <4>3, <4>6 DEF FrameAt
        <4> QED
          BY <3>1, <4>5, <4>7, Zenon DEF Fresh
      <3> QED
        BY <1>3, <3>1, <3>2 DEF Fresh, NeverBegun
    <2>2. (calls[c].st \in Answers => RanOnce(c)) /\ ran[c] <= 1
      BY <1>3, <1>4, Zenon DEF ToldOK, RanOnce
    <2>3. /\ Told(c) \in Unsent \ {"PAYLOAD_TOO_LARGE"} => calls[c].st \in Unsent
          /\ Told(c) = "answered" => calls[c].st \in Answers
          /\ Told(c) = "PAYLOAD_TOO_LARGE" => calls[c].st \in Unsent \/ calls[c].st \in Answers
      BY ONLY TRUE DEF Told, Unsent, Answers
    <2> QED
      BY ONLY <2>1, <2>2, <2>3, Zenon
  <1>7. LinksKept
    BY <1>3, <1>4, Zenon DEF LinkOK, LinksKept
  <1> QED
    BY <1>5, <1>6, <1>7

\* The invariant holds in every state.
LEMMA MeshAlways == Spec => []MeshInv
  BY MeshInit, MeshStep, PTL DEF Spec

\* sendCommand, flushConnectQueue, failPeer, releaseAttachment: a command whose caller waits is in exactly one place,
\* and that place is timed, whatever frames, deadlines, faults and operator commands do in any order.
THEOREM EveryCallOwned == Spec => []CallsOwned
  BY MeshAlways, MeshImplies, PTL

\* failPeer, writeRequest, writeResponse, handleIncomingResponse: a command rejected as unsent never runs at the other
\* daemon, an answered one ran once, one rejected as too large did one or the other, and none runs twice.
THEOREM CallersToldTruly == Spec => []ToldTruly
  BY MeshAlways, MeshImplies, PTL

\* dial, onSocketClosed, scheduleRedial: a link that was not removed is never left without a dial or a socket.
THEOREM LinksNeverAbandoned == Spec => []LinksKept
  BY MeshAlways, MeshImplies, PTL
=============================================================================
