------------------------- MODULE MeshRpcFunctions -------------------------
(***************************************************************************)
(* The functions that the handlers of the mesh transport are composed of:  *)
(* each takes a world of which the invariant holds, with some commands in  *)
(* hand, to one of which it holds again.                                   *)
(***************************************************************************)
EXTENDS MeshRpcWorlds

\* Frames that may be written: a request that is in no other place, a response of an ended command.
Truthful(w, frames) ==
    /\ \A j \in DOMAIN frames :
         /\ frames[j].k = "req" =>
              /\ Fresh(w, frames[j].c) /\ ~Queued(w, frames[j].c)
              /\ w.calls[frames[j].c].st \notin Unsent \cup {"new"}
         /\ frames[j].k \in Answers => w.ran[frames[j].c] = 1 /\ w.run[frames[j].c] = "done"
    /\ \A i, j \in DOMAIN frames : frames[i].k = "req" /\ frames[i] = frames[j] => i = j

\* Writing such frames keeps the invariant.
LEMMA WriteInv ==
    ASSUME NEW w, NEW loose, Inv(w, {}, loose), NEW d \in Ends, NEW frames \in Seq(Frames), Truthful(w, frames),
           NEW v, v = Write(w, d, frames)
    PROVE  Inv(v, {}, loose)
  <1>1. /\ w \in WorldType /\ CallOK(w, {}) /\ ToldOK(w, {}) /\ LinkOK(w)
        /\ \A e \in Ends : PeerOK(w.peer[e], e) /\ (e \notin loose => AttOK(w.peer[e]))
    BY DEF Inv
  <1>2. /\ v \in WorldType /\ Adds(w, v, d, frames)
        /\ v.peer = w.peer /\ v.links = w.links /\ v.calls = w.calls /\ v.run = w.run /\ v.ran = w.ran
        /\ \A s \in Sockets : v.socks[s].link = w.socks[s].link /\ v.socks[s].rs = w.socks[s].rs
    BY <1>1, WriteEffect
  <1>3. PICK t \in Sockets \cup {NoSocket} : \A s \in Sockets, e \in Ends : \A i \in Nat : \A k, c :
             FrameAt(v, s, e, i, k, c) => FrameAt(w, s, e, i, k, c) \/ Added(w, t, d, frames, s, e, i, k, c)
    BY <1>1, <1>2, AddedFrames
  <1>4. \A c \in Calls : (Queued(v, c) <=> Queued(w, c)) /\ (Flying(v, c) <=> Flying(w, c))
    BY <1>2 DEF Queued, Flying
  <1>5. ASSUME NEW s, NEW e, NEW i, NEW c \in Calls, Added(w, t, d, frames, s, e, i, "req", c)
        PROVE  Fresh(w, c) /\ ~Queued(w, c) /\ w.calls[c].st \notin Unsent \cup {"new"}
    <2>1. PICK j \in DOMAIN frames : frames[j] = [k |-> "req", c |-> c]
      BY <1>5 DEF Added
    <2>2. frames[j].k = "req" /\ frames[j].c = c
      BY <2>1
    <2> QED
      BY <2>2 DEF Truthful
  <1>6. ASSUME NEW c \in Calls, v.calls[c].st \in Unsent \cup {"new"} \/ Queued(v, c)
        PROVE  Fresh(v, c)
    <2>1. Fresh(w, c)
      BY <1>1, <1>2, <1>4, <1>6, Zenon DEF ToldOK
    <2>2. ASSUME NEW s \in Sockets, NEW e \in Ends, NEW i \in Nat, FrameAt(v, s, e, i, "req", c)
          PROVE  FALSE
      <3>1. Added(w, t, d, frames, s, e, i, "req", c)
        BY <1>3, <2>1, <2>2 DEF Fresh
      <3> QED
        BY <1>2, <1>4, <1>5, <1>6, <3>1, Zenon
    <2> QED
      BY <1>2, <2>1, <2>2 DEF Fresh
  <1>7. ASSUME NEW c \in Calls, NEW s \in Sockets, NEW u \in Sockets, NEW e \in Ends, NEW f \in Ends,
               NEW i \in Nat, NEW j \in Nat, FrameAt(v, s, e, i, "req", c)
        PROVE  v.ran[c] = 0 /\ (FrameAt(v, u, f, j, "req", c) => s = u /\ e = f /\ i = j)
    <2>1. CASE FrameAt(w, s, e, i, "req", c)
      <3>1. ~Fresh(w, c)
        BY <2>1, Zenon DEF Fresh
      <3>2. FrameAt(v, u, f, j, "req", c) => FrameAt(w, u, f, j, "req", c)
        BY <1>3, <1>5, <3>1
      <3> QED
        BY <1>1, <1>2, <2>1, <3>2 DEF ToldOK
    <2>2. CASE ~FrameAt(w, s, e, i, "req", c)
      <3>1. Added(w, t, d, frames, s, e, i, "req", c)
        BY <1>3, <1>7, <2>2
      <3>2. Fresh(w, c)
        BY <1>5, <3>1
      <3>3. ASSUME FrameAt(v, u, f, j, "req", c) PROVE s = u /\ e = f /\ i = j
        <4>1. Added(w, t, d, frames, u, f, j, "req", c)
          BY <1>3, <3>2, <3>3 DEF Fresh
        <4>2. s = u /\ e = f /\ s = t
          BY <3>1, <4>1 DEF Added
        <4>3. PICK x \in DOMAIN frames : i = Len(w.socks[t].chan[e]) + x /\ frames[x] = [k |-> "req", c |-> c]
          BY <3>1 DEF Added
        <4>4. PICK y \in DOMAIN frames : j = Len(w.socks[t].chan[f]) + y /\ frames[y] = [k |-> "req", c |-> c]
          BY <4>1 DEF Added
        <4>5. x = y
          BY <4>3, <4>4 DEF Truthful
        <4> QED
          BY <4>2, <4>3, <4>4, <4>5
      <3> QED
        BY <1>2, <3>2, <3>3 DEF Fresh
    <2> QED
      BY <2>1, <2>2
  <1>8. ASSUME NEW c \in Calls, NEW s \in Sockets, NEW e \in Ends, NEW i \in Nat, NEW ans \in Answers, FrameAt(v, s, e, i, ans, c)
        PROVE  v.ran[c] = 1 /\ v.run[c] = "done"
    <2>1. CASE FrameAt(w, s, e, i, ans, c)
      BY <1>1, <1>2, <2>1, Zenon DEF ToldOK
    <2>2. CASE Added(w, t, d, frames, s, e, i, ans, c)
      <3>1. PICK j \in DOMAIN frames : frames[j] = [k |-> ans, c |-> c]
        BY <2>2 DEF Added
      <3>2. frames[j].k = ans /\ frames[j].c = c
        BY <3>1
      <3> QED
        BY <1>2, <3>2 DEF Truthful
    <2> QED
      BY <1>3, <1>8, <2>1, <2>2, Zenon
  <1>9. ToldOK(v, {})
    <2>1. \A c \in Calls : /\ v.calls[c].st \in Answers => v.ran[c] = 1 /\ v.run[c] = "done"
                           /\ v.ran[c] <= 1 /\ (v.run[c] = "no" <=> v.ran[c] = 0)
      BY <1>1, <1>2, Zenon DEF ToldOK
    <2> QED
      BY <1>6, <1>7, <1>8, <2>1, Zenon DEF ToldOK
  <1>10. CallOK(v, {})
    BY <1>1, <1>2, <1>4, Zenon DEF CallOK
  <1>11. LinkOK(v)
    BY <1>1, <1>2, SteadyLinks, Zenon DEF Steady
  <1> QED
    BY <1>1, <1>2, <1>9, <1>10, <1>11 DEF Inv

\* writeRequest for requests in hand: each goes in flight with its frame, or is refused as too big.
LEMMA WriteRequestsInv ==
    ASSUME NEW w, NEW d \in Ends, NEW q \in Seq(Calls), Distinct(q), \A c \in Range(q) : From[c] = d,
           Inv(w, Range(q), {}), w.peer[d].state = "connected",
           NEW v, v = WriteRequests(w, d, q)
    PROVE  Inv(v, {}, {})
  <1>1. /\ w \in WorldType /\ CallOK(w, Range(q)) /\ ToldOK(w, Range(q)) /\ LinkOK(w)
        /\ \A e \in Ends : PeerOK(w.peer[e], e) /\ AttOK(w.peer[e])
    BY DEF Inv
  <1>2. w.peer \in [Ends -> PeerType] /\ w.peer[d] \in PeerType /\ From \in [Calls -> Ends] /\ Range(q) \subseteq Calls
    BY <1>1, MeshRpcAssumption DEF WorldType, Range
  <1>3. PICK S : S = {i \in DOMAIN q : w.calls[q[i]].kind # "big"}
    BY Zenon
  <1>4. PICK sent : sent = Keep(q, S)
    OBVIOUS
  <1>5. sent \in Seq(Calls) /\ Range(sent) = {q[i] : i \in S} /\ Distinct(sent)
    <2>1. S \in SUBSET DOMAIN q
      BY <1>3
    <2> QED
      BY <1>4, <2>1, KeepPlaces
  <1>6. Range(sent) \subseteq Range(q)
    BY <1>3, <1>5, Zenon DEF Range
  <1>7. PICK p : p = [w.peer[d] EXCEPT !.inflight = @ \cup Range(sent)]
    BY Zenon
  <1>8. /\ p \in PeerType /\ p.queue = w.peer[d].queue /\ p.att = w.peer[d].att /\ p.state = "connected"
        /\ p.inflight = w.peer[d].inflight \cup Range(sent)
    BY <1>2, <1>6, <1>7, Zenon DEF PeerType
  <1>9. PICK u : u = WithPeer(w, d, p)
    OBVIOUS
  <1>10. /\ u \in WorldType /\ u.peer = [w.peer EXCEPT ![d] = p]
         /\ u.links = w.links /\ u.socks = w.socks /\ u.calls = w.calls /\ u.run = w.run /\ u.ran = w.ran
    BY <1>1, <1>8, <1>9, PeerReplaced
  <1>11. PICK x : x = Settle(u, Range(q) \ Range(sent), "PAYLOAD_TOO_LARGE")
    OBVIOUS
  <1>12. "PAYLOAD_TOO_LARGE" \in Outcomes /\ "PAYLOAD_TOO_LARGE" # "open" /\ "PAYLOAD_TOO_LARGE" \notin Answers
    BY DEF Outcomes, Unsent, Answers
  <1>13. /\ x \in WorldType /\ x.peer = [w.peer EXCEPT ![d] = p]
         /\ x.links = w.links /\ x.socks = w.socks /\ x.run = w.run /\ x.ran = w.ran
         /\ \A c \in Calls : x.calls[c].st = IF c \in Range(q) \ Range(sent) /\ w.calls[c].st = "open"
                                             THEN "PAYLOAD_TOO_LARGE" ELSE w.calls[c].st
    BY <1>10, <1>11, <1>12, SettleEffect
  <1>14. \A c \in Calls : (Queued(x, c) <=> Queued(w, c)) /\ (Flying(x, c) <=> Flying(w, c) \/ c \in Range(sent))
    <2> SUFFICES ASSUME NEW c \in Calls
                 PROVE  (Queued(x, c) <=> Queued(w, c)) /\ (Flying(x, c) <=> Flying(w, c) \/ c \in Range(sent))
      OBVIOUS
    <2>1. CASE From[c] = d
      BY <1>2, <1>8, <1>13, <2>1 DEF Queued, Flying
    <2>2. CASE From[c] # d
      <3>1. x.peer[From[c]] = w.peer[From[c]] /\ c \notin Range(sent)
        BY <1>2, <1>6, <1>13, <2>2
      <3> QED
        BY <3>1 DEF Queued, Flying
    <2> QED
      BY <2>1, <2>2, Zenon
  <1>15. \A c \in Range(q) : w.calls[c].st = "open" /\ ~Queued(w, c) /\ ~Flying(w, c) /\ Fresh(w, c)
    BY <1>1, <1>2, Zenon DEF CallOK, ToldOK
  <1>16. CallOK(x, {})
    BY <1>1, <1>6, <1>12, <1>13, <1>14, <1>15, Zenon DEF CallOK
  <1>17. PeerOK(p, d) /\ AttOK(p)
    <2>1. PeerOK(w.peer[d], d) /\ AttOK(w.peer[d])
      BY <1>1
    <2>2. \A c \in Range(sent) : From[c] = d /\ c \notin Range(p.queue)
      BY <1>2, <1>6, <1>8, <1>15 DEF Queued
    <2> QED
      BY <1>8, <2>1, <2>2 DEF PeerOK, AttOK
  <1>18. \A e \in Ends : PeerOK(x.peer[e], e) /\ AttOK(x.peer[e])
    BY <1>1, <1>2, <1>13, <1>17, Zenon
  <1>19. Calm(w, x)
    BY <1>13 DEF Calm, Steady, Emptied
  <1>20. ToldOK(x, {})
    <2>1. \A c \in Calls : x.calls[c].st \in Unsent \cup {"new"} \/ Queued(x, c) => Fresh(w, c)
      BY <1>1, <1>13, <1>14, <1>15, Zenon DEF ToldOK
    <2>2. \A c \in Calls : x.calls[c].st \in Answers => w.ran[c] = 1 /\ w.run[c] = "done"
      BY <1>1, <1>12, <1>13, Zenon DEF ToldOK
    <2> QED
      BY <1>1, <1>13, <1>19, <2>1, <2>2, CalmTold
  <1>21. Inv(x, {}, {})
    BY <1>1, <1>13, <1>16, <1>18, <1>19, <1>20, SteadyLinks, Zenon DEF Inv, Calm
  <1>22. PICK frames : frames = [i \in DOMAIN sent |-> [k |-> "req", c |-> sent[i]]]
    BY Zenon
  <1>23. /\ frames \in Seq(Frames) /\ DOMAIN frames = DOMAIN sent
         /\ \A i \in DOMAIN frames : frames[i].k = "req" /\ frames[i].c = sent[i] /\ sent[i] \in Range(sent)
    <2>1. PICK n \in Nat : DOMAIN sent = 1 .. n /\ \A i \in 1 .. n : sent[i] \in Calls
      BY <1>5
    <2>2. \A i \in 1 .. n : frames[i] = [k |-> "req", c |-> sent[i]]
      BY <1>22, <2>1
    <2>3. ASSUME NEW i \in 1 .. n PROVE frames[i] \in Frames /\ frames[i].k = "req" /\ frames[i].c = sent[i]
      <3>1. PICK y \in Calls : y = sent[i]
        BY <2>1
      <3>2. frames[i] = [k |-> "req", c |-> y]
        BY <2>2, <3>1
      <3> QED
        BY <3>1, <3>2 DEF Frames
    <2>4. frames \in [1 .. n -> Frames]
      BY <1>22, <2>1, <2>3
    <2> QED
      BY <2>1, <2>3, <2>4 DEF Range
  <1>24. Truthful(x, frames)
    <2>1. ASSUME NEW j \in DOMAIN frames
          PROVE  /\ Fresh(x, frames[j].c) /\ ~Queued(x, frames[j].c)
                 /\ x.calls[frames[j].c].st \notin Unsent \cup {"new"} /\ frames[j].k \notin Answers
      <3>1. PICK c \in Calls : c = frames[j].c /\ c \in Range(sent) /\ c \in Range(q)
        BY <1>2, <1>6, <1>23
      <3>2. Fresh(x, c)
        BY <1>15, <1>19, <3>1, <1>13, EmptiedFrames, Zenon DEF Calm
      <3>3. ~Queued(x, c) /\ x.calls[c].st = "open"
        BY <1>13, <1>14, <1>15, <3>1, Zenon
      <3> QED
        BY <1>23, <3>1, <3>2, <3>3 DEF Unsent, Answers
    <2>2. \A i, j \in DOMAIN frames : frames[i] = frames[j] => i = j
      BY <1>5, <1>23 DEF Distinct
    <2> QED
      BY <2>1, <2>2 DEF Truthful
  <1>25. v = Write(x, d, frames)
    BY <1>3, <1>4, <1>7, <1>9, <1>11, <1>22, Zenon DEF WriteRequests, WithPeer
  <1> QED
    BY <1>21, <1>23, <1>24, <1>25, WriteInv

----------------------------------------------------------------------------
(* Commands come to their places and leave them *)

\* A command in hand is settled.
LEMMA SettleHand ==
    ASSUME NEW w, NEW hand, Inv(w, hand, {}), NEW how \in Outcomes, how \notin Answers, NEW v, v = Settle(w, hand, how)
    PROVE  Inv(v, {}, {})
  <1>1. /\ w \in WorldType /\ CallOK(w, hand) /\ ToldOK(w, hand) /\ LinkOK(w)
        /\ \A e \in Ends : PeerOK(w.peer[e], e) /\ AttOK(w.peer[e])
    BY DEF Inv
  <1>2. /\ v \in WorldType
        /\ v.peer = w.peer /\ v.links = w.links /\ v.socks = w.socks /\ v.run = w.run /\ v.ran = w.ran
        /\ \A c \in Calls : v.calls[c].st = IF c \in hand /\ w.calls[c].st = "open" THEN how ELSE w.calls[c].st
    BY <1>1, SettleEffect
  <1>3. how # "open"
    BY DEF Outcomes, Unsent, Answers
  <1>4. \A c \in Calls : (Queued(v, c) <=> Queued(w, c)) /\ (Flying(v, c) <=> Flying(w, c))
    BY <1>2 DEF Queued, Flying
  <1>5. CallOK(v, {})
    BY <1>1, <1>2, <1>3, <1>4, Zenon DEF CallOK
  <1>6. Calm(w, v)
    BY <1>2 DEF Calm, Steady, Emptied
  <1>7. ToldOK(v, {})
    <2>1. \A c \in Calls : v.calls[c].st \in Unsent \cup {"new"} \/ Queued(v, c) => Fresh(w, c)
      BY <1>1, <1>2, <1>4, Zenon DEF ToldOK
    <2>2. \A c \in Calls : v.calls[c].st \in Answers => w.ran[c] = 1 /\ w.run[c] = "done"
      BY <1>1, <1>2, Zenon DEF ToldOK
    <2> QED
      BY <1>1, <1>2, <1>6, <2>1, <2>2, CalmTold
  <1> QED
    BY <1>1, <1>2, <1>5, <1>6, <1>7, SteadyLinks DEF Inv, Calm

\* A command leaves its place and is settled, as unsent only from the queue, as answered only after it has run.
LEMMA LeavesPlace ==
    ASSUME NEW w, Inv(w, {}, {}), NEW c \in Calls, NEW d \in Ends, d = From[c], Queued(w, c) \/ Flying(w, c),
           NEW p \in PeerType, p.state = w.peer[d].state, p.att = w.peer[d].att, Distinct(p.queue),
           Range(p.queue) = Range(w.peer[d].queue) \ {c}, p.inflight = w.peer[d].inflight \ {c},
           NEW how \in Outcomes, how \in Unsent => Queued(w, c),
           how \in Answers => w.ran[c] = 1 /\ w.run[c] = "done",
           NEW v, v = Settle(WithPeer(w, d, p), {c}, how)
    PROVE  Inv(v, {}, {})
  <1>1. /\ w \in WorldType /\ CallOK(w, {}) /\ ToldOK(w, {}) /\ LinkOK(w)
        /\ \A e \in Ends : PeerOK(w.peer[e], e) /\ AttOK(w.peer[e])
    BY Zenon DEF Inv
  <1>2. w.peer \in [Ends -> PeerType] /\ From \in [Calls -> Ends]
    BY <1>1, MeshRpcAssumption, Zenon DEF WorldType
  <1>3. PICK u : u = WithPeer(w, d, p)
    BY Zenon
  <1>4. /\ u \in WorldType /\ u.peer = [w.peer EXCEPT ![d] = p]
        /\ u.links = w.links /\ u.socks = w.socks /\ u.calls = w.calls /\ u.run = w.run /\ u.ran = w.ran
    BY <1>1, <1>3, PeerReplaced
  <1>5. /\ v \in WorldType /\ v.peer = [w.peer EXCEPT ![d] = p]
        /\ v.links = w.links /\ v.socks = w.socks /\ v.run = w.run /\ v.ran = w.ran
        /\ \A b \in Calls : v.calls[b].st = IF b = c /\ w.calls[b].st = "open" THEN how ELSE w.calls[b].st
    <2>1. PICK cs : cs = {c}
      BY Zenon
    <2>2. u \in WorldType /\ v = Settle(u, cs, how) /\ how \in Outcomes
      BY <1>3, <1>4, <2>1, Zenon
    <2>3. /\ v \in WorldType
          /\ v.peer = u.peer /\ v.links = u.links /\ v.socks = u.socks /\ v.run = u.run /\ v.ran = u.ran
          /\ \A b \in Calls : v.calls[b].st = IF b \in cs /\ u.calls[b].st = "open" THEN how ELSE u.calls[b].st
      BY ONLY <2>2, SettleEffect
    <2> QED
      <3>1. \A b : b \in cs <=> b = c
        BY ONLY <2>1
      <3> QED
        BY ONLY <1>4, <2>3, <3>1, Zenon
  <1>6. how # "open" /\ how # "new" /\ w.calls[c].st = "open"
    BY <1>1, Zenon DEF Outcomes, Unsent, Answers, CallOK
  <1>7. \A b \in Calls : (Queued(v, b) <=> Queued(w, b) /\ b # c) /\ (Flying(v, b) <=> Flying(w, b) /\ b # c)
    <2> SUFFICES ASSUME NEW b \in Calls
                 PROVE  (Queued(v, b) <=> Queued(w, b) /\ b # c) /\ (Flying(v, b) <=> Flying(w, b) /\ b # c)
      OBVIOUS
    <2>1. CASE From[b] = d
      BY <1>2, <1>5, <2>1, Zenon DEF Queued, Flying
    <2>2. CASE From[b] # d
      <3>1. v.peer[From[b]] = w.peer[From[b]] /\ b # c
        BY <1>2, <1>5, <2>2, Zenon
      <3> QED
        BY <3>1, Zenon DEF Queued, Flying
    <2> QED
      BY <2>1, <2>2, Zenon
  <1>8. CallOK(v, {})
    BY <1>1, <1>5, <1>6, <1>7, Zenon DEF CallOK
  <1>9. PeerOK(p, d) /\ AttOK(p)
    <2>1. PeerOK(w.peer[d], d) /\ AttOK(w.peer[d]) /\ w.peer[d] \in PeerType
      BY <1>1, <1>2, Zenon
    <2>2. w.peer[d].state # "none"
      <3>1. Range(<<>>) = {}
        BY DEF Range
      <3> QED
        BY <2>1, <3>1, Zenon DEF PeerOK, Queued, Flying
    <2> QED
      BY <2>1, <2>2, Zenon DEF PeerOK, AttOK
  <1>10. \A e \in Ends : PeerOK(v.peer[e], e) /\ AttOK(v.peer[e])
    BY <1>1, <1>2, <1>5, <1>9, Zenon
  <1>11. Calm(w, v)
    BY <1>5, Zenon DEF Calm, Steady, Emptied
  <1>12. ToldOK(v, {})
    <2>1. \A b \in Calls : v.calls[b].st \in Unsent \cup {"new"} \/ Queued(v, b) => Fresh(w, b)
      BY <1>1, <1>5, <1>6, <1>7, Zenon DEF ToldOK
    <2>2. \A b \in Calls : v.calls[b].st \in Answers => w.ran[b] = 1 /\ w.run[b] = "done"
      BY <1>1, <1>5, Zenon DEF ToldOK
    <2> QED
      <3>1. ToldOK(w, {}) /\ v.run = w.run /\ v.ran = w.ran
        BY <1>1, <1>5, Zenon
      <3> QED
        BY ONLY <1>11, <2>1, <2>2, <3>1, CalmTold
  <1> QED
    BY <1>1, <1>5, <1>8, <1>10, <1>11, <1>12, SteadyLinks, Zenon DEF Inv, Calm

\* A request in flight leaves the table when it is timed out or answered.
LEMMA LeavesFlight ==
    ASSUME NEW w, Inv(w, {}, {}), NEW c \in Calls, NEW d \in Ends, d = From[c], Flying(w, c),
           NEW how \in Outcomes, how \notin Unsent, how \in Answers => w.ran[c] = 1 /\ w.run[c] = "done",
           NEW v, v = Settle([w EXCEPT !.peer[d].inflight = @ \ {c}], {c}, how)
    PROVE  Inv(v, {}, {})
  <1>1. w.peer[d] \in PeerType /\ PeerOK(w.peer[d], d)
    BY DEF Inv, WorldType
  <1>2. PICK p : p = [w.peer[d] EXCEPT !.inflight = @ \ {c}]
    OBVIOUS
  <1>3. /\ p \in PeerType /\ p.state = w.peer[d].state /\ p.att = w.peer[d].att /\ p.queue = w.peer[d].queue
        /\ p.inflight = w.peer[d].inflight \ {c}
    BY <1>1, <1>2 DEF PeerType
  <1>4. Range(p.queue) = Range(w.peer[d].queue) \ {c} /\ Distinct(p.queue)
    BY <1>1, <1>3 DEF PeerOK, Flying
  <1>5. v = Settle(WithPeer(w, d, p), {c}, how)
    BY <1>2 DEF WithPeer
  <1> QED
    BY <1>3, <1>4, <1>5, LeavesPlace, Zenon

\* getOrCreatePeer: a new entry has nothing.
LEMMA GetPeerInv ==
    ASSUME NEW w, NEW hand, Inv(w, hand, {}), NEW d \in Ends, NEW v, v = GetOrCreatePeer(w, d)
    PROVE  Inv(v, hand, {}) /\ v.peer[d].state # "none" /\ v.peer[d] \in PeerType
  <1>1. w \in WorldType /\ w.peer \in [Ends -> PeerType] /\ \A e \in Ends : PeerOK(w.peer[e], e) /\ AttOK(w.peer[e])
    BY DEF Inv, WorldType
  <1>2. CASE w.peer[d].state # "none"
    BY <1>1, <1>2 DEF GetOrCreatePeer
  <1>3. CASE w.peer[d].state = "none"
    <2>1. v = WithPeer(w, d, NewPeer)
      BY <1>3 DEF GetOrCreatePeer, WithPeer
    <2>2. NewPeer \in PeerType /\ PeerOK(NewPeer, d) /\ AttOK(NewPeer)
      BY NoPeerOK
    <2>3. /\ v \in WorldType /\ v.peer = [w.peer EXCEPT ![d] = NewPeer]
          /\ v.links = w.links /\ v.socks = w.socks /\ v.calls = w.calls /\ v.run = w.run /\ v.ran = w.ran
      BY ONLY <1>1, <2>1, <2>2, d \in Ends, PeerReplaced
    <2>4. w.peer[d].queue = NewPeer.queue /\ w.peer[d].inflight = NewPeer.inflight /\ NewPeer.state = "connecting"
      BY <1>1, <1>3 DEF PeerOK, NewPeer, NoPeer
    <2>5. \A e \in Ends : AttOK(v.peer[e])
      BY <1>1, <2>2, <2>3
    <2>6. Inv(v, hand, {})
      BY <2>2, <2>3, <2>4, <2>5, SamePlaces, Zenon
    <2> QED
      BY <1>1, <2>2, <2>3, <2>4, <2>6
  <1> QED
    BY <1>2, <1>3

\* flushConnectQueue: the queue comes in hand and is written.
LEMMA FlushInv ==
    ASSUME NEW w, Inv(w, {}, {}), NEW d \in Ends, w.peer[d].state = "connected",
           NEW v, v = FlushConnectQueue(w, d)
    PROVE  Inv(v, {}, {})
  <1>1. /\ w \in WorldType /\ CallOK(w, {}) /\ ToldOK(w, {}) /\ LinkOK(w)
        /\ \A e \in Ends : PeerOK(w.peer[e], e) /\ AttOK(w.peer[e])
    BY DEF Inv
  <1>2. w.peer \in [Ends -> PeerType] /\ w.peer[d] \in PeerType /\ From \in [Calls -> Ends]
    BY <1>1, MeshRpcAssumption DEF WorldType
  <1>3. PICK q \in Seq(Calls) : q = w.peer[d].queue
    BY <1>2 DEF PeerType
  <1>4. PICK p : p = [w.peer[d] EXCEPT !.queue = <<>>]
    BY Zenon
  <1>5. /\ p \in PeerType /\ p.queue = <<>> /\ p.att = w.peer[d].att /\ p.state = "connected"
        /\ p.inflight = w.peer[d].inflight
    <2>1. PICK z : z = <<>>
      OBVIOUS
    <2>2. z \in Seq(Calls)
      BY <2>1
    <2>3. PICK r \in PeerType : r = w.peer[d]
      BY <1>2
    <2>4. p = [r EXCEPT !.queue = z]
      BY <1>4, <2>1, <2>3
    <2>5. p \in PeerType /\ p.queue = z /\ p.att = r.att /\ p.state = r.state /\ p.inflight = r.inflight
      BY ONLY <2>2, <2>4, r \in PeerType, Zenon DEF PeerType
    <2> QED
      BY <2>1, <2>3, <2>5
  <1>6. PICK u : u = WithPeer(w, d, p)
    OBVIOUS
  <1>7. /\ u \in WorldType /\ u.peer = [w.peer EXCEPT ![d] = p]
        /\ u.links = w.links /\ u.socks = w.socks /\ u.calls = w.calls /\ u.run = w.run /\ u.ran = w.ran
    BY ONLY <1>1, <1>5, <1>6, d \in Ends, PeerReplaced
  <1>8. v = WriteRequests(u, d, q)
    BY <1>3, <1>4, <1>6 DEF FlushConnectQueue, WithPeer
  <1>9. Distinct(q) /\ (\A c \in Range(q) : From[c] = d /\ c \notin p.inflight) /\ Range(q) \subseteq Calls
    <2>1. /\ \A c \in Range(q) \cup p.inflight : From[c] = d
          /\ Distinct(q) /\ Range(q) \cap p.inflight = {}
      BY <1>1, <1>3, <1>5, Zenon DEF PeerOK
    <2>2. q \in Seq(Calls)
      BY <1>2, <1>3, Zenon DEF PeerType
    <2> QED
      BY ONLY <2>1, <2>2 DEF Range
  <1>10. Range(<<>>) = {}
    BY DEF Range
  <1>11. \A c \in Calls : /\ Queued(u, c) <=> Queued(w, c) /\ c \notin Range(q)
                          /\ Flying(u, c) <=> Flying(w, c)
                          /\ c \in Range(q) => Queued(w, c) /\ ~Flying(w, c)
    <2> SUFFICES ASSUME NEW c \in Calls
                 PROVE  /\ Queued(u, c) <=> Queued(w, c) /\ c \notin Range(q)
                        /\ Flying(u, c) <=> Flying(w, c)
                        /\ c \in Range(q) => Queued(w, c) /\ ~Flying(w, c)
      OBVIOUS
    <2>1. CASE From[c] = d
      BY <1>2, <1>3, <1>5, <1>7, <1>9, <1>10, <2>1, Zenon DEF Queued, Flying
    <2>2. CASE From[c] # d
      <3>1. u.peer[From[c]] = w.peer[From[c]] /\ c \notin Range(q)
        BY <1>2, <1>7, <1>9, <2>2
      <3> QED
        BY <3>1 DEF Queued, Flying
    <2> QED
      BY <2>1, <2>2, Zenon
  <1>12. CallOK(u, Range(q))
    BY <1>1, <1>7, <1>11, Zenon DEF CallOK
  <1>13. Calm(w, u)
    BY <1>7, Zenon DEF Calm, Steady, Emptied
  <1>14. ToldOK(u, Range(q))
    <2>1. \A c \in Calls : u.calls[c].st \in Unsent \cup {"new"} \/ Queued(u, c) \/ c \in Range(q) => Fresh(w, c)
      BY <1>1, <1>7, <1>11, Zenon DEF ToldOK
    <2>2. \A c \in Calls : u.calls[c].st \in Answers => w.ran[c] = 1 /\ w.run[c] = "done"
      BY <1>1, <1>7, Zenon DEF ToldOK
    <2> QED
      BY ONLY <1>1, <1>7, <1>13, <2>1, <2>2, CalmTold
  <1>15. PeerOK(p, d) /\ AttOK(p)
    BY <1>1, <1>5, <1>10 DEF PeerOK, AttOK, Distinct
  <1>16. Inv(u, Range(q), {})
    <2>1. \A e \in Ends : PeerOK(u.peer[e], e) /\ AttOK(u.peer[e])
      BY <1>1, <1>2, <1>7, <1>15, Zenon
    <2>2. LinkOK(u)
      BY ONLY <1>1, <1>13, SteadyLinks DEF Calm
    <2> QED
      BY <1>7, <1>12, <1>14, <2>1, <2>2, Zenon DEF Inv
  <1>17. u.peer[d].state = "connected"
    BY <1>2, <1>5, <1>7
  <1> QED
    BY <1>8, <1>9, <1>16, <1>17, WriteRequestsInv

\* attachSocket: a socket replaces the peer whose slot it takes, joins the others and takes the queue.
LEMMA AttachInv ==
    ASSUME NEW w, Inv(w, {}, {}), NEW d \in Ends, NEW s \in Sockets, NEW v, v = AttachSocket(w, d, s)
    PROVE  Inv(v, {}, {})
  <1>1. PICK x : x = IF Occupied(w, d, s) THEN FailPeer(w, d, "PEER_REPLACED") ELSE w
    OBVIOUS
  <1>2. Inv(x, {}, {})
    <2>1. "PEER_REPLACED" \in Outcomes /\ "PEER_REPLACED" \notin Unsent /\ "PEER_REPLACED" \notin Answers
      BY DEF Outcomes, Unsent, Answers
    <2>2. Inv(FailPeer(w, d, "PEER_REPLACED"), {}, {})
      BY <2>1, FailPeerInv
    <2> QED
      BY <1>1, <2>2
  <1>3. PICK y : y = GetOrCreatePeer(x, d)
    OBVIOUS
  <1>4. Inv(y, {}, {}) /\ y.peer[d].state # "none"
    BY <1>2, <1>3, GetPeerInv
  <1>5. PICK u : u = [y EXCEPT !.peer[d].att = Append(@, s), !.peer[d].state = "connected", !.dropped[d] = FALSE]
    OBVIOUS
  <1>6. v = FlushConnectQueue(u, d)
    BY <1>1, <1>3, <1>5 DEF AttachSocket, Attached
  <1>7. y \in WorldType /\ y.peer \in [Ends -> PeerType] /\ y.peer[d] \in PeerType /\ \A e \in Ends : PeerOK(y.peer[e], e) /\ AttOK(y.peer[e])
    BY <1>4 DEF Inv, WorldType
  <1>8. PICK p : p = [y.peer[d] EXCEPT !.att = Append(@, s), !.state = "connected"]
    OBVIOUS
  <1>9. /\ p \in PeerType /\ p.queue = y.peer[d].queue /\ p.inflight = y.peer[d].inflight
        /\ p.state = "connected" /\ p.att = Append(y.peer[d].att, s)
    <2>1. PICK r \in PeerType : r = y.peer[d]
      BY <1>7
    <2>2. PICK a : a = Append(r.att, s)
      BY Zenon
    <2>3. r.att \in Seq(Sockets)
      BY DEF PeerType
    <2>4. a \in Seq(Sockets)
      BY ONLY <2>2, <2>3, s \in Sockets
    <2>5. p = [r EXCEPT !.att = a, !.state = "connected"]
      BY <1>8, <2>1, <2>2
    <2>6. p \in PeerType /\ p.queue = r.queue /\ p.att = a /\ p.state = "connected" /\ p.inflight = r.inflight
      BY ONLY <2>4, <2>5, r \in PeerType, Zenon DEF PeerType
    <2> QED
      BY <2>1, <2>2, <2>6, Zenon
  <1>10. PeerOK(p, d) /\ AttOK(p)
    <2>1. p.att # <<>>
      <3>1. PICK a \in Seq(Sockets) : a = y.peer[d].att
        BY <1>7, Zenon DEF PeerType
      <3>2. Append(a, s) # <<>>
        BY ONLY a \in Seq(Sockets), s \in Sockets
      <3> QED
        BY <1>9, <3>1, <3>2
    <2> QED
      BY <1>4, <1>7, <1>9, <2>1, Zenon DEF PeerOK, AttOK
  <1>11. u = [y EXCEPT !.peer = [y.peer EXCEPT ![d] = p], !.dropped = [y.dropped EXCEPT ![d] = FALSE]]
    BY <1>5, <1>7, <1>8, Zenon DEF WorldType, PeerType
  <1>12. PICK m : m = [y.peer EXCEPT ![d] = p]
    BY Zenon
  <1>13. PICK b : b = [y.dropped EXCEPT ![d] = FALSE]
    BY Zenon
  <1>14. m \in [Ends -> PeerType] /\ b \in [Ends -> BOOLEAN]
    BY <1>7, <1>9, <1>12, <1>13 DEF WorldType
  <1>15. /\ u \in WorldType /\ u.peer = m
         /\ u.links = y.links /\ u.socks = y.socks /\ u.calls = y.calls /\ u.run = y.run /\ u.ran = y.ran
    BY <1>7, <1>11, <1>12, <1>13, <1>14, Zenon DEF WorldType
  <1>16. (\A e \in Ends : AttOK(u.peer[e])) /\ u.peer[d].state = "connected"
    BY <1>7, <1>9, <1>10, <1>12, <1>15
  <1>17. Inv(u, {}, {})
    BY <1>4, <1>9, <1>10, <1>12, <1>15, <1>16, SamePlaces, Zenon
  <1> QED
    BY <1>6, <1>16, <1>17, FlushInv


----------------------------------------------------------------------------
(* Commands *)

\* An entry appended to a sequence.
LEMMA AppendEntry ==
    ASSUME NEW T, NEW q \in Seq(T), NEW x \in T
    PROVE  /\ Append(q, x) \in Seq(T) /\ Range(Append(q, x)) = Range(q) \cup {x} /\ Append(q, x) # <<>>
           /\ Distinct(q) /\ x \notin Range(q) => Distinct(Append(q, x))
  <1>1. PICK r : r = Append(q, x)
    BY Zenon
  <1>2. /\ r \in Seq(T) /\ Len(r) = Len(q) + 1 /\ r[Len(q) + 1] = x /\ Len(q) \in Nat
        /\ \A i \in 1 .. Len(q) : r[i] = q[i]
    BY <1>1
  <1>3. DOMAIN r = 1 .. Len(q) + 1 /\ DOMAIN q = 1 .. Len(q)
    BY <1>2
  <1>4. \A i \in DOMAIN r : (i \in DOMAIN q /\ r[i] = q[i]) \/ (i = Len(q) + 1 /\ r[i] = x)
    BY <1>2, <1>3
  <1>5. Range(r) = Range(q) \cup {x}
    <2>1. \A y \in Range(r) : y \in Range(q) \cup {x}
      BY <1>4 DEF Range
    <2>2. \A y \in Range(q) : y \in Range(r)
      BY <1>2, <1>3 DEF Range
    <2>3. x \in Range(r)
      BY <1>2, <1>3 DEF Range
    <2> QED
      BY <2>1, <2>2, <2>3
  <1>6. ASSUME Distinct(q), x \notin Range(q) PROVE Distinct(r)
    <2>1. \A i \in DOMAIN q : q[i] # x
      BY <1>6 DEF Range
    <2> QED
      BY <1>4, <1>6, <2>1 DEF Distinct
  <1>7. r # <<>>
    BY <1>2
  <1> QED
    BY <1>1, <1>2, <1>5, <1>6, <1>7

\* sendCommand begins: its caller waits and the command is in hand.
LEMMA SubmitInv ==
    ASSUME NEW w, Inv(w, {}, {}), NEW c \in Calls, w.calls[c].st = "new", NEW kind \in KindsOf[c],
           NEW v, v = [w EXCEPT !.calls[c] = [st |-> "open", kind |-> kind, acked |-> FALSE]]
    PROVE  Inv(v, {c}, {})
  <1>1. /\ w \in WorldType /\ CallOK(w, {}) /\ ToldOK(w, {}) /\ LinkOK(w)
        /\ \A e \in Ends : PeerOK(w.peer[e], e) /\ AttOK(w.peer[e])
    BY DEF Inv
  <1>2. PICK k \in CallType : k = [st |-> "open", kind |-> kind, acked |-> FALSE]
    BY MeshRpcAssumption, Zenon DEF CallType
  <1>3. PICK m : m = [w.calls EXCEPT ![c] = k]
    BY Zenon
  <1>4. w.calls \in [Calls -> CallType] /\ m \in [Calls -> CallType] /\ m[c].st = "open" /\ \A b \in Calls : b # c => m[b] = w.calls[b]
    BY <1>1, <1>2, <1>3 DEF WorldType
  <1>5. v = [w EXCEPT !.calls = m]
    BY <1>2, <1>3
  <1>6. /\ v \in WorldType /\ v.peer = w.peer /\ v.links = w.links /\ v.socks = w.socks /\ v.run = w.run
        /\ v.ran = w.ran /\ v.calls = m
    BY <1>1, <1>4, <1>5, Zenon DEF WorldType
  <1>7. \A b \in Calls : (Queued(v, b) <=> Queued(w, b)) /\ (Flying(v, b) <=> Flying(w, b))
    BY <1>6 DEF Queued, Flying
  <1>8. Fresh(w, c) /\ ~Queued(w, c) /\ ~Flying(w, c)
    BY <1>1 DEF ToldOK, CallOK
  <1>9. CallOK(v, {c})
    BY <1>1, <1>4, <1>6, <1>7, <1>8, Zenon DEF CallOK
  <1>10. Calm(w, v)
    BY <1>6 DEF Calm, Steady, Emptied
  <1>11. ToldOK(v, {c})
    <2>1. \A b \in Calls : v.calls[b].st \in Unsent \cup {"new"} \/ Queued(v, b) \/ b \in {c} => Fresh(w, b)
      <3> SUFFICES ASSUME NEW b \in Calls, b # c PROVE v.calls[b].st \in Unsent \cup {"new"} \/ Queued(v, b) => Fresh(w, b)
        BY <1>8
      <3> QED
        BY <1>1, <1>4, <1>6, <1>7, Zenon DEF ToldOK
    <2>2. \A b \in Calls : v.calls[b].st \in Answers => w.ran[b] = 1 /\ w.run[b] = "done"
      <3>1. v.calls[c].st \notin Answers
        BY <1>4, <1>6 DEF Answers
      <3>2. \A b \in Calls : w.calls[b].st \in Answers => w.ran[b] = 1 /\ w.run[b] = "done"
        BY <1>1, Zenon DEF ToldOK
      <3> QED
        BY ONLY <1>4, <1>6, <3>1, <3>2, Zenon
    <2> QED
      BY ONLY <1>1, <1>6, <1>10, <2>1, <2>2, CalmTold, Zenon
  <1>12. LinkOK(v)
    BY ONLY <1>1, <1>10, SteadyLinks DEF Calm
  <1> QED
    BY <1>1, <1>6, <1>9, <1>11, <1>12 DEF Inv

\* It is written, rejected, or put in the connect queue.
LEMMA EnqueueInv ==
    ASSUME NEW w, NEW c \in Calls, NEW d \in Ends, d = From[c], Inv(w, {c}, {}), w.peer[d].state # "none",
           NEW v, v = Enqueue(w, d, c)
    PROVE  Inv(v, {}, {})
  <1>1. /\ w \in WorldType /\ CallOK(w, {c}) /\ ToldOK(w, {c}) /\ LinkOK(w)
        /\ \A e \in Ends : PeerOK(w.peer[e], e) /\ AttOK(w.peer[e])
    BY DEF Inv
  <1>2. w.peer \in [Ends -> PeerType] /\ w.peer[d] \in PeerType
    BY <1>1 DEF WorldType
  <1>3. CASE w.peer[d].state = "connected" /\ IsOpen(w, d)
    <2>0. <<c>> \in Seq(Calls)
      OBVIOUS
    <2>1. PICK q \in Seq(Calls) : q = <<c>>
      BY <2>0, Zenon
    <2>2. Range(q) = {c} /\ Distinct(q)
      BY <2>1 DEF Range, Distinct
    <2>3. v = WriteRequests(w, d, q)
      BY <1>3, <2>1 DEF Enqueue
    <2> QED
      BY <1>3, <2>2, <2>3, WriteRequestsInv, Zenon
  <1>4. CASE ~(w.peer[d].state = "connected" /\ IsOpen(w, d)) /\ Len(w.peer[d].queue) >= MaxQueue
    <2>1. v = Settle(w, {c}, "QUEUE_OVERFLOW")
      BY <1>4 DEF Enqueue
    <2>2. "QUEUE_OVERFLOW" \in Outcomes /\ "QUEUE_OVERFLOW" \notin Answers
      BY DEF Outcomes, Unsent, Answers
    <2> QED
      BY <2>1, <2>2, SettleHand
  <1>5. CASE ~(w.peer[d].state = "connected" /\ IsOpen(w, d)) /\ ~(Len(w.peer[d].queue) >= MaxQueue)
    <2>1. PICK r \in PeerType : r = w.peer[d]
      BY <1>2
    <2>2. PICK q \in Seq(Calls) : q = r.queue
      BY DEF PeerType
    <2>3. PICK z : z = Append(q, c)
      BY Zenon
    <2>4. c \notin Range(q) /\ c \notin r.inflight
      BY <1>1, <2>1, <2>2, Zenon DEF CallOK, Queued, Flying
    <2>5. Distinct(q) /\ PeerOK(r, d) /\ AttOK(r)
      BY <1>1, <2>1, <2>2, Zenon DEF PeerOK
    <2>6. z \in Seq(Calls) /\ Range(z) = Range(q) \cup {c} /\ Distinct(z)
      BY <2>3, <2>4, <2>5, AppendEntry
    <2>7. PICK p : p = [r EXCEPT !.queue = z]
      BY Zenon
    <2>8. p \in PeerType /\ p.queue = z /\ p.att = r.att /\ p.state = r.state /\ p.inflight = r.inflight
      BY ONLY <2>6, <2>7, r \in PeerType, Zenon DEF PeerType
    <2>9. PeerOK(p, d) /\ AttOK(p)
      BY <2>1, <2>2, <2>4, <2>5, <2>6, <2>8, Zenon DEF PeerOK, AttOK
    <2>10. v = WithPeer(w, d, p)
      BY <1>5, <2>1, <2>2, <2>3, <2>7 DEF Enqueue, WithPeer
    <2>11. /\ v \in WorldType /\ v.peer = [w.peer EXCEPT ![d] = p]
           /\ v.links = w.links /\ v.socks = w.socks /\ v.calls = w.calls /\ v.run = w.run /\ v.ran = w.ran
      BY ONLY <1>1, <2>8, <2>10, d \in Ends, PeerReplaced
    <2>12. \A b \in Calls : (Queued(v, b) <=> Queued(w, b) \/ b = c) /\ (Flying(v, b) <=> Flying(w, b))
      <3> SUFFICES ASSUME NEW b \in Calls
                   PROVE  (Queued(v, b) <=> Queued(w, b) \/ b = c) /\ (Flying(v, b) <=> Flying(w, b))
        OBVIOUS
      <3>1. CASE From[b] = d
        BY <1>2, <2>1, <2>2, <2>6, <2>8, <2>11, <3>1, Zenon DEF Queued, Flying
      <3>2. CASE From[b] # d
        <4>1. From[b] \in Ends /\ v.peer[From[b]] = w.peer[From[b]]
          BY <1>2, <2>11, <3>2, MeshRpcAssumption
        <4> QED
          BY <4>1, <3>2 DEF Queued, Flying
      <3> QED
        BY <3>1, <3>2
    <2>13. CallOK(v, {})
      BY <1>1, <2>11, <2>12, Zenon DEF CallOK
    <2>14. Calm(w, v)
      BY <2>11, Zenon DEF Calm, Steady, Emptied
    <2>15. ToldOK(v, {})
      <3>1. \A b \in Calls : v.calls[b].st \in Unsent \cup {"new"} \/ Queued(v, b) \/ b \in {} => Fresh(w, b)
        BY <1>1, <2>11, <2>12, Zenon DEF ToldOK
      <3>2. \A b \in Calls : v.calls[b].st \in Answers => w.ran[b] = 1 /\ w.run[b] = "done"
        BY <1>1, <2>11, Zenon DEF ToldOK
      <3> QED
        BY ONLY <1>1, <2>11, <2>14, <3>1, <3>2, CalmTold
    <2>16. LinkOK(v)
      BY ONLY <1>1, <2>14, SteadyLinks DEF Calm
    <2>17. \A e \in Ends : PeerOK(v.peer[e], e) /\ AttOK(v.peer[e])
      BY <1>1, <1>2, <2>9, <2>11, Zenon
    <2> QED
      BY <2>11, <2>13, <2>15, <2>16, <2>17, Zenon DEF Inv
  <1> QED
    BY <1>3, <1>4, <1>5


\* What a peer entry remembers of acknowledgements and timeouts is not where its commands are.
LEMMA TouchInv ==
    ASSUME NEW w, Inv(w, {}, {}), NEW d \in Ends, NEW p \in PeerType, p.state = w.peer[d].state,
           p.queue = w.peer[d].queue, p.inflight = w.peer[d].inflight, p.att = w.peer[d].att,
           NEW v \in WorldType, v.peer = [w.peer EXCEPT ![d] = p],
           v.links = w.links, v.socks = w.socks, v.run = w.run, v.ran = w.ran,
           \A c \in Calls : v.calls[c].st = w.calls[c].st
    PROVE  Inv(v, {}, {})
  <1>1. w.peer \in [Ends -> PeerType] /\ \A e \in Ends : PeerOK(w.peer[e], e) /\ AttOK(w.peer[e])
    BY DEF Inv, WorldType
  <1>2. PeerOK(p, d) /\ AttOK(p)
    BY <1>1, Zenon DEF PeerOK, AttOK
  <1>3. \A e \in Ends : AttOK(v.peer[e])
    BY <1>1, <1>2, Zenon
  <1> QED
    BY <1>2, <1>3, SamePlaces, Zenon

\* noteRequestTimeout: the count, or the end of the peer.
LEMMA NoteInv ==
    ASSUME NEW w, Inv(w, {}, {}), NEW d \in Ends, NEW v \in NoteRequestTimeout(w, d)
    PROVE  Inv(v, {}, {})
  <1>1. w \in WorldType /\ w.peer[d] \in PeerType
    BY DEF Inv, WorldType
  <1>2. PICK r \in PeerType : r = w.peer[d]
    BY <1>1
  <1>3. ASSUME NEW n \in Nat, v = [w EXCEPT !.peer[d].timeouts = n] PROVE Inv(v, {}, {})
    <2>1. PICK p : p = [r EXCEPT !.timeouts = n]
      BY Zenon
    <2>2. p \in PeerType /\ p.queue = r.queue /\ p.att = r.att /\ p.state = r.state /\ p.inflight = r.inflight
      BY ONLY <2>1, r \in PeerType, n \in Nat DEF PeerType
    <2>3. v = WithPeer(w, d, p)
      BY <1>2, <1>3, <2>1 DEF WithPeer
    <2>4. /\ v \in WorldType /\ v.peer = [w.peer EXCEPT ![d] = p]
          /\ v.links = w.links /\ v.socks = w.socks /\ v.calls = w.calls /\ v.run = w.run /\ v.ran = w.ran
      BY ONLY <1>1, <2>2, <2>3, d \in Ends, PeerReplaced
    <2> QED
      BY <1>2, <2>2, <2>4, TouchInv
  <1>4. ASSUME v = FailPeer(w, d, "PEER_UNRESPONSIVE") PROVE Inv(v, {}, {})
    <2>1. "PEER_UNRESPONSIVE" \in Outcomes /\ "PEER_UNRESPONSIVE" \notin Unsent /\ "PEER_UNRESPONSIVE" \notin Answers
      BY DEF Outcomes, Unsent, Answers
    <2> QED
      BY <1>4, <2>1, FailPeerInv
  <1>5. PICK n \in Nat : n = r.timeouts
    BY DEF PeerType
  <1>6. \/ v = [w EXCEPT !.peer[d].timeouts = n + 1]
        \/ v = FailPeer(w, d, "PEER_UNRESPONSIVE")
        \/ v = [w EXCEPT !.peer[d].timeouts = 0]
    BY <1>2, <1>5 DEF NoteRequestTimeout
  <1>7. n + 1 \in Nat
    OBVIOUS
  <1> QED
    BY <1>3, <1>4, <1>6, <1>7

\* A command runs at its receiver, or ends there.
LEMMA RunInv ==
    ASSUME NEW w, Inv(w, {}, {}), NEW c \in Calls, NEW how \in {"running", "done"}, NEW v \in WorldType,
           v.peer = w.peer, v.links = w.links, v.socks = w.socks, v.calls = w.calls,
           v.run[c] = how, v.ran[c] = 1, \A b \in Calls : b # c => v.run[b] = w.run[b] /\ v.ran[b] = w.ran[b],
           \/ w.ran[c] = 1 /\ how = "done"
           \/ Fresh(w, c) /\ ~Queued(w, c) /\ w.calls[c].st \notin Unsent \cup {"new"}
    PROVE  Inv(v, {}, {})
  <1>1. /\ w \in WorldType /\ CallOK(w, {}) /\ ToldOK(w, {}) /\ LinkOK(w)
        /\ \A e \in Ends : PeerOK(w.peer[e], e) /\ AttOK(w.peer[e])
    BY Zenon DEF Inv
  <1>2. v.run[c] = how /\ v.ran[c] = 1 /\ \A b \in Calls : b # c => v.run[b] = w.run[b] /\ v.ran[b] = w.ran[b]
    BY Zenon
  <1>3. \A b \in Calls : (Queued(v, b) <=> Queued(w, b)) /\ (Flying(v, b) <=> Flying(w, b))
    BY DEF Queued, Flying
  <1>4. \A s, e, i, k, b : FrameAt(v, s, e, i, k, b) <=> FrameAt(w, s, e, i, k, b)
    BY Zenon DEF FrameAt
  <1>5. \A b \in Calls : b # c => (Fresh(v, b) <=> Fresh(w, b))
    BY <1>2, <1>4, Zenon DEF Fresh
  <1>6. CallOK(v, {})
    BY <1>1, <1>3, Zenon DEF CallOK
  <1>7. LinkOK(v)
    <2>1. Steady(w, v)
      BY Zenon DEF Steady
    <2> QED
      BY ONLY <1>1, <2>1, SteadyLinks
  <1>8. ToldOK(v, {})
    <2> SUFFICES ASSUME NEW b \in Calls
        PROVE  /\ v.calls[b].st \in Unsent \cup {"new"} \/ Queued(v, b) \/ b \in {} => Fresh(v, b)
               /\ v.calls[b].st \in Answers => v.ran[b] = 1 /\ v.run[b] = "done"
               /\ v.ran[b] <= 1 /\ (v.run[b] = "no" <=> v.ran[b] = 0)
               /\ \A s, t \in Sockets, e, f \in Ends : \A i, j \in Nat :
                    FrameAt(v, s, e, i, "req", b) =>
                        v.ran[b] = 0 /\ (FrameAt(v, t, f, j, "req", b) => s = t /\ e = f /\ i = j)
               /\ \A s \in Sockets, e \in Ends : \A i \in Nat : \A ans \in Answers :
                    FrameAt(v, s, e, i, ans, b) => v.ran[b] = 1 /\ v.run[b] = "done"
      BY Zenon DEF ToldOK
    <2>1. CASE b # c
      <3>1. /\ v.run[b] = w.run[b] /\ v.ran[b] = w.ran[b] /\ v.calls[b] = w.calls[b]
            /\ (Queued(v, b) <=> Queued(w, b)) /\ (Fresh(v, b) <=> Fresh(w, b))
        BY <1>2, <1>3, <1>5, <2>1, Zenon
      <3>2. /\ w.calls[b].st \in Unsent \cup {"new"} \/ Queued(w, b) \/ b \in {} => Fresh(w, b)
            /\ w.calls[b].st \in Answers => w.ran[b] = 1 /\ w.run[b] = "done"
            /\ w.ran[b] <= 1 /\ (w.run[b] = "no" <=> w.ran[b] = 0)
            /\ \A s, t \in Sockets, e, f \in Ends : \A i, j \in Nat :
                 FrameAt(w, s, e, i, "req", b) =>
                     w.ran[b] = 0 /\ (FrameAt(w, t, f, j, "req", b) => s = t /\ e = f /\ i = j)
            /\ \A s \in Sockets, e \in Ends : \A i \in Nat : \A ans \in Answers :
                 FrameAt(w, s, e, i, ans, b) => w.ran[b] = 1 /\ w.run[b] = "done"
        BY <1>1, Zenon DEF ToldOK
      <3> QED
        BY ONLY <1>4, <3>1, <3>2, b \in Calls
    <2>2. CASE b = c
      <3>1. /\ w.calls[c].st \in Unsent \cup {"new"} \/ Queued(w, c) => Fresh(w, c)
            /\ w.calls[c].st \in Answers => w.ran[c] = 1 /\ w.run[c] = "done"
            /\ \A s \in Sockets, e \in Ends : \A i \in Nat :
                 /\ FrameAt(w, s, e, i, "req", c) => w.ran[c] = 0
                 /\ \A ans \in Answers : FrameAt(w, s, e, i, ans, c) => w.ran[c] = 1
        BY <1>1, Zenon DEF ToldOK
      <3>2. Fresh(w, c) => w.ran[c] = 0 /\ \A s \in Sockets, e \in Ends : \A i \in Nat : ~FrameAt(w, s, e, i, "req", c)
        BY Zenon DEF Fresh
      <3>3. w.ran[c] = 1 => w.ran[c] # 0
        BY ONLY c \in Calls
      <3>4. \/ w.ran[c] = 1 /\ how = "done"
            \/ Fresh(w, c) /\ ~Queued(w, c) /\ w.calls[c].st \notin Unsent \cup {"new"}
        OBVIOUS
      <3>5. v.calls[c].st \notin Unsent \cup {"new"} /\ ~Queued(v, c)
        BY ONLY <1>3, <3>1, <3>2, <3>3, <3>4, v.calls = w.calls, c \in Calls, Zenon
      <3>6. v.calls[c].st \in Answers => how = "done"
        BY ONLY <3>1, <3>2, <3>3, <3>4, v.calls = w.calls, Zenon
      <3>7. ASSUME NEW s \in Sockets, NEW e \in Ends, NEW i \in Nat
            PROVE  ~FrameAt(v, s, e, i, "req", c) /\ (\A ans \in Answers : FrameAt(v, s, e, i, ans, c) => how = "done")
        BY ONLY <1>4, <3>1, <3>2, <3>3, <3>4, <3>7, Zenon
      <3>8. v.ran[c] <= 1 /\ (v.run[c] = "no" <=> v.ran[c] = 0)
        BY ONLY <1>2, how \in {"running", "done"}
      <3> QED
        BY ONLY <1>2, <2>2, <3>5, <3>6, <3>7, <3>8, Zenon
    <2> QED
      BY <2>1, <2>2, Zenon
  <1> QED
    BY <1>1, <1>6, <1>7, <1>8, Zenon DEF Inv


----------------------------------------------------------------------------
(* Frames *)

Popped(w, s, d) == [w EXCEPT !.socks[s].chan[d] = Tail(@)]
Foremost(w, s, d, f) == w.socks[s].chan[d] # <<>> /\ f = Head(w.socks[s].chan[d])

\* A frame is read: the others move up, and it was the only request of its command, or the command has ended.
LEMMA HeadRead ==
    ASSUME NEW w, Inv(w, {}, {}), NEW s \in Sockets, NEW d \in Ends, NEW f, Foremost(w, s, d, f),
           NEW v, v = Popped(w, s, d)
    PROVE  /\ Inv(v, {}, {}) /\ f \in Frames
           /\ f.k = "req" => Fresh(v, f.c) /\ ~Queued(v, f.c) /\ v.calls[f.c].st \notin Unsent \cup {"new"}
           /\ f.k \in Answers => v.ran[f.c] = 1 /\ v.run[f.c] = "done"
  <1>1. /\ w \in WorldType /\ CallOK(w, {}) /\ ToldOK(w, {}) /\ LinkOK(w)
        /\ \A e \in Ends : PeerOK(w.peer[e], e) /\ AttOK(w.peer[e])
    BY DEF Inv
  <1>2. w.socks \in [Sockets -> SockType]
    BY <1>1, Zenon DEF WorldType
  <1>3. PICK k \in SockType : k = w.socks[s]
    BY <1>2
  <1>4. k.chan \in [Ends -> Seq(Frames)]
    BY DEF SockType
  <1>5. PICK q \in Seq(Frames) : q = k.chan[d]
    BY <1>4
  <1>6. PICK z : z = Tail(q)
    BY Zenon
  <1>7. /\ q # <<>> /\ f = q[1] /\ f \in Frames /\ 1 \in DOMAIN q /\ z \in Seq(Frames)
        /\ \A i \in DOMAIN z : i \in Nat /\ i + 1 # 1 /\ i + 1 \in DOMAIN q /\ z[i] = q[i + 1]
    <2>1. q # <<>> /\ f = Head(q)
      BY <1>3, <1>5, Zenon DEF Foremost
    <2> QED
      BY ONLY <1>6, <2>1, q \in Seq(Frames)
  <1>8. PICK m : m = [k.chan EXCEPT ![d] = z]
    BY Zenon
  <1>9. m \in [Ends -> Seq(Frames)] /\ m[d] = z /\ \A e \in Ends : e # d => m[e] = k.chan[e]
    BY ONLY <1>4, <1>7, <1>8, d \in Ends
  <1>10. PICK h : h = [k EXCEPT !.chan = m]
    BY Zenon
  <1>11. h \in SockType /\ h.link = k.link /\ h.rs = k.rs /\ h.chan = m
    BY ONLY <1>9, <1>10, k \in SockType, Zenon DEF SockType
  <1>12. PICK g : g = [w.socks EXCEPT ![s] = h]
    BY Zenon
  <1>13. g \in [Sockets -> SockType] /\ g[s] = h /\ \A t \in Sockets : t # s => g[t] = w.socks[t]
    BY <1>2, <1>11, <1>12
  <1>14. v = [w EXCEPT !.socks = g]
    BY <1>3, <1>5, <1>6, <1>8, <1>10, <1>12 DEF Popped
  <1>15. /\ v \in WorldType /\ v.socks = g /\ v.peer = w.peer /\ v.links = w.links /\ v.calls = w.calls
         /\ v.run = w.run /\ v.ran = w.ran
    BY ONLY <1>1, <1>13, <1>14 DEF WorldType
  <1>16. Steady(w, v)
    <2> SUFFICES ASSUME NEW t \in Sockets PROVE g[t].link = w.socks[t].link /\ g[t].rs = w.socks[t].rs
      BY <1>15 DEF Steady
    <2> QED
      BY <1>3, <1>11, <1>13
  <1>17. ASSUME NEW t \in Sockets, NEW e \in Ends, NEW i \in Nat, NEW kk, NEW c, FrameAt(v, t, e, i, kk, c)
         PROVE  IF t = s /\ e = d THEN i + 1 # 1 /\ i + 1 \in Nat /\ FrameAt(w, s, d, i + 1, kk, c)
                ELSE FrameAt(w, t, e, i, kk, c)
    <2>1. CASE t = s /\ e = d
      <3>1. v.socks[t].chan[e] = z /\ w.socks[s].chan[d] = q
        BY ONLY <1>3, <1>5, <1>9, <1>11, <1>13, <1>15, <2>1
      <3> QED
        BY <1>7, <1>17, <2>1, <3>1 DEF FrameAt
    <2>2. CASE ~(t = s /\ e = d)
      <3>1. v.socks[t].chan[e] = w.socks[t].chan[e]
        BY ONLY <1>3, <1>9, <1>11, <1>13, <1>15, <2>2, t \in Sockets, e \in Ends
      <3> QED
        BY <1>17, <2>2, <3>1, Zenon DEF FrameAt
    <2> QED
      BY <2>1, <2>2, Zenon
  <1>18. \A t \in Sockets, e \in Ends : \A i \in Nat : \A kk, c : FrameAt(v, t, e, i, kk, c) =>
            \E j \in Nat : FrameAt(w, t, e, j, kk, c)
    BY <1>17
  <1>19. PICK c \in Calls : c = f.c
    BY <1>7 DEF Frames
  <1>20. FrameAt(w, s, d, 1, f.k, c)
    <2>1. f = [k |-> f.k, c |-> f.c]
      BY <1>7 DEF Frames
    <2> QED
      BY <1>3, <1>5, <1>7, <1>19, <2>1, Zenon DEF FrameAt
  <1>21. ASSUME NEW b \in Calls, Fresh(w, b) PROVE Fresh(v, b)
    BY <1>15, <1>18, <1>21 DEF Fresh
  <1>22. \A b \in Calls : (Queued(v, b) <=> Queued(w, b)) /\ (Flying(v, b) <=> Flying(w, b))
    BY <1>15 DEF Queued, Flying
  <1>27. \A b \in Calls : \A t, u \in Sockets, e, a \in Ends : \A i, j \in Nat :
            FrameAt(w, t, e, i, "req", b) /\ FrameAt(w, u, a, j, "req", b) => t = u /\ e = a /\ i = j
    <2>1. ASSUME NEW b \in Calls, NEW t \in Sockets, NEW u \in Sockets, NEW e \in Ends, NEW a \in Ends, NEW i \in Nat,
                 NEW j \in Nat, FrameAt(w, t, e, i, "req", b), FrameAt(w, u, a, j, "req", b)
          PROVE  t = u /\ e = a /\ i = j
      <3>1. \A s1, t1 \in Sockets, e1, f1 \in Ends : \A i1, j1 \in Nat :
              FrameAt(w, s1, e1, i1, "req", b) =>
                  w.ran[b] = 0 /\ (FrameAt(w, t1, f1, j1, "req", b) => s1 = t1 /\ e1 = f1 /\ i1 = j1)
        BY <1>1, Zenon DEF ToldOK
      <3> QED
        BY <2>1, <3>1, Zenon
    <2> QED
      BY <2>1, Zenon
  <1>23. ToldOK(v, {})
    <2> SUFFICES ASSUME NEW b \in Calls
        PROVE  /\ v.calls[b].st \in Unsent \cup {"new"} \/ Queued(v, b) \/ b \in {} => Fresh(v, b)
               /\ v.calls[b].st \in Answers => v.ran[b] = 1 /\ v.run[b] = "done"
               /\ v.ran[b] <= 1 /\ (v.run[b] = "no" <=> v.ran[b] = 0)
               /\ \A t, u \in Sockets, e, a \in Ends : \A i, j \in Nat :
                    FrameAt(v, t, e, i, "req", b) =>
                        v.ran[b] = 0 /\ (FrameAt(v, u, a, j, "req", b) => t = u /\ e = a /\ i = j)
               /\ \A t \in Sockets, e \in Ends : \A i \in Nat : \A ans \in Answers :
                    FrameAt(v, t, e, i, ans, b) => v.ran[b] = 1 /\ v.run[b] = "done"
      BY Zenon DEF ToldOK
    <2>1. /\ v.calls[b].st \in Unsent \cup {"new"} \/ Queued(v, b) \/ b \in {} => Fresh(v, b)
          /\ v.calls[b].st \in Answers => v.ran[b] = 1 /\ v.run[b] = "done"
          /\ v.ran[b] <= 1 /\ (v.run[b] = "no" <=> v.ran[b] = 0)
      BY <1>1, <1>15, <1>21, <1>22, Zenon DEF ToldOK
    <2>2. ASSUME NEW t \in Sockets, NEW e \in Ends, NEW i \in Nat, NEW ans \in Answers, FrameAt(v, t, e, i, ans, b)
          PROVE  v.ran[b] = 1 /\ v.run[b] = "done"
      <3>1. PICK x \in Nat : FrameAt(w, t, e, x, ans, b)
        BY <1>18, <2>2
      <3>2. \A r \in Sockets, a \in Ends : \A j \in Nat : FrameAt(w, r, a, j, ans, b) => w.ran[b] = 1 /\ w.run[b] = "done"
        BY <1>1, Zenon DEF ToldOK
      <3> QED
        BY <1>15, <3>1, <3>2, Zenon
    <2>3. ASSUME NEW t \in Sockets, NEW u \in Sockets, NEW e \in Ends, NEW a \in Ends, NEW i \in Nat, NEW j \in Nat,
                 FrameAt(v, t, e, i, "req", b)
          PROVE  v.ran[b] = 0 /\ (FrameAt(v, u, a, j, "req", b) => t = u /\ e = a /\ i = j)
      <3>1. PICK x \in Nat : FrameAt(w, t, e, x, "req", b) /\ x = IF t = s /\ e = d THEN i + 1 ELSE i
        BY <1>17, <2>3
      <3>2. v.ran[b] = 0
        BY <1>1, <1>15, <3>1, Zenon DEF ToldOK
      <3>3. ASSUME FrameAt(v, u, a, j, "req", b) PROVE t = u /\ e = a /\ i = j
        <4>1. PICK y \in Nat : FrameAt(w, u, a, y, "req", b) /\ y = IF u = s /\ a = d THEN j + 1 ELSE j
          BY <1>17, <3>3
        <4>2. t = u /\ e = a /\ x = y
          <5>1. FrameAt(w, t, e, x, "req", b) /\ FrameAt(w, u, a, y, "req", b) /\ x \in Nat /\ y \in Nat
            BY ONLY <3>1, <4>1, x \in Nat, y \in Nat
          <5>2. \A i1, j1 \in Nat :
                  FrameAt(w, t, e, i1, "req", b) /\ FrameAt(w, u, a, j1, "req", b) => t = u /\ e = a /\ i1 = j1
            BY ONLY <1>27, b \in Calls, t \in Sockets, u \in Sockets, e \in Ends, a \in Ends, Zenon
          <5> QED
            BY ONLY <5>1, <5>2, Zenon
        <4> QED
          BY <3>1, <4>1, <4>2
      <3> QED
        BY <3>2, <3>3, Zenon
    <2> QED
      BY <2>1, <2>2, <2>3, Zenon
  <1>24. Inv(v, {}, {})
    <2>1. CallOK(v, {})
      BY <1>1, <1>15, <1>22, Zenon DEF CallOK
    <2>2. LinkOK(v)
      BY ONLY <1>1, <1>16, SteadyLinks
    <2> QED
      BY <1>1, <1>15, <1>23, <2>1, <2>2, Zenon DEF Inv
  <1>25. ASSUME f.k = "req" PROVE Fresh(v, c) /\ ~Queued(v, c) /\ v.calls[c].st \notin Unsent \cup {"new"}
    <2>1. FrameAt(w, s, d, 1, "req", c) /\ 1 \in Nat
      BY <1>20, <1>25
    <2>2. w.ran[c] = 0 /\ ~Fresh(w, c)
      BY <1>1, <2>1, Zenon DEF ToldOK, Fresh
    <2>3. ASSUME NEW t \in Sockets, NEW e \in Ends, NEW i \in Nat, FrameAt(v, t, e, i, "req", c) PROVE FALSE
      <3>1. PICK x \in Nat : FrameAt(w, t, e, x, "req", c) /\ (IF t = s /\ e = d THEN x # 1 ELSE TRUE)
        BY <1>17, <2>3
      <3>2. t = s /\ e = d /\ x = 1
        BY <1>27, <2>1, <3>1, Zenon
      <3> QED
        BY <3>1, <3>2, Zenon
    <2>4. Fresh(v, c)
      BY <1>15, <2>2, <2>3, Zenon DEF Fresh
    <2>5. ~Queued(w, c) /\ w.calls[c].st \notin Unsent \cup {"new"}
      BY <1>1, <2>2, Zenon DEF ToldOK
    <2> QED
      BY <1>15, <1>22, <2>4, <2>5
  <1>26. ASSUME f.k \in Answers PROVE v.ran[c] = 1 /\ v.run[c] = "done"
    BY <1>1, <1>15, <1>20, <1>26, Zenon DEF ToldOK
  <1> QED
    BY <1>7, <1>19, <1>24, <1>25, <1>26, Zenon


\* A sign of life clears the count of timeouts.
LEMMA ProvedInv ==
    ASSUME NEW w, Inv(w, {}, {}), NEW d \in Ends, NEW v, v = Proved(w, d)
    PROVE  /\ Inv(v, {}, {}) /\ v.peer[d].inflight = w.peer[d].inflight
           /\ v.calls = w.calls /\ v.run = w.run /\ v.ran = w.ran
  <1>1. w \in WorldType /\ w.peer[d] \in PeerType /\ w.peer \in [Ends -> PeerType]
    BY DEF Inv, WorldType
  <1>2. PICK r \in PeerType : r = w.peer[d]
    BY <1>1
  <1>3. PICK p : p = [r EXCEPT !.timeouts = 0, !.proved = TRUE]
    OBVIOUS
  <1>4. p \in PeerType /\ p.queue = r.queue /\ p.att = r.att /\ p.state = r.state /\ p.inflight = r.inflight
    BY ONLY <1>3, r \in PeerType, Zenon DEF PeerType
  <1>5. v = WithPeer(w, d, p)
    BY <1>1, <1>2, <1>3, Zenon DEF Proved, WithPeer, WorldType, PeerType
  <1>6. /\ v \in WorldType /\ v.peer = [w.peer EXCEPT ![d] = p]
        /\ v.links = w.links /\ v.socks = w.socks /\ v.calls = w.calls /\ v.run = w.run /\ v.ran = w.ran
    BY ONLY <1>1, <1>4, <1>5, d \in Ends, PeerReplaced
  <1>7. Inv(v, {}, {})
    BY <1>2, <1>4, <1>6, TouchInv
  <1>8. v.peer[d] = p
    BY ONLY <1>1, <1>6, d \in Ends
  <1> QED
    BY <1>2, <1>4, <1>6, <1>7, <1>8, Zenon
=============================================================================
