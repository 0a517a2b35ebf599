--------------------------- MODULE MeshRpcWorlds ---------------------------
(***************************************************************************)
(* The owners of commands, the truth of what callers are told, and the     *)
(* links of the mesh transport, for any number of commands, links and      *)
(* sockets, any bounds and any number of faults.                           *)
(*                                                                         *)
(* The handlers are compositions of functions from worlds to worlds, so    *)
(* the invariants are stated of a world and there is a lemma for each      *)
(* function; between two functions of a handler some commands are in       *)
(* hand: their caller waits and they have no place.                        *)
(***************************************************************************)
EXTENDS MeshRpc, FiniteSetTheorems, TLAPS

PeerType ==
    [ state : {"none", "connecting", "connected"}, queue : Seq(Calls), inflight : SUBSET Calls,
      att : Seq(Sockets), supportsAck : BOOLEAN, timeouts : Nat, proved : BOOLEAN ]
LinkType == [ws : Sockets \cup {NoSocket}, due : {"no", "now", "redial"}, stopped : BOOLEAN]
Frames == [k : {"req", "ack"} \cup Answers, c : Calls]
SockType ==
    [ link : Links \cup {NoLink}, rs : [Ends -> {"none", "connecting", "open", "closing", "closed"}],
      chan : [Ends -> Seq(Frames)], dead : BOOLEAN ]
Outcomes ==
    Unsent \cup Answers \cup {"MANAGER_SHUTDOWN", "ACK_TIMEOUT", "REQUEST_TIMEOUT", "PEER_UNRESPONSIVE",
                 "PEER_REPLACED", "DATACHANNEL_CLOSED", "LINK_REMOVED", "PEER_DISCONNECTED"}
CallType == [st : {"new", "open"} \cup Outcomes, kind : {"plain", "poll", "big"}, acked : BOOLEAN]
WorldType ==
    [ peer : [Ends -> PeerType], dropped : [Ends -> BOOLEAN], links : [Links -> LinkType],
      socks : [Sockets -> SockType], calls : [Calls -> CallType],
      run : [Calls -> {"no", "running", "orphaned", "done"}], ran : [Calls -> 0 .. 2] ]

----------------------------------------------------------------------------
(* The invariants of a world *)

Queued(w, c) == c \in Range(w.peer[From[c]].queue)
Flying(w, c) == c \in w.peer[From[c]].inflight

Distinct(q) == \A i, j \in DOMAIN q : q[i] = q[j] => i = j

\* A peer entry holds commands of its own end, each once, and an entry without sockets has none in flight.
PeerOK(p, d) ==
    /\ \A c \in Range(p.queue) \cup p.inflight : From[c] = d
    /\ Distinct(p.queue)
    /\ Range(p.queue) \cap p.inflight = {}
    /\ p.state = "none" => p.queue = <<>> /\ p.inflight = {} /\ p.att = <<>>
    /\ p.inflight # {} => p.state = "connected"

AttOK(p) == p.state = "connected" <=> p.att # <<>>

\* The commands whose caller waits have a place, save those in hand.
CallOK(w, hand) ==
    \A c \in Calls :
        IF c \in hand THEN w.calls[c].st = "open" /\ ~Queued(w, c) /\ ~Flying(w, c)
        ELSE w.calls[c].st = "open" <=> Queued(w, c) \/ Flying(w, c)

FrameAt(w, s, e, i, k, c) == i \in DOMAIN w.socks[s].chan[e] /\ w.socks[s].chan[e][i] = [k |-> k, c |-> c]

\* Nothing of the command has left its end.
Fresh(w, c) == w.ran[c] = 0 /\ \A s \in Sockets, e \in Ends : \A i \in Nat : ~FrameAt(w, s, e, i, "req", c)

\* A request is under way at most once and before it is begun, a response after its command has ended.
ToldOK(w, hand) ==
    \A c \in Calls :
        /\ w.calls[c].st \in Unsent \cup {"new"} \/ Queued(w, c) \/ c \in hand => Fresh(w, c)
        /\ w.calls[c].st \in Answers => w.ran[c] = 1 /\ w.run[c] = "done"
        /\ w.ran[c] <= 1 /\ (w.run[c] = "no" <=> w.ran[c] = 0)
        /\ \A s, t \in Sockets, e, f \in Ends : \A i, j \in Nat :
             FrameAt(w, s, e, i, "req", c) =>
                 w.ran[c] = 0 /\ (FrameAt(w, t, f, j, "req", c) => s = t /\ e = f /\ i = j)
        /\ \A s \in Sockets, e \in Ends : \A i \in Nat : \A ans \in Answers :
             FrameAt(w, s, e, i, ans, c) => w.ran[c] = 1 /\ w.run[c] = "done"

\* A link that was not removed has a dial due, or a socket whose end it will be told of.
LinkOK(w) ==
    /\ \A l \in Links :
         ~w.links[l].stopped =>
            IF w.links[l].due # "no" THEN w.links[l].ws = NoSocket
            ELSE /\ w.links[l].ws # NoSocket /\ w.socks[w.links[l].ws].link = l
                 /\ w.socks[w.links[l].ws].rs[Dialler[l]] \in {"connecting", "open", "closing"}
    /\ \A s \in Sockets : w.socks[s].link = NoLink => \A e \in Ends : w.socks[s].rs[e] = "none"

\* The invariant with some commands in hand, save what the entries of some ends say of their sockets.
Inv(w, hand, loose) ==
    /\ w \in WorldType
    /\ \A d \in Ends : PeerOK(w.peer[d], d) /\ (d \notin loose => AttOK(w.peer[d]))
    /\ CallOK(w, hand) /\ ToldOK(w, hand) /\ LinkOK(w)

----------------------------------------------------------------------------
(* Sequences and ends *)

\* What Keep keeps: the entries at the places of the set, each place once.
LEMMA KeepPlaces ==
    ASSUME NEW T, NEW q \in Seq(T), NEW S \in SUBSET DOMAIN q
    PROVE  /\ Keep(q, S) \in Seq(T)
           /\ Range(Keep(q, S)) = {q[i] : i \in S}
           /\ Keep(q, S) = <<>> <=> S = {}
           /\ Distinct(q) => Distinct(Keep(q, S))
  <1> DEFINE Rank(i) == Cardinality({j \in S : j <= i})
             At(n) == CHOOSE i \in S : Rank(i) = n
             N == Cardinality(S)
  <1>1. DOMAIN q = 1 .. Len(q) /\ Len(q) \in Nat /\ S \in SUBSET Nat /\ \A i \in S : i <= Len(q)
    OBVIOUS
  <1>2. IsFiniteSet(S) /\ N \in Nat
    BY <1>1, FS_BoundedSetOfNaturals, FS_CardinalityType, Zenon
  <1>3. \A i \in S : Rank(i) \in 1 .. N
    <2> SUFFICES ASSUME NEW i \in S PROVE Rank(i) \in 1 .. N
      OBVIOUS
    <2> DEFINE R == {j \in S : j <= i}
    <2>1. R \in SUBSET S /\ {i} \in SUBSET R
      BY <1>1
    <2>2. IsFiniteSet(R) /\ Cardinality(R) <= N /\ Cardinality(R) \in Nat
      BY <1>2, <2>1, FS_Subset, FS_CardinalityType
    <2>3. Cardinality({i}) <= Cardinality(R) /\ Cardinality({i}) = 1
      BY <2>1, <2>2, FS_Subset, FS_Singleton, Zenon
    <2> QED
      BY <1>2, <2>2, <2>3
  <1>4. \A i, k \in S : i < k => Rank(i) < Rank(k)
    <2> SUFFICES ASSUME NEW i \in S, NEW k \in S, i < k PROVE Rank(i) < Rank(k)
      OBVIOUS
    <2> DEFINE R == {j \in S : j <= i}
               Q == {j \in S : j <= k}
    <2>1. Q \in SUBSET S /\ R \in SUBSET (Q \ {k}) /\ k \in Q
      BY <1>1
    <2>2. IsFiniteSet(Q) /\ Cardinality(Q) \in Nat
      BY <1>2, <2>1, FS_Subset, FS_CardinalityType
    <2>3. IsFiniteSet(Q \ {k}) /\ Cardinality(Q \ {k}) = Cardinality(Q) - 1
      BY <2>1, <2>2, FS_RemoveElement, Zenon
    <2>4. Cardinality(R) <= Cardinality(Q \ {k}) /\ Cardinality(R) \in Nat
      BY <2>1, <2>3, FS_Subset, FS_CardinalityType
    <2> QED
      BY <2>2, <2>3, <2>4
  <1>5. \A i, k \in S : Rank(i) = Rank(k) => i = k
    <2> HIDE DEF Rank
    <2> QED
      BY <1>1, <1>3, <1>4
  <1>6. \A n \in 1 .. N : \E i \in S : Rank(i) = n
    <2> DEFINE f == [i \in S |-> Rank(i)]
    <2>1. f \in [S -> 1 .. N] /\ \A i, k \in S : f[i] = f[k] => i = k
      <3> HIDE DEF Rank
      <3> QED
        BY <1>3, <1>5
    <2>2. f \in Injection(S, 1 .. N)
      BY <2>1, Zenon DEF Injection, IsInjective
    <2>3. IsFiniteSet(1 .. N) /\ Cardinality(1 .. N) = N
      <3>1. 1 \in Int /\ N \in Int
        BY <1>2
      <3>2. IsFiniteSet(1 .. N) /\ Cardinality(1 .. N) = IF 1 > N THEN 0 ELSE N - 1 + 1
        BY <3>1, FS_Interval
      <3> QED
        BY <1>2, <3>2
    <2>4. f \in Surjection(S, 1 .. N)
      BY <2>2, <2>3, FS_Injection
    <2> QED
      BY <2>4, Zenon DEF Surjection
  <1>7. \A n \in 1 .. N : At(n) \in S /\ Rank(At(n)) = n
    BY <1>6, Zenon
  <1>8. \A i \in S : At(Rank(i)) = i
    <2> HIDE DEF Rank
    <2> QED
      BY <1>3, <1>5, <1>7
  <1>9. Keep(q, S) = [n \in 1 .. N |-> q[At(n)]]
    BY DEF Keep
  <1> HIDE DEF At, Rank, N
  <1>10. Keep(q, S) \in Seq(T) /\ DOMAIN Keep(q, S) = 1 .. N
    BY <1>1, <1>2, <1>7, <1>9
  <1>11. Range(Keep(q, S)) = {q[i] : i \in S}
    <2>1. Range(Keep(q, S)) = {Keep(q, S)[n] : n \in 1 .. N}
      BY <1>10 DEF Range
    <2>2. \A n \in 1 .. N : Keep(q, S)[n] = q[At(n)]
      BY <1>9
    <2> QED
      BY <1>3, <1>7, <1>8, <2>1, <2>2
  <1>12. Keep(q, S) = <<>> <=> S = {}
    <2>1. N = 0 <=> S = {}
      BY <1>2, FS_EmptySet DEF N
    <2>2. Keep(q, S) = <<>> <=> N = 0
      BY <1>2, <1>10
    <2> QED
      BY <2>1, <2>2
  <1>13. ASSUME Distinct(q) PROVE Distinct(Keep(q, S))
    <2> SUFFICES ASSUME NEW m \in 1 .. N, NEW n \in 1 .. N, Keep(q, S)[m] = Keep(q, S)[n] PROVE m = n
      BY <1>10 DEF Distinct
    <2>1. q[At(m)] = q[At(n)] /\ At(m) \in DOMAIN q /\ At(n) \in DOMAIN q
      BY <1>7, <1>9
    <2>2. At(m) = At(n)
      BY <1>13, <2>1 DEF Distinct
    <2> QED
      BY <1>7, <2>2
  <1> QED
    BY <1>10, <1>11, <1>12, <1>13

\* What is left of a sequence without an entry.
LEMMA WithoutEntry ==
    ASSUME NEW T, NEW q \in Seq(T), NEW x
    PROVE  /\ Without(q, x) \in Seq(T) /\ Range(Without(q, x)) = Range(q) \ {x}
           /\ Distinct(q) => Distinct(Without(q, x))
           /\ Without(q, x) = <<>> <=> Range(q) \subseteq {x}
  <1> DEFINE S == {i \in DOMAIN q : q[i] # x}
  <1>1. S \in SUBSET DOMAIN q
    OBVIOUS
  <1>2. /\ Keep(q, S) \in Seq(T) /\ Range(Keep(q, S)) = {q[i] : i \in S}
        /\ (Keep(q, S) = <<>> <=> S = {}) /\ (Distinct(q) => Distinct(Keep(q, S)))
    BY <1>1, KeepPlaces, Zenon
  <1>3. {q[i] : i \in S} = Range(q) \ {x} /\ (S = {} <=> Range(q) \subseteq {x})
    BY Zenon DEF Range
  <1> QED
    BY <1>2, <1>3 DEF Without

\* There are two ends.
LEMMA TwoEnds ==
    ASSUME NEW d \in Ends
    PROVE  Other(d) \in Ends /\ Other(d) # d /\ \A e \in Ends : e = d \/ e = Other(d)
  <1>1. IsFiniteSet(Ends \ {d}) /\ Cardinality(Ends \ {d}) = 1
    BY MeshRpcAssumption, FS_RemoveElement
  <1>2. PICK x : Ends \ {d} = {x}
    BY <1>1, FS_Singleton, Zenon
  <1>3. \E e \in Ends : e # d
    BY <1>2
  <1>4. Other(d) \in Ends /\ Other(d) # d
    BY <1>3 DEF Other
  <1> QED
    BY <1>2, <1>4

----------------------------------------------------------------------------
(* The effect of the functions on the parts of a world *)

\* Settle changes the status of open commands only.
LEMMA SettleEffect ==
    ASSUME NEW w \in WorldType, NEW cs, NEW how \in Outcomes, NEW v, v = Settle(w, cs, how)
    PROVE  /\ v \in WorldType
           /\ v.peer = w.peer /\ v.links = w.links /\ v.socks = w.socks /\ v.run = w.run /\ v.ran = w.ran
           /\ \A c \in Calls :
                /\ v.calls[c].st = IF c \in cs /\ w.calls[c].st = "open" THEN how ELSE w.calls[c].st
                /\ v.calls[c].kind = w.calls[c].kind
  <1> DEFINE m == [c \in Calls |-> IF c \in cs /\ w.calls[c].st = "open" THEN [w.calls[c] EXCEPT !.st = how] ELSE w.calls[c]]
  <1>1. v = [w EXCEPT !.calls = m]
    BY DEF Settle
  <1>2. \A c \in Calls : w.calls[c] \in CallType
    BY DEF WorldType
  <1>3. \A c \in Calls : [w.calls[c] EXCEPT !.st = how] \in CallType
    BY <1>2 DEF CallType
  <1>4. m \in [Calls -> CallType]
    BY <1>2, <1>3
  <1>5. \A c \in Calls :
            /\ m[c].st = IF c \in cs /\ w.calls[c].st = "open" THEN how ELSE w.calls[c].st
            /\ m[c].kind = w.calls[c].kind
    BY <1>2 DEF CallType
  <1> HIDE DEF m
  <1> QED
    BY <1>1, <1>4, <1>5 DEF WorldType

\* Sockets are as they were, or closing with nothing under way to them.
Shuts(w, v) ==
    \A s \in Sockets :
        /\ v.socks[s].link = w.socks[s].link
        /\ \A e \in Ends :
             /\ \/ v.socks[s].rs[e] = w.socks[s].rs[e]
                \/ w.socks[s].rs[e] \in {"open", "connecting"} /\ v.socks[s].rs[e] = "closing"
             /\ v.socks[s].chan[e] \in {w.socks[s].chan[e], <<>>}

\* Closing sockets at an end empties the channels to it.
LEMMA CloseEffect ==
    ASSUME NEW w \in WorldType, NEW d \in Ends, NEW ss, NEW v, v = Close(w, d, ss)
    PROVE  /\ v \in WorldType
           /\ v.peer = w.peer /\ v.links = w.links /\ v.calls = w.calls /\ v.run = w.run /\ v.ran = w.ran
           /\ Shuts(w, v)
  <1> DEFINE Shut(s) == [w.socks[s] EXCEPT !.rs[d] = "closing", !.chan[d] = <<>>]
             m == [s \in Sockets |-> IF s \in ss /\ w.socks[s].rs[d] \in {"open", "connecting"} THEN Shut(s) ELSE w.socks[s]]
  <1>1. v = [w EXCEPT !.socks = m]
    BY Zenon DEF Close
  <1>2. \A s \in Sockets : w.socks[s] \in SockType
    BY DEF WorldType
  <1>3. ASSUME NEW s \in Sockets
        PROVE  /\ Shut(s) \in SockType /\ Shut(s).link = w.socks[s].link
               /\ Shut(s).rs = [w.socks[s].rs EXCEPT ![d] = "closing"]
               /\ Shut(s).chan = [w.socks[s].chan EXCEPT ![d] = <<>>]
    <2>1. PICK k \in SockType : k = w.socks[s]
      BY <1>2
    <2>2. Shut(s) = [k EXCEPT !.rs = [k.rs EXCEPT ![d] = "closing"], !.chan = [k.chan EXCEPT ![d] = <<>>]]
      BY <2>1 DEF SockType
    <2>3. k.rs \in [Ends -> {"none", "connecting", "open", "closing", "closed"}] /\ k.chan \in [Ends -> Seq(Frames)]
      BY DEF SockType
    <2>4. [k.rs EXCEPT ![d] = "closing"] \in [Ends -> {"none", "connecting", "open", "closing", "closed"}]
      BY <2>3
    <2>5. [k.chan EXCEPT ![d] = <<>>] \in [Ends -> Seq(Frames)]
      BY <2>3
    <2> QED
      BY <2>1, <2>2, <2>4, <2>5, Zenon DEF SockType
  <1>4. \A s \in Sockets : m[s] = IF s \in ss /\ w.socks[s].rs[d] \in {"open", "connecting"} THEN Shut(s) ELSE w.socks[s]
    OBVIOUS
  <1>5. m \in [Sockets -> SockType]
    <2> HIDE DEF Shut
    <2> QED
      BY <1>2, <1>3, Zenon
  <1>6. v.socks = m /\ v \in WorldType
    <2> HIDE DEF m
    <2> QED
      BY <1>1, <1>5 DEF WorldType
  <1>7. v.peer = w.peer /\ v.links = w.links /\ v.calls = w.calls /\ v.run = w.run /\ v.ran = w.ran
    <2> HIDE DEF m
    <2> QED
      BY <1>1 DEF WorldType
  <1>8. ASSUME NEW s \in Sockets, NEW e \in Ends
        PROVE  /\ m[s].link = w.socks[s].link
               /\ \/ m[s].rs[e] = w.socks[s].rs[e]
                  \/ w.socks[s].rs[e] \in {"open", "connecting"} /\ m[s].rs[e] = "closing"
               /\ m[s].chan[e] \in {w.socks[s].chan[e], <<>>}
    <2>1. w.socks[s].rs \in [Ends -> {"none", "connecting", "open", "closing", "closed"}] /\ w.socks[s].chan \in [Ends -> Seq(Frames)]
      BY <1>2 DEF SockType
    <2>2. PICK k : k = w.socks[s]
      OBVIOUS
    <2>3. PICK h : h = Shut(s) /\ h.rs = [k.rs EXCEPT ![d] = "closing"] /\ h.chan = [k.chan EXCEPT ![d] = <<>>] /\ h.link = k.link
      BY <1>3, <2>2, Zenon
    <2>4. m[s] = IF s \in ss /\ k.rs[d] \in {"open", "connecting"} THEN h ELSE k
      BY <1>4, <2>2, <2>3
    <2>5. h.rs[e] = (IF e = d THEN "closing" ELSE k.rs[e]) /\ h.chan[e] = (IF e = d THEN <<>> ELSE k.chan[e])
      BY <2>1, <2>2, <2>3
    <2> HIDE DEF Shut, m
    <2> QED
      BY <2>2, <2>3, <2>4, <2>5, Zenon
  <1>9. \A s \in Sockets : m[s].link = w.socks[s].link
    <2> HIDE DEF Shut, m
    <2> QED
      BY <1>3, <1>4, Zenon
  <1> HIDE DEF m
  <1> QED
    BY <1>6, <1>7, <1>8, <1>9 DEF Shuts

----------------------------------------------------------------------------
(* Steps that put no frame under way *)

Live == {"connecting", "open", "closing"}

\* The links are the same, and sockets only close.
Steady(w, v) ==
    /\ v.links = w.links
    /\ \A s \in Sockets :
         /\ v.socks[s].link = w.socks[s].link
         /\ \A e \in Ends :
              v.socks[s].rs[e] = w.socks[s].rs[e] \/ (w.socks[s].rs[e] \in Live /\ v.socks[s].rs[e] \in Live)

\* Channels are only emptied.
Emptied(w, v) == \A s \in Sockets, e \in Ends : v.socks[s].chan[e] \in {w.socks[s].chan[e], <<>>}

Calm(w, v) == Steady(w, v) /\ Emptied(w, v)

\* A step that only closes sockets keeps the links.
LEMMA SteadyLinks ==
    ASSUME NEW w \in WorldType, NEW v, Steady(w, v), LinkOK(w)
    PROVE  LinkOK(v)
  <1>1. ASSUME NEW l \in Links, ~v.links[l].stopped
        PROVE  IF v.links[l].due # "no" THEN v.links[l].ws = NoSocket
               ELSE /\ v.links[l].ws # NoSocket /\ v.socks[v.links[l].ws].link = l
                    /\ v.socks[v.links[l].ws].rs[Dialler[l]] \in Live
    <2>1. PICK k \in LinkType : k = w.links[l] /\ k = v.links[l]
      BY DEF Steady, WorldType
    <2>2. IF k.due # "no" THEN k.ws = NoSocket
          ELSE k.ws # NoSocket /\ w.socks[k.ws].link = l /\ w.socks[k.ws].rs[Dialler[l]] \in Live
      <3>1. ~w.links[l].stopped
        BY <1>1, <2>1
      <3>2. IF w.links[l].due # "no" THEN w.links[l].ws = NoSocket
            ELSE w.links[l].ws # NoSocket /\ w.socks[w.links[l].ws].link = l /\ w.socks[w.links[l].ws].rs[Dialler[l]] \in Live
        BY <3>1, Zenon DEF LinkOK, Live
      <3> QED
        BY <2>1, <3>2
    <2>3. Dialler[l] \in Ends /\ (k.ws # NoSocket => k.ws \in Sockets)
      BY MeshRpcAssumption DEF LinkType
    <2> QED
      BY <2>1, <2>2, <2>3 DEF Steady
  <1>2. ASSUME NEW s \in Sockets, v.socks[s].link = NoLink, NEW e \in Ends
        PROVE  v.socks[s].rs[e] = "none"
    <2>1. /\ w.socks[s].link = NoLink
          /\ v.socks[s].rs[e] = w.socks[s].rs[e] \/ w.socks[s].rs[e] \in Live
      BY <1>2, Zenon DEF Steady
    <2>2. w.socks[s].rs[e] = "none"
      <3>1. \A t \in Sockets : w.socks[t].link = NoLink => \A d \in Ends : w.socks[t].rs[d] = "none"
        BY ONLY LinkOK(w) DEF LinkOK
      <3> QED
        BY ONLY <2>1, <3>1, s \in Sockets, e \in Ends
    <2> QED
      BY ONLY <2>1, <2>2 DEF Live
  <1> QED
    BY <1>1, <1>2, Zenon DEF LinkOK, Live

\* One that only empties channels loses frames at most.
LEMMA EmptiedFrames ==
    ASSUME NEW w, NEW v, Emptied(w, v)
    PROVE  /\ \A s \in Sockets, e \in Ends : \A i, k, c : FrameAt(v, s, e, i, k, c) => FrameAt(w, s, e, i, k, c)
           /\ \A c : Fresh(w, c) /\ v.ran = w.ran => Fresh(v, c)
  <1>1. ASSUME NEW s \in Sockets, NEW e \in Ends, NEW i, NEW k, NEW c, FrameAt(v, s, e, i, k, c)
        PROVE  FrameAt(w, s, e, i, k, c)
    <2>1. v.socks[s].chan[e] # <<>>
      BY <1>1 DEF FrameAt
    <2>2. v.socks[s].chan[e] = w.socks[s].chan[e]
      BY <2>1 DEF Emptied
    <2> QED
      BY <1>1, <2>2 DEF FrameAt
  <1> QED
    BY <1>1 DEF Fresh

\* It keeps the truth of what callers are told, if new outcomes are true and running commands are at most orphaned.
LEMMA EmptiedTold ==
    ASSUME NEW w, NEW v, NEW hand, NEW left, ToldOK(w, hand), Emptied(w, v), v.ran = w.ran,
           \A c \in Calls : v.run[c] = w.run[c] \/ (w.run[c] = "running" /\ v.run[c] = "orphaned"),
           \A c \in Calls : v.calls[c].st \in Unsent \cup {"new"} \/ Queued(v, c) \/ c \in left => Fresh(w, c),
           \A c \in Calls : v.calls[c].st \in Answers => w.ran[c] = 1 /\ w.run[c] = "done"
    PROVE  ToldOK(v, left)
  <1> SUFFICES ASSUME NEW c \in Calls
               PROVE  /\ v.calls[c].st \in Unsent \cup {"new"} \/ Queued(v, c) \/ c \in left => Fresh(v, c)
                      /\ v.calls[c].st \in Answers => v.ran[c] = 1 /\ v.run[c] = "done"
                      /\ v.ran[c] <= 1 /\ (v.run[c] = "no" <=> v.ran[c] = 0)
                      /\ \A s, t \in Sockets, e, f \in Ends : \A i, j \in Nat :
                           FrameAt(v, s, e, i, "req", c) =>
                               v.ran[c] = 0 /\ (FrameAt(v, t, f, j, "req", c) => s = t /\ e = f /\ i = j)
                      /\ \A s \in Sockets, e \in Ends : \A i \in Nat : \A ans \in Answers :
                           FrameAt(v, s, e, i, ans, c) => v.ran[c] = 1 /\ v.run[c] = "done"
    BY DEF ToldOK
  <1>1. v.calls[c].st \in Unsent \cup {"new"} \/ Queued(v, c) \/ c \in left => Fresh(v, c)
    BY EmptiedFrames
  <1>2. v.calls[c].st \in Answers => v.ran[c] = 1 /\ v.run[c] = "done"
    OBVIOUS
  <1>3. v.ran[c] <= 1 /\ (v.run[c] = "no" <=> v.ran[c] = 0)
    BY DEF ToldOK
  <1>4. ASSUME NEW s \in Sockets, NEW t \in Sockets, NEW e \in Ends, NEW f \in Ends, NEW i \in Nat, NEW j \in Nat,
               FrameAt(v, s, e, i, "req", c)
        PROVE  v.ran[c] = 0 /\ (FrameAt(v, t, f, j, "req", c) => s = t /\ e = f /\ i = j)
    <2>1. FrameAt(w, s, e, i, "req", c) /\ (FrameAt(v, t, f, j, "req", c) => FrameAt(w, t, f, j, "req", c))
      BY <1>4, EmptiedFrames
    <2> QED
      BY <2>1 DEF ToldOK
  <1>5. ASSUME NEW s \in Sockets, NEW e \in Ends, NEW i \in Nat, NEW ans \in Answers, FrameAt(v, s, e, i, ans, c)
        PROVE  v.ran[c] = 1 /\ v.run[c] = "done"
    <2>1. FrameAt(w, s, e, i, ans, c)
      BY <1>5, EmptiedFrames
    <2> QED
      BY <2>1 DEF ToldOK
  <1> QED
    BY <1>1, <1>2, <1>3, <1>4, <1>5

\* So does one that only closes sockets.
LEMMA CalmTold ==
    ASSUME NEW w, NEW v, NEW hand, NEW left, ToldOK(w, hand), Calm(w, v), v.ran = w.ran,
           \A c \in Calls : v.run[c] = w.run[c] \/ (w.run[c] = "running" /\ v.run[c] = "orphaned"),
           \A c \in Calls : v.calls[c].st \in Unsent \cup {"new"} \/ Queued(v, c) \/ c \in left => Fresh(w, c),
           \A c \in Calls : v.calls[c].st \in Answers => w.ran[c] = 1 /\ w.run[c] = "done"
    PROVE  ToldOK(v, left)
  BY EmptiedTold DEF Calm

\* Closing sockets is such a step.
LEMMA CloseMatters ==
    ASSUME NEW w \in WorldType, NEW d \in Ends, NEW ss, NEW v, v = Close(w, d, ss)
    PROVE  /\ v \in WorldType /\ Calm(w, v)
           /\ v.peer = w.peer /\ v.links = w.links /\ v.calls = w.calls /\ v.run = w.run /\ v.ran = w.ran
  <1>1. /\ v \in WorldType
        /\ v.peer = w.peer /\ v.links = w.links /\ v.calls = w.calls /\ v.run = w.run /\ v.ran = w.ran
    BY CloseEffect
  <1>2. ASSUME NEW s \in Sockets, NEW e \in Ends
        PROVE  /\ v.socks[s].rs[e] = w.socks[s].rs[e] \/ (w.socks[s].rs[e] \in Live /\ v.socks[s].rs[e] \in Live)
               /\ v.socks[s].chan[e] \in {w.socks[s].chan[e], <<>>}
               /\ v.socks[s].link = w.socks[s].link
    <2>1. Shuts(w, v)
      BY CloseEffect
    <2>2. /\ v.socks[s].link = w.socks[s].link
          /\ \/ v.socks[s].rs[e] = w.socks[s].rs[e]
             \/ w.socks[s].rs[e] \in {"open", "connecting"} /\ v.socks[s].rs[e] = "closing"
          /\ v.socks[s].chan[e] \in {w.socks[s].chan[e], <<>>}
      BY ONLY <2>1, s \in Sockets, e \in Ends DEF Shuts
    <2> QED
      BY ONLY <2>2 DEF Live
  <1>3. \A s \in Sockets : v.socks[s].link = w.socks[s].link
    <2>1. Shuts(w, v)
      BY CloseEffect
    <2> QED
      BY ONLY <2>1, Zenon DEF Shuts
  <1> QED
    BY <1>1, <1>2, <1>3 DEF Calm, Steady, Emptied

\* A peer entry that is gone holds nothing.
LEMMA NoPeerOK == ASSUME NEW d PROVE NoPeer \in PeerType /\ PeerOK(NoPeer, d) /\ AttOK(NoPeer) /\ NewPeer \in PeerType
                                     /\ PeerOK(NewPeer, d) /\ AttOK(NewPeer)
  <1>1. Range(<<>>) = {}
    BY DEF Range
  <1>2. NoPeer \in PeerType
    BY DEF NoPeer, PeerType
  <1>3. /\ NewPeer \in PeerType /\ NewPeer.state = "connecting" /\ NewPeer.queue = NoPeer.queue
        /\ NewPeer.inflight = NoPeer.inflight /\ NewPeer.att = NoPeer.att
    BY <1>2 DEF NewPeer, PeerType
  <1>4. PeerOK(NoPeer, d) /\ AttOK(NoPeer) /\ NoPeer.queue = <<>> /\ NoPeer.inflight = {} /\ NoPeer.att = <<>>
    BY <1>1 DEF NoPeer, PeerOK, AttOK, Distinct
  <1>5. PeerOK(NewPeer, d) /\ AttOK(NewPeer)
    BY <1>1, <1>3, <1>4 DEF PeerOK, AttOK, Distinct
  <1> QED
    BY <1>2, <1>3, <1>4, <1>5

\* failPeer: what the entry holds is settled, and nothing is left without an owner.
LEMMA FailPeerInv ==
    ASSUME NEW w, NEW d \in Ends, NEW loose, loose \subseteq {d}, Inv(w, {}, loose),
           NEW code \in Outcomes, code \notin Answers, code \in Unsent => w.peer[d].inflight = {},
           NEW v, v = FailPeer(w, d, code)
    PROVE  Inv(v, {}, {}) /\ Calm(w, v)
  <1>1. /\ w \in WorldType /\ CallOK(w, {}) /\ ToldOK(w, {}) /\ LinkOK(w)
        /\ \A e \in Ends : PeerOK(w.peer[e], e) /\ (e # d => AttOK(w.peer[e]))
    BY DEF Inv
  <1>2. CASE w.peer[d].state = "none"
    <2>1. v = w
      BY <1>2 DEF FailPeer
    <2>2. AttOK(w.peer[d])
      BY <1>1, <1>2 DEF PeerOK, AttOK
    <2>3. Calm(w, w)
      BY DEF Calm, Steady, Emptied
    <2> QED
      BY <1>1, <2>1, <2>2, <2>3 DEF Inv
  <1>3. CASE w.peer[d].state # "none"
    <2> DEFINE held == Range(w.peer[d].queue) \cup w.peer[d].inflight
               r == [c \in Calls |-> IF From[c] # d /\ w.run[c] = "running" THEN "orphaned" ELSE w.run[c]]
    <2>1. PICK u : u = [w EXCEPT !.peer[d] = NoPeer, !.dropped[d] = TRUE, !.run = r]
      BY Zenon
    <2>2. PICK x : x = Settle(u, held, code)
      OBVIOUS
    <2>3. v = Close(x, d, Attachments(w, d))
      BY <1>3, <2>1, <2>2 DEF FailPeer
    <2>4. /\ u \in WorldType /\ u.peer = [w.peer EXCEPT ![d] = NoPeer] /\ u.run = r
          /\ u.links = w.links /\ u.socks = w.socks /\ u.calls = w.calls /\ u.ran = w.ran
      <3>1. r \in [Calls -> {"no", "running", "orphaned", "done"}]
        BY <1>1 DEF WorldType
      <3>2. [w.peer EXCEPT ![d] = NoPeer] \in [Ends -> PeerType] /\ [w.dropped EXCEPT ![d] = TRUE] \in [Ends -> BOOLEAN]
        BY <1>1, NoPeerOK DEF WorldType
      <3>3. u = [w EXCEPT !.peer = [w.peer EXCEPT ![d] = NoPeer], !.dropped = [w.dropped EXCEPT ![d] = TRUE], !.run = r]
        BY <1>1, <2>1 DEF WorldType
      <3> HIDE DEF r
      <3> QED
        BY <1>1, <3>1, <3>2, <3>3, Zenon DEF WorldType
    <2>5. /\ x \in WorldType /\ x.peer = u.peer /\ x.run = u.run
          /\ x.links = u.links /\ x.socks = u.socks /\ x.ran = u.ran
          /\ \A c \in Calls : x.calls[c].st = IF c \in held /\ u.calls[c].st = "open" THEN code ELSE u.calls[c].st
      BY <2>2, <2>4, SettleEffect
    <2>6. /\ v \in WorldType /\ v.peer = x.peer /\ v.run = x.run /\ v.links = x.links /\ v.ran = x.ran /\ v.calls = x.calls
          /\ Calm(w, v)
      <3>1. /\ v \in WorldType /\ v.peer = x.peer /\ v.run = x.run /\ v.links = x.links /\ v.ran = x.ran /\ v.calls = x.calls
            /\ Calm(x, v)
        BY <2>3, <2>5, CloseMatters
      <3>2. x.links = w.links /\ x.socks = w.socks
        BY <2>4, <2>5
      <3> QED
        BY <3>1, <3>2 DEF Calm, Steady, Emptied
    <2>7. /\ v.peer = [w.peer EXCEPT ![d] = NoPeer] /\ v.ran = w.ran /\ v.run = r
          /\ \A c \in Calls : v.calls[c].st = IF c \in held /\ w.calls[c].st = "open" THEN code ELSE w.calls[c].st
      BY <2>4, <2>5, <2>6
    <2>8. w.peer \in [Ends -> PeerType] /\ code # "open" /\ code # "new" /\ From \in [Calls -> Ends]
      BY <1>1, MeshRpcAssumption DEF WorldType, Outcomes, Unsent, Answers
    <2>9. \A c \in Calls : From[c] = d => (Queued(w, c) \/ Flying(w, c) <=> c \in held) /\ ~Queued(v, c) /\ ~Flying(v, c)
      BY <2>7, <2>8 DEF Queued, Flying, NoPeer, Range
    <2>10. \A c \in Calls : From[c] # d => (Queued(w, c) <=> Queued(v, c)) /\ (Flying(w, c) <=> Flying(v, c)) /\ c \notin held
      BY <1>1, <2>7, <2>8 DEF Queued, Flying, PeerOK
    <2>11. CallOK(v, {})
      <3> HIDE DEF held
      <3> QED
        BY <1>1, <2>7, <2>8, <2>9, <2>10 DEF CallOK
    <2>12. \A e \in Ends : PeerOK(v.peer[e], e) /\ AttOK(v.peer[e])
      BY <1>1, <2>7, <2>8, NoPeerOK, Zenon
    <2>13. ToldOK(v, {})
      <3>1. ASSUME NEW c \in Calls, v.calls[c].st \in Unsent \cup {"new"} \/ Queued(v, c)
            PROVE  Fresh(w, c)
        <4>1. CASE w.calls[c].st \in Unsent \cup {"new"} \/ Queued(w, c)
          BY <1>1, <4>1 DEF ToldOK
        <4>2. CASE ~(w.calls[c].st \in Unsent \cup {"new"} \/ Queued(w, c))
          <5>1. ~Queued(v, c)
            BY <2>9, <2>10, <4>2
          <5>2. c \in held /\ code \in Unsent
            BY <2>7, <2>8, <3>1, <4>2, <5>1
          <5>3. From[c] = d /\ Queued(w, c)
            BY <2>10, <5>2 DEF Queued
          <5> QED
            BY <4>2, <5>3
        <4> QED
          BY <4>1, <4>2
      <3>2. \A c \in Calls : v.calls[c].st \in Answers => w.ran[c] = 1 /\ w.run[c] = "done"
        BY <1>1, <2>7 DEF ToldOK
      <3>3. \A c \in Calls : v.run[c] = w.run[c] \/ (w.run[c] = "running" /\ v.run[c] = "orphaned")
        BY <2>7
      <3> QED
        BY <1>1, <2>6, <2>7, <3>1, <3>2, <3>3, CalmTold
    <2>14. LinkOK(v)
      BY <1>1, <2>6, SteadyLinks DEF Calm
    <2> QED
      BY <2>6, <2>11, <2>12, <2>13, <2>14 DEF Inv
  <1> QED
    BY <1>2, <1>3

WithPeer(w, d, p) == [w EXCEPT !.peer[d] = p]

\* Replacing one peer entry of a world.
LEMMA PeerReplaced ==
    ASSUME NEW w \in WorldType, NEW d \in Ends, NEW p \in PeerType, NEW v, v = WithPeer(w, d, p)
    PROVE  /\ v \in WorldType /\ v.peer = [w.peer EXCEPT ![d] = p]
           /\ v.links = w.links /\ v.socks = w.socks /\ v.calls = w.calls /\ v.run = w.run /\ v.ran = w.ran
  <1>1. PICK m : m = [w.peer EXCEPT ![d] = p]
    BY Zenon
  <1>2. m \in [Ends -> PeerType]
    BY <1>1 DEF WorldType
  <1>3. v = [w EXCEPT !.peer = m]
    BY <1>1 DEF WithPeer
  <1> QED
    BY <1>1, <1>2, <1>3 DEF WorldType

\* A step that leaves the commands in their places.
LEMMA SamePlaces ==
    ASSUME NEW w, NEW hand, NEW loose, NEW tight, Inv(w, hand, loose),
           NEW d \in Ends, NEW p \in PeerType, NEW v \in WorldType,
           v.peer = [w.peer EXCEPT ![d] = p], PeerOK(p, d),
           p.queue = w.peer[d].queue, p.inflight = w.peer[d].inflight,
           \A e \in Ends : e \notin tight => AttOK(v.peer[e]),
           v.links = w.links, v.socks = w.socks, v.run = w.run, v.ran = w.ran,
           \A c \in Calls : v.calls[c].st = w.calls[c].st
    PROVE  Inv(v, hand, tight) /\ Calm(w, v)
  <1>1. /\ w \in WorldType /\ CallOK(w, hand) /\ ToldOK(w, hand) /\ LinkOK(w)
        /\ \A e \in Ends : PeerOK(w.peer[e], e)
    BY DEF Inv
  <1>2. w.peer \in [Ends -> PeerType] /\ From \in [Calls -> Ends]
    BY <1>1, MeshRpcAssumption DEF WorldType
  <1>3. \A c \in Calls : (Queued(v, c) <=> Queued(w, c)) /\ (Flying(v, c) <=> Flying(w, c))
    BY <1>2 DEF Queued, Flying
  <1>4. Calm(w, v)
    BY DEF Calm, Steady, Emptied
  <1>5. CallOK(v, hand)
    BY <1>1, <1>3 DEF CallOK
  <1>6. ToldOK(v, hand)
    <2>1. \A c \in Calls : v.calls[c].st \in Unsent \cup {"new"} \/ Queued(v, c) \/ c \in hand => Fresh(w, c)
      BY <1>1, <1>3 DEF ToldOK
    <2>2. \A c \in Calls : v.calls[c].st \in Answers => w.ran[c] = 1 /\ w.run[c] = "done"
      BY <1>1 DEF ToldOK
    <2> QED
      BY <1>1, <1>4, <2>1, <2>2, CalmTold
  <1>7. \A e \in Ends : PeerOK(v.peer[e], e)
    BY <1>1, <1>2
  <1>8. LinkOK(v)
    BY <1>1, <1>4, SteadyLinks DEF Calm
  <1> QED
    BY <1>4, <1>5, <1>6, <1>7, <1>8 DEF Inv

\* The relation is transitive.
LEMMA CalmTwice == ASSUME NEW w, NEW u, NEW v, Calm(w, u), Calm(u, v) PROVE Calm(w, v)
  BY DEF Calm, Steady, Emptied

\* releaseAttachment: a peer entry that loses its last socket fails.
LEMMA ReleaseInv ==
    ASSUME NEW w, Inv(w, {}, {}), NEW d \in Ends, NEW s,
           NEW code \in Outcomes, code \notin Answers, code \notin Unsent,
           NEW v, v = ReleaseAttachment(w, d, s, code)
    PROVE  Inv(v, {}, {}) /\ Calm(w, v)
  <1>1. w \in WorldType /\ PeerOK(w.peer[d], d) /\ \A e \in Ends : AttOK(w.peer[e])
    BY DEF Inv
  <1>2. CASE s \notin Attachments(w, d)
    BY <1>2 DEF ReleaseAttachment, Calm, Steady, Emptied
  <1>3. CASE s \in Attachments(w, d)
    <2>1. w.peer[d] \in PeerType /\ w.peer \in [Ends -> PeerType]
      BY <1>1 DEF WorldType
    <2>2. PICK p : p = [w.peer[d] EXCEPT !.att = Without(@, s)]
      BY Zenon
    <2>3. PICK a : a = w.peer[d].att
      OBVIOUS
    <2>4. a \in Seq(Sockets) /\ Range(a) = Attachments(w, d) /\ a # <<>>
      BY <1>3, <2>1, <2>3 DEF PeerType, Attachments, Range
    <2>5. Without(a, s) \in Seq(Sockets) /\ (Without(a, s) = <<>> <=> Range(a) \subseteq {s})
      BY <2>4, WithoutEntry
    <2>6. /\ p \in PeerType /\ p.queue = w.peer[d].queue /\ p.inflight = w.peer[d].inflight
          /\ p.state = w.peer[d].state /\ p.att = Without(a, s)
      BY <2>1, <2>2, <2>3, <2>5, Zenon DEF PeerType
    <2>7. PICK u : u = Detached(w, d, s)
      OBVIOUS
    <2>8. u = WithPeer(w, d, p)
      BY <2>2, <2>7 DEF Detached, WithPeer
    <2>9. /\ u \in WorldType /\ u.peer = [w.peer EXCEPT ![d] = p]
          /\ u.links = w.links /\ u.socks = w.socks /\ u.calls = w.calls /\ u.run = w.run /\ u.ran = w.ran
      <3>1. w \in WorldType /\ p \in PeerType
        BY <1>1, <2>6
      <3> QED
        BY <2>8, <3>1, PeerReplaced
    <2>10. PeerOK(p, d) /\ p.state = "connected"
      <3>1. w.peer[d].state = "connected"
        BY <1>1, <2>3, <2>4 DEF AttOK
      <3> QED
        BY <1>1, <2>6, <3>1 DEF PeerOK
    <2>11. CASE Attachments(w, d) = {s}
      <3>1. \A e \in Ends : e \notin {d} => AttOK(u.peer[e])
        BY <1>1, <2>1, <2>9
      <3>2. Inv(u, {}, {d}) /\ Calm(w, u)
        BY <2>6, <2>9, <2>10, <3>1, SamePlaces, Zenon
      <3>3. v = FailPeer(u, d, code)
        BY <1>3, <2>7, <2>11 DEF ReleaseAttachment
      <3>4. Inv(v, {}, {}) /\ Calm(u, v)
        BY <3>2, <3>3, FailPeerInv
      <3> QED
        BY <3>2, <3>4, CalmTwice
    <2>12. CASE Attachments(w, d) # {s}
      <3>1. v = u
        BY <1>3, <2>7, <2>12 DEF ReleaseAttachment
      <3>2. p.att # <<>>
        BY <1>3, <2>4, <2>5, <2>6, <2>12
      <3>3. \A e \in Ends : AttOK(u.peer[e])
        BY <1>1, <2>1, <2>9, <2>10, <3>2 DEF AttOK
      <3> QED
        BY <2>6, <2>9, <2>10, <3>1, <3>3, SamePlaces, Zenon
    <2> QED
      BY <2>11, <2>12
  <1> QED
    BY <1>2, <1>3

----------------------------------------------------------------------------
(* Steps that put frames under way *)

\* The frames are added to one channel to the other end, or to none.
Adds(w, v, d, frames) ==
    \/ \A s \in Sockets, e \in Ends : v.socks[s].chan[e] = w.socks[s].chan[e]
    \/ \E t \in Sockets : \A s \in Sockets, e \in Ends :
          v.socks[s].chan[e] = IF s = t /\ e = Other(d) THEN w.socks[s].chan[e] \o frames ELSE w.socks[s].chan[e]

\* sendMessage adds frames to a channel and changes nothing else.
LEMMA WriteEffect ==
    ASSUME NEW w \in WorldType, NEW d \in Ends, NEW frames \in Seq(Frames), NEW v, v = Write(w, d, frames)
    PROVE  /\ v \in WorldType /\ Adds(w, v, d, frames)
           /\ v.peer = w.peer /\ v.links = w.links /\ v.calls = w.calls /\ v.run = w.run /\ v.ran = w.ran
           /\ \A s \in Sockets : v.socks[s].link = w.socks[s].link /\ v.socks[s].rs = w.socks[s].rs
  <1>1. CASE v = w
    BY <1>1 DEF Adds
  <1>2. CASE v # w
    <2>1. IsOpen(w, d) /\ v = WriteOn(w, d, Newest(w, d), frames)
      BY <1>2 DEF Write
    <2>2. Newest(w, d) \in Sockets
      <3>1. PICK a : a = w.peer[d].att
        OBVIOUS
      <3>2. a \in Seq(Sockets)
        BY <3>1 DEF WorldType, PeerType
      <3>3. PICK S : S = {i \in DOMAIN a : w.socks[a[i]].rs[d] = "open"}
        BY Zenon
      <3>4. PICK o : o = Keep(a, S)
        OBVIOUS
      <3>5. o \in Seq(Sockets)
        BY <3>2, <3>3, <3>4, KeepPlaces
      <3>6. o = OpenSockets(w, d)
        BY <3>1, <3>3, <3>4, Zenon DEF OpenSockets
      <3>7. o # <<>>
        BY <2>1, <3>6 DEF IsOpen
      <3> QED
        BY <3>5, <3>6, <3>7 DEF Newest
    <2>3. PICK t \in Sockets : t = Newest(w, d)
      BY <2>2
    <2>4. v = [w EXCEPT !.socks[t].chan[Other(d)] = @ \o frames]
      BY <1>2, <2>1, <2>3, Zenon DEF WriteOn
    <2>5. PICK k \in SockType : k = w.socks[t]
      BY DEF WorldType
    <2>6. k.chan \in [Ends -> Seq(Frames)] /\ Other(d) \in Ends
      BY TwoEnds DEF SockType
    <2>7. PICK ch : ch = [k.chan EXCEPT ![Other(d)] = k.chan[Other(d)] \o frames]
      BY Zenon
    <2>8. ch \in [Ends -> Seq(Frames)]
      <3>1. k.chan[Other(d)] \o frames \in Seq(Frames)
        BY <2>6
      <3> QED
        BY <2>6, <2>7, <3>1
    <2>9. PICK h : h = [k EXCEPT !.chan = ch]
      BY Zenon
    <2>10. h \in SockType /\ h.chan = ch /\ h.link = k.link /\ h.rs = k.rs
      BY <2>8, <2>9, Zenon DEF SockType
    <2>11. PICK m : m = [w.socks EXCEPT ![t] = h]
      BY Zenon
    <2>12. m \in [Sockets -> SockType] /\ \A s \in Sockets : m[s] = IF s = t THEN h ELSE w.socks[s]
      BY <2>10, <2>11 DEF WorldType
    <2>13. v = [w EXCEPT !.socks = m]
      BY <2>4, <2>5, <2>7, <2>9, <2>11, Zenon
    <2>14. /\ v \in WorldType /\ v.socks = m
           /\ v.peer = w.peer /\ v.links = w.links /\ v.calls = w.calls /\ v.run = w.run /\ v.ran = w.ran
      BY <2>12, <2>13 DEF WorldType
    <2>15. \A s \in Sockets : v.socks[s].link = w.socks[s].link /\ v.socks[s].rs = w.socks[s].rs
      BY <2>5, <2>10, <2>12, <2>14
    <2>16. ASSUME NEW s \in Sockets, NEW e \in Ends
           PROVE  v.socks[s].chan[e] = IF s = t /\ e = Other(d) THEN w.socks[s].chan[e] \o frames ELSE w.socks[s].chan[e]
      <3>1. ch[e] = IF e = Other(d) THEN k.chan[e] \o frames ELSE k.chan[e]
        BY <2>6, <2>7
      <3> QED
        BY <2>5, <2>10, <2>12, <2>14, <3>1
    <2> QED
      BY <2>14, <2>15, <2>16 DEF Adds
  <1> QED
    BY <1>1, <1>2

\* The frame is the j-th of the added ones, in the channel of socket t.
Added(w, t, d, frames, s, e, i, k, c) ==
    /\ s = t /\ e = Other(d)
    /\ \E j \in DOMAIN frames : i = Len(w.socks[t].chan[e]) + j /\ frames[j] = [k |-> k, c |-> c]

\* The frames of the world after it: those of before, and the added ones in one channel.
LEMMA AddedFrames ==
    ASSUME NEW w \in WorldType, NEW v \in WorldType, NEW d \in Ends, NEW frames \in Seq(Frames), Adds(w, v, d, frames)
    PROVE  \E t \in Sockets \cup {NoSocket} : \A s \in Sockets, e \in Ends : \A i \in Nat : \A k, c :
             FrameAt(v, s, e, i, k, c) => FrameAt(w, s, e, i, k, c) \/ Added(w, t, d, frames, s, e, i, k, c)
  <1>1. CASE \A s \in Sockets, e \in Ends : v.socks[s].chan[e] = w.socks[s].chan[e]
    <2>1. \A s \in Sockets, e \in Ends : \A i, k, c : FrameAt(v, s, e, i, k, c) => FrameAt(w, s, e, i, k, c)
      BY <1>1 DEF FrameAt
    <2> QED
      BY <2>1
  <1>2. ASSUME NEW t \in Sockets,
               \A s \in Sockets, e \in Ends :
                  v.socks[s].chan[e] = IF s = t /\ e = Other(d) THEN w.socks[s].chan[e] \o frames ELSE w.socks[s].chan[e],
               NEW s \in Sockets, NEW e \in Ends, NEW i \in Nat, NEW k, NEW c, FrameAt(v, s, e, i, k, c),
               ~FrameAt(w, s, e, i, k, c)
        PROVE  Added(w, t, d, frames, s, e, i, k, c)
    <2>1. s = t /\ e = Other(d)
      BY <1>2 DEF FrameAt
    <2>2. PICK q : q = w.socks[t].chan[e]
      OBVIOUS
    <2>3. q \in Seq(Frames)
      BY <2>2 DEF WorldType, SockType
    <2>4. i \in DOMAIN (q \o frames) /\ (q \o frames)[i] = [k |-> k, c |-> c]
      BY <1>2, <2>1, <2>2, Zenon DEF FrameAt
    <2>5. ~(i \in DOMAIN q /\ q[i] = [k |-> k, c |-> c])
      BY <1>2, <2>1, <2>2 DEF FrameAt
    <2>6. i \in 1 .. Len(q) + Len(frames) /\ Len(q) \in Nat /\ Len(frames) \in Nat
      BY <2>3, <2>4
    <2>7. i > Len(q)
      BY <2>3, <2>4, <2>5, <2>6
    <2>8. i - Len(q) \in DOMAIN frames /\ frames[i - Len(q)] = [k |-> k, c |-> c] /\ i = Len(q) + (i - Len(q))
      BY <2>3, <2>4, <2>6, <2>7
    <2> QED
      BY <2>1, <2>2, <2>8 DEF Added
  <1>3. CASE \E t \in Sockets : \A s \in Sockets, e \in Ends :
          v.socks[s].chan[e] = IF s = t /\ e = Other(d) THEN w.socks[s].chan[e] \o frames ELSE w.socks[s].chan[e]
    <2>1. PICK t \in Sockets : \A s \in Sockets, e \in Ends :
          v.socks[s].chan[e] = IF s = t /\ e = Other(d) THEN w.socks[s].chan[e] \o frames ELSE w.socks[s].chan[e]
      BY <1>3
    <2> WITNESS t \in Sockets \cup {NoSocket}
    <2> QED
      BY <1>2, <2>1
  <1> QED
    BY <1>1, <1>3 DEF Adds
=============================================================================
