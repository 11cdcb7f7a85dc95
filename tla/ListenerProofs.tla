--------------------------- MODULE ListenerProofs ---------------------------
(***************************************************************************)
(* Proofs about what the daemons listen at: SocketClaim, for any set of    *)
(* daemons started at one name, whatever the directory and the name held   *)
(* before; EgressTunnels, for any number of connections, any grant and any *)
(* sizes of what is read; and the channel between the daemons, with its    *)
(* messages (PrivateChannel, BrokerMessages), for any orders, any number   *)
(* of exchanges and of lives of the broker.  The three share no state.     *)
(***************************************************************************)
EXTENDS EgressTunnels, SocketClaim, PrivateChannel, FiniteSetTheorems, TLAPS

\* NOBODY is no daemon.
SocketConstants == NOBODY \notin Daemons

-----------------------------------------------------------------------------
(* The claim of a name: the inductive invariant *)

NameType ==
    [kind : {"ABSENT", "FILE", "SYMLINK", "SOCKET"}, owner : {"SELF", "OTHER"}, inode : Nat,
     live : BOOLEAN]

\* Types, of what the claims compare.
ClaimTypeOK ==
    /\ pc \in [Daemons -> {"OFF", "REFUSED", "CHECKED", "LOCKED", "DEAD", "CLEAR", "BOUND", "SERVING"}]
    /\ identity \in [Daemons -> Nat]
    /\ lockHolder \in Daemons \cup {NOBODY}
    /\ name \in NameType
    /\ sockets \in Nat

\* From the lock to the end, whoever touches the name holds the lock.
LockIsHeld ==
    \A d \in Daemons :
        pc[d] \in {"LOCKED", "DEAD", "CLEAR", "BOUND", "SERVING"} => lockHolder = d

\* A bound name is the binder's, and live once it listens.
BoundIsOwn ==
    \A d \in Daemons :
        /\ pc[d] \in {"BOUND", "SERVING"} => name.kind = "SOCKET" /\ name.inode = identity[d]
        /\ pc[d] = "SERVING" => name.live

ClaimInv == ClaimTypeOK /\ LockIsHeld /\ BoundIsOwn

-----------------------------------------------------------------------------
(* Every action preserves the invariant *)

LEMMA ClaimInitInv == ClaimInit => ClaimInv
  <1>1. Occupants \subseteq NameType
    <2>1. Free \in NameType
      BY DEF NameType, Free
    <2>2. ASSUME NEW K \in SUBSET {"FILE", "SYMLINK", "SOCKET"}, NEW O \in SUBSET {"SELF", "OTHER"},
                 NEW n \in [kind : K, owner : O, inode : {0}, live : {FALSE}]
          PROVE  n \in NameType
      <3>1. /\ n = [kind |-> n.kind, owner |-> n.owner, inode |-> n.inode, live |-> n.live]
            /\ n.kind \in K /\ n.owner \in O /\ n.inode = 0 /\ n.live = FALSE
        BY Zenon
      <3>2. n.kind \in {"ABSENT", "FILE", "SYMLINK", "SOCKET"} /\ n.owner \in {"SELF", "OTHER"}
        BY <3>1
      <3>3. n.inode \in Nat
        BY <3>1
      <3>4. n.live \in BOOLEAN
        BY <3>1, Zenon
      <3>. QED BY <3>1, <3>2, <3>3, <3>4, Zenon DEF NameType
    <2>3. /\ [kind : {"FILE", "SYMLINK"}, owner : {"SELF"}, inode : {0}, live : {FALSE}] \subseteq NameType
          /\ [kind : {"SOCKET"}, owner : {"SELF", "OTHER"}, inode : {0}, live : {FALSE}] \subseteq NameType
      BY <2>2, Zenon
    <2>. QED BY <2>1, <2>3, Zenon DEF Occupants
  <1>. QED BY <1>1 DEF ClaimInit, ClaimInv, ClaimTypeOK, LockIsHeld, BoundIsOwn

\* Under the lock there is one daemon, so a step of the one that holds it meets no other's socket.
LEMMA ClaimNextInv == ASSUME SocketConstants, ClaimInv, [ClaimNext]_claimVars PROVE ClaimInv'
  <1>. USE DEF ClaimInv, ClaimTypeOK, LockIsHeld, BoundIsOwn, SocketConstants, Goto, Release
  <1>1. CASE UNCHANGED claimVars
    BY <1>1 DEF claimVars
  <1>2. ASSUME NEW d \in Daemons, CheckPlace(d) PROVE ClaimInv'
    BY <1>2 DEF CheckPlace
  <1>3. ASSUME NEW d \in Daemons, Lock(d) PROVE ClaimInv'
    BY <1>3 DEF Lock
  <1>4. ASSUME NEW d \in Daemons, Existing(d) PROVE ClaimInv'
    BY <1>4 DEF Existing, NameType
  <1>5. ASSUME NEW d \in Daemons, RemoveStale(d) PROVE ClaimInv'
    <2>1. Free \in NameType
      BY DEF Free, NameType
    <2>2. ClaimTypeOK'
      BY <1>5, <2>1 DEF RemoveStale
    <2>3. LockIsHeld' /\ BoundIsOwn'
      BY <1>5 DEF RemoveStale
    <2>. QED BY <2>2, <2>3
  <1>6. ASSUME NEW d \in Daemons, Bind(d) PROVE ClaimInv'
    <2>. DEFINE bound == [kind |-> "SOCKET", owner |-> "SELF", inode |-> sockets + 1, live |-> FALSE]
    <2>1. bound \in NameType /\ bound.kind = "SOCKET" /\ bound.inode = sockets + 1
      BY DEF NameType
    <2>2. \/ name' = bound /\ sockets' = sockets + 1 /\ identity' = [identity EXCEPT ![d] = sockets + 1]
             /\ pc' = [pc EXCEPT ![d] = "BOUND"] /\ lockHolder' = lockHolder
          \/ /\ pc' = [pc EXCEPT ![d] = "REFUSED"]
             /\ lockHolder' = IF lockHolder = d THEN NOBODY ELSE lockHolder
             /\ UNCHANGED <<name, identity, sockets>>
      BY <1>6 DEF Bind
    <2>. HIDE DEF bound
    <2>3. pc[d] = "CLEAR"
      BY <1>6 DEF Bind
    <2>4. ClaimTypeOK'
      BY <2>1, <2>2
    <2>5. LockIsHeld' /\ BoundIsOwn'
      BY <2>1, <2>2, <2>3
    <2>. QED BY <2>4, <2>5
  <1>7. ASSUME NEW d \in Daemons, Listen(d) PROVE ClaimInv'
    BY <1>7 DEF Listen, NameType, Free
  <1>8. ASSUME NEW d \in Daemons, Drop(d) PROVE ClaimInv'
    BY <1>8 DEF Drop, NameType, Free
  <1>9. ASSUME NEW d \in Daemons, Killed(d) PROVE ClaimInv'
    BY <1>9 DEF Killed, NameType, Free
  <1>. QED BY <1>1, <1>2, <1>3, <1>4, <1>5, <1>6, <1>7, <1>8, <1>9 DEF ClaimNext

-----------------------------------------------------------------------------
(* Theorems *)

\* The inductive invariant holds of every behaviour of the daemons (server/socket.rs and
\* listener.rs).
THEOREM ClaimInvariant == ASSUME SocketConstants PROVE ClaimSpec => []ClaimInv
  BY ClaimInitInv, ClaimNextInv, PTL DEF ClaimSpec

\* However many daemons start at one name, at whatever moments each inspects, clears, binds or is
\* killed, the one that serves is alone and the name reaches its socket (lock, clear_stale and
\* bind in server/socket.rs and listener.rs).
THEOREM ServerKeepsItsName == ASSUME SocketConstants PROVE ClaimSpec => []ServingIsReachable
  <1>1. ASSUME SocketConstants, ClaimInv PROVE ServingIsReachable
    BY <1>1 DEF ClaimInv, LockIsHeld, BoundIsOwn, ServingIsReachable, SocketConstants
  <1>. QED BY <1>1, ClaimInvariant, PTL

-----------------------------------------------------------------------------
(* The tunnels *)


\* A grant bounds the tunnels and the bytes each way; connections are finitely many
\* (EgressGrant; RELAY_MAX_CONNECTIONS).
EgressConstants ==
    /\ IsFiniteSet(Connections)
    /\ Most \in [Directions -> Nat]
    /\ MaxTunnels \in Nat /\ MaxChunk \in Nat

-----------------------------------------------------------------------------
(* The inductive invariant *)

LaneType ==
    [at : {"LOOP", "READING", "READ", "HAND", "WRITING", "DONE"}, n : Nat, over : BOOLEAN]
ConnType ==
    [st : {"NONE", "REQUEST", "RESOLVING", "HELLO", "DIAL", "EARLY", "PUMP"},
     target : Destinations \cup {"NONE"}, pinned : SUBSET {"PUBLIC", "BLOCKED"},
     name : Destinations \cup {"NONE"}, early : Nat, ending : BOOLEAN, lane : [Directions -> LaneType]]

\* Types, of what the budgets are counted in.
TypeOK ==
    /\ proxy \in {"CLOSED", "OPEN", "CLOSING", "ABANDONED"}
    /\ conn \in [Connections -> ConnType]
    /\ left \in [Directions -> Nat]
    /\ carried \in [Directions -> Nat]

\* What is written, in hand and left is never more than the grant.
Covered(d) == carried[d] + Cardinality(InHand(d)) + left[d] <= Most[d]
BudgetIsCovered == \A d \in Directions : Covered(d)

\* No lane is used before there is something to carry.
LanesAreFresh ==
    \A c \in Connections : conn[c].st \notin {"EARLY", "PUMP"} => conn[c].lane = [d \in Directions |-> Looping]

\* No connection alone holds more than the grant, so what is in hand is finite.
InHandIsBounded == \A c \in Connections, d \in Directions : TakenBy(c, d) <= Most[d]

\* Each check on the way to a tunnel is behind it.
Checked(c) ==
    /\ conn[c].st \in {"RESOLVING", "HELLO", "DIAL", "EARLY", "PUMP"} =>
         conn[c].target \in Granted \ BlockedNames
    /\ conn[c].st \in {"HELLO", "DIAL", "EARLY", "PUMP"} => conn[c].pinned = {"PUBLIC"}
    /\ conn[c].st \in {"DIAL", "EARLY", "PUMP"} => conn[c].name = conn[c].target
TunnelsAreChecked == \A c \in Connections : Checked(c)

SlotsAreBounded == Cardinality(Tunnels) <= MaxTunnels

IInv ==
    /\ TypeOK /\ LanesAreFresh /\ InHandIsBounded
    /\ BudgetIsCovered /\ TunnelsAreChecked /\ SlotsAreBounded
-----------------------------------------------------------------------------
(* Counting bytes *)

\* The bytes of a function from connections to how many each holds.
Bytes(C, f) == UNION {{e} \X (1..f[e]) : e \in C}

LEMMA BytesElements ==
  ASSUME NEW C, NEW f, NEW p
  PROVE  p \in Bytes(C, f) <=> \E e \in C : \E i \in 1..f[e] : p = <<e, i>>
  BY DEF Bytes

LEMMA BytesAreFinite ==
  ASSUME NEW C, IsFiniteSet(C), NEW m \in Nat, NEW f \in [C -> 0..m]
  PROVE  IsFiniteSet(Bytes(C, f)) /\ Cardinality(Bytes(C, f)) \in Nat
  <1>1. IsFiniteSet(C \X (1..m))
    <2>1. IsFiniteSet(1..m)
      BY FS_Interval
    <2>. QED BY <2>1, FS_Product
  <1>2. Bytes(C, f) \subseteq C \X (1..m)
    BY BytesElements
  <1>. QED BY <1>1, <1>2, FS_Subset, FS_CardinalityType

\* When one connection's bytes change, the sum changes by as much.
LEMMA OneChanges ==
  ASSUME NEW C, IsFiniteSet(C), NEW m \in Nat, NEW f \in [C -> 0..m], NEW g \in [C -> 0..m],
         NEW c \in C, \A e \in C \ {c} : g[e] = f[e]
  PROVE  Cardinality(Bytes(C, g)) + f[c] = Cardinality(Bytes(C, f)) + g[c]
  <1>. DEFINE rest == Bytes(C \ {c}, f)
  <1>1. ASSUME NEW h \in [C -> 0..m], \A e \in C \ {c} : h[e] = f[e]
        PROVE  Cardinality(Bytes(C, h)) = Cardinality(rest) + h[c]
    <2>. DEFINE mine == {c} \X (1..h[c])
    <2>1. Bytes(C, h) = rest \cup mine
      BY <1>1, BytesElements
    <2>2. rest \cap mine = {}
      BY BytesElements
    <2>3. IsFiniteSet(Bytes(C, h))
      BY BytesAreFinite
    <2>4. IsFiniteSet(rest) /\ IsFiniteSet(mine) /\ Cardinality(rest) \in Nat
      BY <2>1, <2>3, FS_Subset, FS_CardinalityType
    <2>5. Cardinality(mine) = h[c]
      <3>1. h[c] \in Nat
        OBVIOUS
      <3>2. IsFiniteSet({c}) /\ Cardinality({c}) = 1
        BY FS_Singleton
      <3>3. IsFiniteSet(1..h[c]) /\ Cardinality(1..h[c]) = h[c]
        BY <3>1, FS_Interval
      <3>4. Cardinality(mine) = Cardinality({c}) * Cardinality(1..h[c])
        BY <3>2, <3>3, FS_Product
      <3>. HIDE DEF mine
      <3>. QED BY <3>1, <3>2, <3>3, <3>4
    <2>6. Cardinality(rest \cup mine) = Cardinality(rest) + Cardinality(mine) - 0
      <3>. HIDE DEF rest, mine
      <3>. QED BY <2>2, <2>4, FS_Union, FS_EmptySet
    <2>. QED BY <2>1, <2>4, <2>5, <2>6
  <1>2. Cardinality(Bytes(C, f)) = Cardinality(rest) + f[c]
    BY <1>1
  <1>3. Cardinality(Bytes(C, g)) = Cardinality(rest) + g[c]
    BY <1>1
  <1>4. Cardinality(rest) \in Nat
    <2>1. rest \subseteq Bytes(C, f)
      BY BytesElements
    <2>. QED BY <2>1, BytesAreFinite, FS_Subset, FS_CardinalityType
  <1>. HIDE DEF rest
  <1>. QED BY <1>2, <1>3, <1>4

\* A step of one connection that takes from a budget what it then holds, and holds less by
\* what it then writes.
LEMMA OneSteps ==
  ASSUME EgressConstants, IInv, TypeOK', NEW c \in Connections,
         \A e \in Connections \ {c} : conn'[e] = conn[e],
         \A d \in Directions :
             /\ TakenBy(c, d)' <= Most[d]
             /\ carried'[d] + TakenBy(c, d)' + left'[d] <= carried[d] + TakenBy(c, d) + left[d]
  PROVE  BudgetIsCovered' /\ InHandIsBounded'
  <1>1. \A e \in Connections \ {c}, d \in Directions : TakenBy(e, d)' = TakenBy(e, d)
    BY DEF TakenBy
  <1>2. \A e \in Connections, d \in Directions : TakenBy(e, d) \in Nat /\ TakenBy(e, d)' \in Nat
    BY DEF IInv, TypeOK, ConnType, LaneType, TakenBy
  <1>3. InHandIsBounded'
    BY <1>1, <1>2 DEF IInv, InHandIsBounded
  <1>4. ASSUME NEW d \in Directions PROVE Covered(d)'
    <2>. DEFINE f == [e \in Connections |-> TakenBy(e, d)]
                g == [e \in Connections |-> TakenBy(e, d)']
    <2>1. Most[d] \in Nat /\ f \in [Connections -> 0..Most[d]] /\ g \in [Connections -> 0..Most[d]]
      BY <1>2, <1>3 DEF IInv, InHandIsBounded, EgressConstants
    <2>2. \A e \in Connections \ {c} : g[e] = f[e]
      BY <1>1
    <2>3. InHand(d) = Bytes(Connections, f)
      BY DEF InHand, Bytes
    <2>4. InHand(d)' = Bytes(Connections, g)
      BY DEF InHand, Bytes
    <2>5. f[c] = TakenBy(c, d) /\ g[c] = TakenBy(c, d)'
      OBVIOUS
    <2>. HIDE DEF f, g
    <2>6. Cardinality(Bytes(Connections, g)) + f[c] = Cardinality(Bytes(Connections, f)) + g[c]
      BY <2>1, <2>2, OneChanges DEF EgressConstants
    <2>7. Cardinality(Bytes(Connections, g)) \in Nat /\ Cardinality(Bytes(Connections, f)) \in Nat
      BY <2>1, BytesAreFinite DEF EgressConstants
    <2>8. /\ carried[d] \in Nat /\ left[d] \in Nat /\ carried'[d] \in Nat /\ left'[d] \in Nat
          /\ f[c] \in Nat /\ g[c] \in Nat
      BY <1>2, <2>5 DEF IInv, TypeOK
    <2>9. carried[d] + Cardinality(Bytes(Connections, f)) + left[d] <= Most[d]
      BY <2>3 DEF IInv, BudgetIsCovered, Covered
    <2>10. carried'[d] + g[c] + left'[d] <= carried[d] + f[c] + left[d]
      BY <2>5
    <2>11. carried'[d] + Cardinality(Bytes(Connections, g)) + left'[d] <= Most[d]
      BY <2>1, <2>6, <2>7, <2>8, <2>9, <2>10
    <2>. QED BY <2>4, <2>11 DEF Covered
  <1>. QED BY <1>3, <1>4 DEF BudgetIsCovered

\* No connection: nothing in hand.
LEMMA NothingInHand ==
  ASSUME NEW d \in Directions, \A c \in Connections : TakenBy(c, d) = 0
  PROVE  InHand(d) = {} /\ Cardinality(InHand(d)) = 0
  <1>1. InHand(d) = {}
    BY DEF InHand
  <1>. QED BY <1>1, FS_EmptySet

-----------------------------------------------------------------------------
(* Slots *)

\* A step that takes no slot keeps within them.
LEMMA NoSlotTaken ==
  ASSUME EgressConstants, IInv, \A c \in Connections : c \in Tunnels' => c \in Tunnels
  PROVE  SlotsAreBounded'
  <1>1. IsFiniteSet(Tunnels)
    BY FS_Subset DEF Tunnels, EgressConstants
  <1>2. Tunnels' \subseteq Tunnels
    BY DEF Tunnels
  <1>3. Cardinality(Tunnels') <= Cardinality(Tunnels) /\ Cardinality(Tunnels') \in Nat
        /\ Cardinality(Tunnels) \in Nat
    BY <1>1, <1>2, FS_Subset, FS_CardinalityType
  <1>. QED BY <1>3 DEF IInv, SlotsAreBounded, EgressConstants

LEMMA SlotTaken ==
  ASSUME EgressConstants, IInv, NEW c \in Connections, Cardinality(Tunnels) < MaxTunnels,
         Tunnels' = Tunnels \cup {c}
  PROVE  SlotsAreBounded'
  <1>1. IsFiniteSet(Tunnels)
    BY FS_Subset DEF Tunnels, EgressConstants
  <1>2. Cardinality(Tunnels) \in Nat
    BY <1>1, FS_CardinalityType
  <1>3. Cardinality(Tunnels') <= Cardinality(Tunnels) + 1 /\ Cardinality(Tunnels') \in Nat
    BY <1>1, <1>2, FS_AddElement
  <1>. QED BY <1>2, <1>3 DEF SlotsAreBounded, EgressConstants
-----------------------------------------------------------------------------
(* Every action preserves the invariant *)

LEMMA NoConnectionType ==
  /\ NoConnection \in ConnType /\ NoConnection.st = "NONE"
  /\ NoConnection.lane = [d \in Directions |-> Looping]
  BY DEF NoConnection, ConnType, LaneType, Looping, Directions

LEMMA InitInv == ASSUME EgressConstants, EgressInit PROVE IInv
  <1>1. \A c \in Connections : conn[c] = NoConnection
    BY DEF EgressInit
  <1>2. TypeOK
    BY NoConnectionType DEF EgressInit, TypeOK, EgressConstants
  <1>3. \A c \in Connections, d \in Directions : TakenBy(c, d) = 0
    BY <1>1, NoConnectionType DEF TakenBy, Looping
  <1>4. LanesAreFresh /\ InHandIsBounded /\ TunnelsAreChecked
    BY <1>1, <1>3, NoConnectionType
       DEF LanesAreFresh, InHandIsBounded, TunnelsAreChecked, Checked, EgressConstants
  <1>5. BudgetIsCovered
    BY <1>3, NothingInHand DEF EgressInit, BudgetIsCovered, Covered, EgressConstants
  <1>6. Tunnels = {}
    BY <1>1, NoConnectionType DEF Tunnels
  <1>7. SlotsAreBounded
    BY <1>6, FS_EmptySet DEF SlotsAreBounded, EgressConstants
  <1>. QED BY <1>2, <1>4, <1>5, <1>7 DEF IInv

\* What a handler in state r has in hand, and what is behind it.
Holds(lane) == IF lane.at \in {"HAND", "WRITING"} THEN lane.n ELSE 0
HeldIn(r, d) == Holds(r.lane[d])
CheckedIn(r) ==
    /\ r.st \in {"RESOLVING", "HELLO", "DIAL", "EARLY", "PUMP"} => r.target \in Granted \ BlockedNames
    /\ r.st \in {"HELLO", "DIAL", "EARLY", "PUMP"} => r.pinned = {"PUBLIC"}
    /\ r.st \in {"DIAL", "EARLY", "PUMP"} => r.name = r.target

\* One connection moves to r: what has to be shown of r.
LEMMA ConnectionMoves ==
  ASSUME EgressConstants, IInv, NEW c \in Connections, NEW r \in ConnType,
         conn' = [conn EXCEPT ![c] = r], UNCHANGED proxy,
         left' \in [Directions -> Nat], carried' \in [Directions -> Nat],
         r.st \notin {"EARLY", "PUMP"} => r.lane = [d \in Directions |-> Looping],
         CheckedIn(r),
         \A d \in Directions :
             /\ HeldIn(r, d) <= Most[d]
             /\ carried'[d] + HeldIn(r, d) + left'[d] <= carried[d] + HeldIn(conn[c], d) + left[d],
         \/ r.st \in {"NONE", "REQUEST"}
         \/ conn[c].st \notin {"NONE", "REQUEST"}
         \/ Cardinality(Tunnels) < MaxTunnels
  PROVE  IInv'
  <1>1. /\ conn'[c] = r /\ \A e \in Connections \ {c} : conn'[e] = conn[e]
        /\ TypeOK'
    BY DEF IInv, TypeOK
  <1>2. \A d \in Directions : TakenBy(c, d)' = HeldIn(r, d) /\ TakenBy(c, d) = HeldIn(conn[c], d)
    BY <1>1 DEF TakenBy, HeldIn, Holds
  <1>3. BudgetIsCovered' /\ InHandIsBounded'
    BY <1>1, <1>2, OneSteps
  <1>4. LanesAreFresh' /\ TunnelsAreChecked'
    BY <1>1 DEF IInv, LanesAreFresh, TunnelsAreChecked, Checked, CheckedIn
  <1>5. SlotsAreBounded'
    <2>1. CASE r.st \in {"NONE", "REQUEST"} \/ conn[c].st \notin {"NONE", "REQUEST"}
      <3>1. \A e \in Connections : e \in Tunnels' => e \in Tunnels
        BY <1>1, <2>1 DEF Tunnels
      <3>. QED BY <3>1, NoSlotTaken
    <2>2. CASE Cardinality(Tunnels) < MaxTunnels /\ r.st \notin {"NONE", "REQUEST"}
      <3>1. Tunnels' = Tunnels \cup {c}
        BY <1>1, <2>2 DEF Tunnels
      <3>. QED BY <2>2, <3>1, SlotTaken
    <2>. QED BY <2>1, <2>2
  <1>. QED BY <1>1, <1>3, <1>4, <1>5 DEF IInv

\* The facts of a connection that its steps need.
LEMMA ConnectionFacts ==
  ASSUME EgressConstants, IInv, NEW c \in Connections
  PROVE  /\ conn[c] \in ConnType
         /\ conn[c].st \notin {"EARLY", "PUMP"} => conn[c].lane = [d \in Directions |-> Looping]
         /\ CheckedIn(conn[c])
         /\ left \in [Directions -> Nat] /\ carried \in [Directions -> Nat]
         /\ Most \in [Directions -> Nat] /\ MaxChunk \in Nat
         /\ \A d \in Directions : left[d] <= Most[d] /\ HeldIn(conn[c], d) <= Most[d]
                                  /\ HeldIn(conn[c], d) \in Nat
  <1>1. /\ conn[c] \in ConnType /\ left \in [Directions -> Nat] /\ carried \in [Directions -> Nat]
        /\ Most \in [Directions -> Nat] /\ MaxChunk \in Nat
    BY DEF IInv, TypeOK, EgressConstants
  <1>2. CheckedIn(conn[c]) /\ (conn[c].st \notin {"EARLY", "PUMP"} => conn[c].lane = [d \in Directions |-> Looping])
    BY DEF IInv, TunnelsAreChecked, Checked, CheckedIn, LanesAreFresh
  <1>3. \A d \in Directions : HeldIn(conn[c], d) <= Most[d] /\ HeldIn(conn[c], d) \in Nat
    BY <1>1 DEF IInv, InHandIsBounded, TakenBy, HeldIn, Holds, ConnType, LaneType
  <1>4. ASSUME NEW d \in Directions PROVE left[d] <= Most[d]
    <2>. DEFINE f == [e \in Connections |-> TakenBy(e, d)]
    <2>1. InHand(d) = Bytes(Connections, f)
      BY DEF InHand, Bytes
    <2>2. f \in [Connections -> 0..Most[d]] /\ Most[d] \in Nat
      BY <1>1 DEF IInv, TypeOK, InHandIsBounded, TakenBy, ConnType, LaneType
    <2>. HIDE DEF f
    <2>3. Cardinality(InHand(d)) \in Nat
      BY <2>1, <2>2, BytesAreFinite DEF EgressConstants
    <2>. QED BY <1>1, <2>2, <2>3 DEF IInv, BudgetIsCovered, Covered
  <1>. QED BY <1>1, <1>2, <1>3, <1>4

\* A step in which no connection has anything taken or written.
LEMMA QuietMove ==
  ASSUME EgressConstants, IInv, NEW c \in Connections, NEW r \in ConnType,
         conn' = [conn EXCEPT ![c] = r], UNCHANGED <<proxy, left, carried>>,
         r.st \notin {"EARLY", "PUMP"} => r.lane = [d \in Directions |-> Looping],
         CheckedIn(r), \A d \in Directions : HeldIn(r, d) = 0 \/ HeldIn(r, d) = HeldIn(conn[c], d),
         \/ r.st \in {"NONE", "REQUEST"}
         \/ conn[c].st \notin {"NONE", "REQUEST"}
         \/ Cardinality(Tunnels) < MaxTunnels
  PROVE  IInv'
  <1>1. \A d \in Directions :
          /\ HeldIn(r, d) <= Most[d]
          /\ carried'[d] + HeldIn(r, d) + left'[d] <= carried[d] + HeldIn(conn[c], d) + left[d]
    BY ConnectionFacts
  <1>2. left' \in [Directions -> Nat] /\ carried' \in [Directions -> Nat]
    BY ConnectionFacts
  <1>. QED BY <1>1, <1>2, ConnectionMoves

LEMMA EndsInv ==
  ASSUME EgressConstants, IInv, NEW c \in Connections, conn' = [conn EXCEPT ![c] = NoConnection],
         UNCHANGED <<proxy, left, carried>>
  PROVE  IInv'
  <1>1. CheckedIn(NoConnection) /\ \A d \in Directions : HeldIn(NoConnection, d) = 0
    BY NoConnectionType DEF CheckedIn, HeldIn, Holds, NoConnection, Looping
  <1>. QED BY <1>1, NoConnectionType, QuietMove

\* Steps of the proxy, and of a resolution nobody waits for.
LEMMA ProxyInv ==
  ASSUME EgressConstants, IInv, UNCHANGED <<conn, left, carried>>,
         proxy' \in {"CLOSED", "OPEN", "CLOSING", "ABANDONED"}
  PROVE  IInv'
  BY DEF IInv, TypeOK, LanesAreFresh, InHandIsBounded, TakenBy, BudgetIsCovered, Covered, InHand,
         TunnelsAreChecked, Checked, SlotsAreBounded, Tunnels

\* Every connection gone: what is written and left still fits the grant.
LEMMA AllGone ==
  ASSUME EgressConstants, proxy' \in {"CLOSED", "OPEN"},
         conn' = [c \in Connections |-> NoConnection],
         left' \in [Directions -> Nat], carried' \in [Directions -> Nat],
         \A d \in Directions : carried'[d] + left'[d] <= Most[d]
  PROVE  IInv'
  <1>1. \A c \in Connections : conn'[c] = NoConnection
    OBVIOUS
  <1>2. TypeOK'
    BY NoConnectionType DEF TypeOK
  <1>3. \A c \in Connections, d \in Directions : TakenBy(c, d)' = 0
    BY <1>1, NoConnectionType DEF TakenBy, Looping
  <1>4. LanesAreFresh' /\ InHandIsBounded' /\ TunnelsAreChecked'
    BY <1>1, <1>3, NoConnectionType
       DEF LanesAreFresh, InHandIsBounded, TunnelsAreChecked, Checked, EgressConstants
  <1>5. ASSUME NEW d \in Directions PROVE Covered(d)'
    <2>1. InHand(d)' = {}
      BY <1>3 DEF InHand
    <2>2. Cardinality(InHand(d)') = 0
      BY <2>1, FS_EmptySet
    <2>. QED BY <2>2 DEF Covered
  <1>6. Tunnels' = {}
    BY <1>1, NoConnectionType DEF Tunnels
  <1>7. SlotsAreBounded'
    BY <1>6, FS_EmptySet DEF SlotsAreBounded, EgressConstants
  <1>. QED BY <1>2, <1>4, <1>5, <1>7 DEF IInv, BudgetIsCovered

LEMMA StartInv == ASSUME EgressConstants, IInv, Start PROVE IInv'
  <1>1. conn' = [c \in Connections |-> NoConnection]
    BY DEF Start, IInv, TypeOK
  <1>2. /\ left' \in [Directions -> Nat] /\ carried' \in [Directions -> Nat]
        /\ \A d \in Directions : carried'[d] + left'[d] <= Most[d]
    BY DEF Start, Fresh, EgressConstants
  <1>. QED BY <1>1, <1>2, AllGone DEF Start

LEMMA BrokerRestartsInv == ASSUME EgressConstants, IInv, BrokerRestarts PROVE IInv'
  <1>1. ASSUME NEW d \in Directions PROVE carried[d] + left[d] <= Most[d]
    <2>. DEFINE f == [e \in Connections |-> TakenBy(e, d)]
    <2>1. InHand(d) = Bytes(Connections, f)
      BY DEF InHand, Bytes
    <2>2. f \in [Connections -> 0..Most[d]] /\ Most[d] \in Nat
      BY DEF IInv, TypeOK, InHandIsBounded, TakenBy, ConnType, LaneType, EgressConstants
    <2>. HIDE DEF f
    <2>3. Cardinality(InHand(d)) \in Nat
      BY <2>1, <2>2, BytesAreFinite DEF EgressConstants
    <2>4. carried[d] \in Nat /\ left[d] \in Nat
      BY DEF IInv, TypeOK
    <2>. QED BY <2>2, <2>3, <2>4 DEF IInv, BudgetIsCovered, Covered
  <1>2. left \in [Directions -> Nat] /\ carried \in [Directions -> Nat]
    BY DEF IInv, TypeOK
  <1>. QED BY <1>1, <1>2, AllGone DEF BrokerRestarts

LEMMA AcceptInv == ASSUME EgressConstants, IInv, NEW c \in Connections, Accept(c) PROVE IInv'
  <1>. DEFINE r == [conn[c] EXCEPT !.st = "REQUEST"]
  <1>1. conn' = [conn EXCEPT ![c] = r] /\ UNCHANGED <<proxy, left, carried>>
    BY DEF Accept, IInv, TypeOK
  <1>2. /\ r \in ConnType /\ r.st = "REQUEST" /\ r.lane = [d \in Directions |-> Looping]
    BY ConnectionFacts DEF Accept, ConnType
  <1>. HIDE DEF r
  <1>3. CheckedIn(r) /\ \A d \in Directions : HeldIn(r, d) = 0
    BY <1>2 DEF CheckedIn, HeldIn, Holds, NoConnection, Looping
  <1>. QED BY <1>1, <1>2, <1>3, QuietMove

LEMMA RequestInv == ASSUME EgressConstants, IInv, NEW c \in Connections, Request(c) PROVE IInv'
  <1>1. PICK target \in Destinations :
          /\ GrantPermits(target) /\ target \notin BlockedNames
          /\ conn' = [conn EXCEPT ![c].st = "RESOLVING", ![c].target = target]
    BY DEF Request
  <1>. DEFINE r == [conn[c] EXCEPT !.st = "RESOLVING", !.target = target]
  <1>2. conn' = [conn EXCEPT ![c] = r] /\ UNCHANGED <<proxy, left, carried>>
    BY <1>1 DEF Request, IInv, TypeOK
  <1>3. /\ r \in ConnType /\ r.st = "RESOLVING" /\ r.target = target
        /\ r.lane = [d \in Directions |-> Looping]
    BY ConnectionFacts DEF Request, ConnType
  <1>. HIDE DEF r
  <1>4. CheckedIn(r) /\ \A d \in Directions : HeldIn(r, d) = 0
    BY <1>1, <1>3 DEF CheckedIn, HeldIn, Holds, Looping, GrantPermits
  <1>5. Cardinality(Tunnels) < MaxTunnels
    BY DEF Request
  <1>. QED BY <1>2, <1>3, <1>4, <1>5, QuietMove

LEMMA ResolvedInv == ASSUME EgressConstants, IInv, NEW c \in Connections, Resolved(c) PROVE IInv'
  <1>1. PICK answer \in SUBSET {"PUBLIC", "BLOCKED"} :
          conn' = [conn EXCEPT ![c] = IF AnswerJudged(answer)
                     THEN [@ EXCEPT !.st = "HELLO", !.pinned = answer] ELSE NoConnection]
    BY DEF Resolved
  <1>2. CASE ~AnswerJudged(answer)
    BY <1>1, <1>2, EndsInv DEF Resolved
  <1>3. CASE AnswerJudged(answer)
    <2>. DEFINE r == [conn[c] EXCEPT !.st = "HELLO", !.pinned = answer]
    <2>1. conn' = [conn EXCEPT ![c] = r] /\ UNCHANGED <<proxy, left, carried>>
      BY <1>1, <1>3 DEF Resolved, IInv, TypeOK
    <2>2. /\ r \in ConnType /\ r.st = "HELLO" /\ r.pinned = answer /\ r.target = conn[c].target
          /\ r.lane = [d \in Directions |-> Looping]
      BY ConnectionFacts DEF Resolved, ConnType
    <2>. HIDE DEF r
    <2>3. answer = {"PUBLIC"} /\ conn[c].st = "RESOLVING"
      BY <1>3 DEF AnswerJudged, Resolved
    <2>4. CheckedIn(r) /\ \A d \in Directions : HeldIn(r, d) = 0
      BY <2>2, <2>3, ConnectionFacts DEF CheckedIn, HeldIn, Holds, NoConnection, Looping
    <2>. QED BY <2>1, <2>2, <2>3, <2>4, QuietMove
  <1>. QED BY <1>2, <1>3

LEMMA HelloInv == ASSUME EgressConstants, IInv, NEW c \in Connections, Hello(c) PROVE IInv'
  <1>1. PICK called \in Destinations, early \in 1..MaxChunk :
          /\ called = conn[c].target
          /\ conn' = [conn EXCEPT ![c].st = "DIAL", ![c].name = called, ![c].early = early]
    BY DEF Hello
  <1>. DEFINE r == [conn[c] EXCEPT !.st = "DIAL", !.name = called, !.early = early]
  <1>2. conn' = [conn EXCEPT ![c] = r] /\ UNCHANGED <<proxy, left, carried>>
    BY <1>1 DEF Hello, IInv, TypeOK
  <1>3. /\ r \in ConnType /\ r.st = "DIAL" /\ r.name = called /\ r.target = conn[c].target
        /\ r.pinned = conn[c].pinned /\ r.lane = [d \in Directions |-> Looping]
    <2>1. early \in Nat
      BY DEF EgressConstants
    <2>2. conn[c] \in ConnType /\ conn[c].lane = [d \in Directions |-> Looping]
      BY ConnectionFacts DEF Hello
    <2>. QED BY <2>1, <2>2 DEF ConnType
  <1>. HIDE DEF r
  <1>4. conn[c].st = "HELLO"
    BY DEF Hello
  <1>5. CheckedIn(r) /\ \A d \in Directions : HeldIn(r, d) = 0
    BY <1>1, <1>3, <1>4, ConnectionFacts DEF CheckedIn, HeldIn, Holds, NoConnection, Looping
  <1>. QED BY <1>2, <1>3, <1>4, <1>5, QuietMove

\* The spending is all or nothing: what is taken from the budget is what is then in hand.
LEMMA DialInv == ASSUME EgressConstants, IInv, NEW c \in Connections, Dial(c) PROVE IInv'
  <1>. DEFINE k == conn[c].early
              hand == [at |-> "HAND", n |-> k, over |-> FALSE]
              r == [conn[c] EXCEPT !.st = "EARLY", !.early = 0,
                                   !.lane = [conn[c].lane EXCEPT !["up"] = hand]]
  <1>0. /\ conn[c].st = "DIAL" /\ conn[c] \in ConnType /\ k \in Nat /\ CheckedIn(conn[c])
        /\ conn[c].lane = [d \in Directions |-> Looping] /\ Directions = {"up", "down"}
    BY ConnectionFacts DEF Dial, ConnType, Directions
  <1>1. conn' = [conn EXCEPT ![c] = r] /\ UNCHANGED <<proxy, carried>>
    BY <1>0 DEF Dial, IInv, TypeOK, ConnType
  <1>2. hand \in LaneType /\ Looping \in LaneType
    BY <1>0 DEF LaneType, Looping
  <1>3. /\ r \in ConnType /\ r.st = "EARLY" /\ r.name = conn[c].name /\ r.target = conn[c].target
        /\ r.pinned = conn[c].pinned
    <2>. HIDE DEF hand
    <2>. QED BY <1>0, <1>2 DEF ConnType
  <1>4. /\ HeldIn(r, "up") = k /\ HeldIn(r, "down") = 0
        /\ HeldIn(conn[c], "up") = 0 /\ HeldIn(conn[c], "down") = 0
    BY <1>0 DEF HeldIn, Holds, ConnType, Looping
  <1>. HIDE DEF r
  <1>5. k <= left["up"] /\ left' = [left EXCEPT !["up"] = @ - k]
    BY DEF Dial, Spend
  <1>. HIDE DEF k
  <1>6. CheckedIn(r)
    BY <1>0, <1>3 DEF CheckedIn
  <1>7. /\ left["up"] \in Nat /\ left["down"] \in Nat /\ carried["up"] \in Nat /\ carried["down"] \in Nat
        /\ left' \in [Directions -> Nat] /\ left'["up"] = left["up"] - k
        /\ left'["down"] = left["down"] /\ carried \in [Directions -> Nat]
        /\ left["up"] <= Most["up"] /\ Most["up"] \in Nat /\ Most["down"] \in Nat
    BY <1>0, <1>5, ConnectionFacts
  <1>8. \A d \in Directions :
          /\ HeldIn(r, d) <= Most[d]
          /\ carried'[d] + HeldIn(r, d) + left'[d] <= carried[d] + HeldIn(conn[c], d) + left[d]
    BY <1>0, <1>1, <1>4, <1>5, <1>7
  <1>. QED BY <1>0, <1>1, <1>3, <1>6, <1>7, <1>8, ConnectionMoves

LEMMA LeastOfTwo ==
  ASSUME NEW m \in Nat, NEW n \in Nat
  PROVE  Min({m, n}) \in Nat /\ Min({m, n}) <= m /\ Min({m, n}) <= n
  <1>1. \E x \in {m, n} : \A y \in {m, n} : x <= y
    OBVIOUS
  <1>. QED BY <1>1 DEF Min

\* What a lane's step does to its connection: it is gone, or the lane is the new one.
LaneStep(c, d, lane, ends) ==
    [conn[c] EXCEPT !.st = IF lane = Looping THEN "PUMP" ELSE conn[c].st,
                    !.lane = [conn[c].lane EXCEPT ![d] = lane],
                    !.ending = conn[c].ending \/ ends]
LEMMA LaneIs ==
  ASSUME EgressConstants, IInv, NEW c \in Connections, NEW d \in Directions, NEW lane \in LaneType,
         NEW ends \in BOOLEAN, LaneCarries(c, d), Lane(c, d, lane, ends)
  PROVE  /\ conn' = [conn EXCEPT ![c] = NoConnection] \/ conn' = [conn EXCEPT ![c] = LaneStep(c, d, lane, ends)]
         /\ conn[c].st \in {"EARLY", "PUMP"}
  <1>1. conn \in [Connections -> ConnType] /\ conn[c] \in ConnType
    BY DEF IInv, TypeOK
  <1>2. conn[c].lane \in [Directions -> LaneType]
    BY <1>1 DEF ConnType
  <1>3. conn[c].st \in {"EARLY", "PUMP"}
    BY DEF LaneCarries
  <1>4. CASE conn[c].st = "EARLY" /\ ends
    BY <1>1, <1>3, <1>4 DEF Lane
  <1>5. CASE ~(conn[c].st = "EARLY" /\ ends)
    <2>1. conn' = [conn EXCEPT ![c] = Moved(conn[c], d, lane, ends)]
      BY <1>1, <1>5 DEF Lane
    <2>2. Moved(conn[c], d, lane, ends) = LaneStep(c, d, lane, ends)
      BY <1>1, <1>2 DEF LaneStep, Moved, ConnType
    <2>. QED BY <1>3, <2>1, <2>2
  <1>. QED BY <1>4, <1>5

\* A step of one lane.
LEMMA LaneMoves ==
  ASSUME EgressConstants, IInv, NEW c \in Connections, NEW d \in Directions, NEW lane \in LaneType,
         NEW ends \in BOOLEAN, LaneCarries(c, d), Lane(c, d, lane, ends), UNCHANGED proxy,
         left' \in [Directions -> Nat], carried' \in [Directions -> Nat],
         \A e \in Directions \ {d} : left'[e] = left[e] /\ carried'[e] = carried[e],
         Holds(lane) <= Most[d],
         carried'[d] + Holds(lane) + left'[d] <= carried[d] + Holds(conn[c].lane[d]) + left[d]
  PROVE  IInv'
  <1>1. /\ conn[c] \in ConnType /\ conn[c].lane \in [Directions -> LaneType]
        /\ conn[c].ending \in BOOLEAN /\ CheckedIn(conn[c]) /\ Most \in [Directions -> Nat]
        /\ left \in [Directions -> Nat] /\ carried \in [Directions -> Nat]
        /\ \A e \in Directions : HeldIn(conn[c], e) <= Most[e] /\ HeldIn(conn[c], e) \in Nat
    BY ConnectionFacts DEF ConnType
  <1>2. Holds(lane) \in Nat
    BY DEF Holds, LaneType
  <1>3. conn[c].st \in {"EARLY", "PUMP"}
    BY LaneIs
  <1>4. CASE conn' = [conn EXCEPT ![c] = NoConnection]
    <2>1. CheckedIn(NoConnection) /\ \A e \in Directions : HeldIn(NoConnection, e) = 0
      BY NoConnectionType DEF CheckedIn, HeldIn, Holds, NoConnection, Looping
    <2>2. carried'[d] + 0 + left'[d] <= carried[d] + HeldIn(conn[c], d) + left[d]
      <3>1. HeldIn(conn[c], d) = Holds(conn[c].lane[d])
        BY DEF HeldIn
      <3>. QED BY <1>1, <1>2, <3>1
    <2>3. \A e \in Directions :
            /\ HeldIn(NoConnection, e) <= Most[e]
            /\ carried'[e] + HeldIn(NoConnection, e) + left'[e] <= carried[e] + HeldIn(conn[c], e) + left[e]
      BY <1>1, <2>1, <2>2
    <2>. QED BY <1>4, <2>1, <2>3, NoConnectionType, ConnectionMoves
  <1>5. CASE conn' = [conn EXCEPT ![c] = LaneStep(c, d, lane, ends)]
    <2>. DEFINE r == LaneStep(c, d, lane, ends)
    <2>1. /\ r \in ConnType /\ r.st \in {"EARLY", "PUMP"} /\ r.lane[d] = lane /\ r.name = conn[c].name
          /\ r.target = conn[c].target /\ r.pinned = conn[c].pinned
          /\ \A e \in Directions \ {d} : r.lane[e] = conn[c].lane[e]
      BY <1>1, <1>3 DEF ConnType, LaneStep
    <2>. HIDE DEF r
    <2>2. CheckedIn(r)
      BY <1>1, <1>3, <2>1 DEF CheckedIn
    <2>3. /\ HeldIn(r, d) = Holds(lane) /\ HeldIn(conn[c], d) = Holds(conn[c].lane[d])
          /\ \A e \in Directions \ {d} : HeldIn(r, e) = HeldIn(conn[c], e)
      BY <2>1 DEF HeldIn
    <2>4. ASSUME NEW e \in Directions \ {d}
          PROVE  /\ HeldIn(r, e) <= Most[e]
                 /\ carried'[e] + HeldIn(r, e) + left'[e] <= carried[e] + HeldIn(conn[c], e) + left[e]
      BY <1>1, <2>3
    <2>5. \A e \in Directions :
            /\ HeldIn(r, e) <= Most[e]
            /\ carried'[e] + HeldIn(r, e) + left'[e] <= carried[e] + HeldIn(conn[c], e) + left[e]
      BY <2>3, <2>4
    <2>6. conn' = [conn EXCEPT ![c] = r]
      BY <1>5 DEF r
    <2>. QED BY <1>3, <2>1, <2>2, <2>5, <2>6, ConnectionMoves
  <1>. QED BY <1>4, <1>5, LaneIs

\* What a lane's step starts from.
LEMMA LaneFacts ==
  ASSUME EgressConstants, IInv, NEW c \in Connections, NEW d \in Directions
  PROVE  /\ conn[c].lane[d] \in LaneType /\ conn[c].lane[d].n \in Nat
         /\ conn[c].lane[d].over \in BOOLEAN
         /\ left \in [Directions -> Nat] /\ carried \in [Directions -> Nat]
         /\ left[d] \in Nat /\ carried[d] \in Nat /\ Most[d] \in Nat /\ MaxChunk \in Nat
         /\ left[d] <= Most[d] /\ Holds(conn[c].lane[d]) \in Nat /\ Holds(conn[c].lane[d]) <= Most[d]
         /\ Looping \in LaneType /\ Returned \in LaneType
         /\ Holds(Looping) = 0 /\ Holds(Returned) = 0
  <1>1. /\ conn[c] \in ConnType /\ left \in [Directions -> Nat] /\ carried \in [Directions -> Nat]
        /\ Most \in [Directions -> Nat] /\ MaxChunk \in Nat /\ left[d] <= Most[d]
        /\ Holds(conn[c].lane[d]) \in Nat /\ Holds(conn[c].lane[d]) <= Most[d]
    BY ConnectionFacts DEF HeldIn
  <1>2. conn[c].lane[d] \in LaneType
    BY <1>1 DEF ConnType
  <1>3. conn[c].lane[d].n \in Nat /\ conn[c].lane[d].over \in BOOLEAN
    BY <1>2 DEF LaneType
  <1>4. /\ Looping \in LaneType /\ Returned \in LaneType
        /\ Holds(Looping) = 0 /\ Holds(Returned) = 0
    BY DEF LaneType, Looping, Returned, Holds
  <1>. QED BY <1>1, <1>2, <1>3, <1>4

\* A lane that takes nothing and writes nothing: it holds nothing then, or what it held.
LEMMA QuietLane ==
  ASSUME EgressConstants, IInv, NEW c \in Connections, NEW d \in Directions, NEW lane \in LaneType,
         NEW ends \in BOOLEAN, LaneCarries(c, d), Lane(c, d, lane, ends), UNCHANGED <<proxy, left, carried>>,
         Holds(lane) = 0 \/ Holds(lane) = Holds(conn[c].lane[d])
  PROVE  IInv'
  <1>1. /\ Holds(lane) <= Most[d]
        /\ carried'[d] + Holds(lane) + left'[d] <= carried[d] + Holds(conn[c].lane[d]) + left[d]
        /\ left' \in [Directions -> Nat] /\ carried' \in [Directions -> Nat]
    BY LaneFacts
  <1>. QED BY <1>1, LaneMoves

LEMMA WatchInv ==
  ASSUME EgressConstants, IInv, NEW c \in Connections, NEW d \in Directions, Watch(c, d) PROVE IInv'
  <1>. DEFINE room == Min({left[d] + 1, MaxChunk})
              lane == [at |-> "READING", n |-> room, over |-> FALSE]
  <1>1. room \in Nat
    <2>1. left[d] + 1 \in Nat /\ MaxChunk \in Nat
      BY LaneFacts
    <2>. QED BY <2>1, LeastOfTwo
  <1>2. LaneCarries(c, d) /\ Lane(c, d, lane, FALSE) /\ UNCHANGED <<proxy, left, carried>>
    BY DEF Watch, IsAt
  <1>. HIDE DEF room
  <1>3. lane \in LaneType /\ Holds(lane) = 0
    BY <1>1 DEF LaneType, Holds
  <1>. HIDE DEF lane
  <1>. QED BY <1>2, <1>3, QuietLane

LEMMA ReadInv ==
  ASSUME EgressConstants, IInv, NEW c \in Connections, NEW d \in Directions, Read(c, d) PROVE IInv'
  <1>1. LaneCarries(c, d) /\ UNCHANGED <<proxy, left, carried>>
    BY DEF Read, IsAt
  <1>2. CASE Lane(c, d, Looping, FALSE)
    BY <1>1, <1>2, LaneFacts, QuietLane
  <1>3. ASSUME NEW n \in 1..conn[c].lane[d].n,
               Lane(c, d, [at |-> "READ", n |-> n, over |-> FALSE], FALSE)
        PROVE  IInv'
    <2>. DEFINE lane == [at |-> "READ", n |-> n, over |-> FALSE]
    <2>1. n \in Nat
      BY LaneFacts
    <2>2. lane \in LaneType /\ Holds(lane) = 0 /\ Lane(c, d, lane, FALSE)
      BY <1>3, <2>1 DEF LaneType, Holds
    <2>. HIDE DEF lane
    <2>. QED BY <1>1, <2>2, QuietLane
  <1>. QED BY <1>2, <1>3 DEF Read

LEMMA ReturnInv ==
  ASSUME EgressConstants, IInv, NEW c \in Connections, NEW d \in Directions, Return(c, d) PROVE IInv'
  <1>1. PICK ends \in BOOLEAN : Lane(c, d, Returned, ends)
    BY DEF Return
  <1>2. LaneCarries(c, d) /\ UNCHANGED <<proxy, left, carried>>
    BY DEF Return
  <1>. QED BY <1>1, <1>2, LaneFacts, QuietLane

\* As much as is left is taken, and is in hand.
LEMMA TakeInv ==
  ASSUME EgressConstants, IInv, NEW c \in Connections, NEW d \in Directions, Take(c, d) PROVE IInv'
  <1>. DEFINE n == conn[c].lane[d].n
              allowed == Min({left[d], n})
              hand == [at |-> "HAND", n |-> allowed, over |-> allowed < n]
              lane == IF allowed = 0 THEN Returned ELSE hand
              ends == allowed = 0
  <1>1. /\ LaneCarries(c, d) /\ conn[c].lane[d].at = "READ" /\ UNCHANGED <<proxy, carried>>
        /\ left' = [left EXCEPT ![d] = @ - allowed] /\ Lane(c, d, lane, ends)
    BY DEF Take, IsAt
  <1>2. allowed \in Nat /\ allowed <= left[d]
    BY LeastOfTwo, LaneFacts
  <1>. HIDE DEF allowed
  <1>3. hand \in LaneType /\ Holds(hand) = allowed
    BY <1>2 DEF LaneType, Holds
  <1>. HIDE DEF hand
  <1>4. lane \in LaneType /\ Holds(lane) = allowed /\ ends \in BOOLEAN
    BY <1>3, LaneFacts
  <1>. HIDE DEF lane, ends
  <1>5. /\ left' \in [Directions -> Nat] /\ left'[d] = left[d] - allowed
        /\ \A e \in Directions \ {d} : left'[e] = left[e]
    BY <1>1, <1>2, LaneFacts
  <1>6. Holds(conn[c].lane[d]) = 0
    BY <1>1 DEF Holds
  <1>7. carried'[d] + Holds(lane) + left'[d] <= carried[d] + Holds(conn[c].lane[d]) + left[d]
    BY <1>1, <1>2, <1>4, <1>5, <1>6, LaneFacts
  <1>8. Holds(lane) <= Most[d]
    BY <1>2, <1>4, LaneFacts
  <1>. QED BY <1>1, <1>4, <1>5, <1>7, <1>8, LaneFacts, LaneMoves

LEMMA LookInv ==
  ASSUME EgressConstants, IInv, NEW c \in Connections, NEW d \in Directions, Look(c, d) PROVE IInv'
  <1>1. LaneCarries(c, d) /\ conn[c].lane[d].at = "HAND" /\ UNCHANGED <<proxy, left, carried>>
    BY DEF Look, IsAt
  <1>2. CASE Lane(c, d, Returned, TRUE)
    BY <1>1, <1>2, LaneFacts, QuietLane
  <1>3. CASE Lane(c, d, [conn[c].lane[d] EXCEPT !.at = "WRITING"], FALSE)
    <2>. DEFINE lane == [conn[c].lane[d] EXCEPT !.at = "WRITING"]
    <2>1. conn[c].lane[d] \in LaneType
      BY LaneFacts
    <2>2. lane \in LaneType /\ Holds(lane) = Holds(conn[c].lane[d])
      BY <1>1, <2>1 DEF LaneType, Holds
    <2>3. Lane(c, d, lane, FALSE)
      BY <1>3
    <2>. HIDE DEF lane
    <2>. QED BY <1>1, <2>2, <2>3, QuietLane
  <1>. QED BY <1>2, <1>3 DEF Look

\* The lane a write of so many bytes leaves, and whether it ended the tunnel.
After(lane, written) ==
    IF written < lane.n THEN [lane EXCEPT !.at = "HAND", !.n = lane.n - written]
    ELSE IF lane.over THEN Returned ELSE Looping
LEMMA AfterIs ==
  ASSUME NEW lane \in LaneType, NEW written \in 0..lane.n
  PROVE  /\ After(lane, written) \in LaneType
         /\ Holds(After(lane, written)) <= lane.n - written
         /\ After(lane, written).at # "WRITING"
  <1>1. lane.n \in Nat /\ lane.over \in BOOLEAN
    BY DEF LaneType
  <1>2. CASE written < lane.n
    <2>1. lane.n - written \in Nat
      BY <1>1, <1>2
    <2>2. After(lane, written) = [lane EXCEPT !.at = "HAND", !.n = lane.n - written]
      BY <1>2 DEF After
    <2>3. ASSUME NEW m \in Nat
          PROVE  /\ [lane EXCEPT !.at = "HAND", !.n = m] \in LaneType
                 /\ [lane EXCEPT !.at = "HAND", !.n = m].at = "HAND"
                 /\ [lane EXCEPT !.at = "HAND", !.n = m].n = m
      BY DEF LaneType
    <2>4. /\ After(lane, written) \in LaneType /\ After(lane, written).at = "HAND"
          /\ After(lane, written).n = lane.n - written
      BY <2>1, <2>2, <2>3
    <2>. QED BY <2>1, <2>4 DEF Holds
  <1>3. CASE written = lane.n
    <2>1. After(lane, written) \in {Returned, Looping}
      BY <1>1, <1>3 DEF After
    <2>2. Looping \in LaneType /\ Holds(Looping) = 0 /\ Looping.at # "WRITING"
      BY DEF Looping, Holds, LaneType
    <2>3. Returned \in LaneType /\ Holds(Returned) = 0 /\ Returned.at # "WRITING"
      BY DEF Looping, Returned, Holds, LaneType
    <2>. QED BY <1>1, <1>3, <2>1, <2>2, <2>3
  <1>. QED BY <1>1, <1>2, <1>3

LEMMA WriteSteps ==
  ASSUME EgressConstants, IInv, NEW c \in Connections, NEW d \in Directions, Write(c, d)
  PROVE  /\ LaneCarries(c, d) /\ conn[c].lane[d].at = "WRITING" /\ UNCHANGED <<proxy, left>>
         /\ \/ carried' = carried /\ Lane(c, d, Returned, TRUE)
            \/ \E written \in 0..conn[c].lane[d].n, ends \in BOOLEAN :
                 /\ carried' = [carried EXCEPT ![d] = @ + written]
                 /\ Lane(c, d, After(conn[c].lane[d], written), ends)
                 /\ After(conn[c].lane[d], written) \in LaneType
                 /\ Holds(After(conn[c].lane[d], written)) <= conn[c].lane[d].n - written
                 /\ After(conn[c].lane[d], written).at # "WRITING"
  <1>. DEFINE lane == conn[c].lane[d]
  <1>1. LaneCarries(c, d) /\ lane.at = "WRITING" /\ UNCHANGED <<proxy, left>>
    BY DEF Write, IsAt
  <1>2. lane \in LaneType /\ lane.n \in Nat /\ lane.over \in BOOLEAN
    BY LaneFacts
  <1>3. ASSUME NEW written \in 0..lane.n
        PROVE  /\ After(lane, written) \in LaneType
               /\ Holds(After(lane, written)) <= lane.n - written
               /\ After(lane, written).at # "WRITING"
    BY <1>2, AfterIs
  <1>4. ASSUME NEW written \in 0..lane.n, carried' = [carried EXCEPT ![d] = @ + written],
               IF written < lane.n
               THEN Lane(c, d, [lane EXCEPT !.at = "HAND", !.n = @ - written], FALSE)
               ELSE Lane(c, d, IF lane.over THEN Returned ELSE Looping, lane.over)
        PROVE  \E ends \in BOOLEAN : Lane(c, d, After(lane, written), ends)
    <2>. HIDE DEF lane
    <2>1. CASE written < lane.n
      BY <1>4, <2>1 DEF After
    <2>2. CASE ~(written < lane.n)
      BY <1>2, <1>4, <2>2 DEF After
    <2>. QED BY <2>1, <2>2
  <1>5. \/ carried' = carried /\ Lane(c, d, Returned, TRUE)
        \/ \E written \in 0..lane.n :
             /\ carried' = [carried EXCEPT ![d] = @ + written]
             /\ IF written < lane.n
                THEN Lane(c, d, [lane EXCEPT !.at = "HAND", !.n = @ - written], FALSE)
                ELSE Lane(c, d, IF lane.over THEN Returned ELSE Looping, lane.over)
    BY DEF Write
  <1>. HIDE DEF lane
  <1>6. \/ carried' = carried /\ Lane(c, d, Returned, TRUE)
        \/ \E written \in 0..lane.n, ends \in BOOLEAN :
             /\ carried' = [carried EXCEPT ![d] = @ + written]
             /\ Lane(c, d, After(lane, written), ends)
             /\ After(lane, written) \in LaneType
             /\ Holds(After(lane, written)) <= lane.n - written
             /\ After(lane, written).at # "WRITING"
    BY <1>3, <1>4, <1>5
  <1>. QED BY <1>1, <1>6 DEF lane

LEMMA WriteInv ==
  ASSUME EgressConstants, IInv, NEW c \in Connections, NEW d \in Directions, Write(c, d) PROVE IInv'
  <1>1. LaneCarries(c, d) /\ conn[c].lane[d].at = "WRITING" /\ UNCHANGED <<proxy, left>>
    BY WriteSteps
  <1>2. CASE carried' = carried /\ Lane(c, d, Returned, TRUE)
    BY <1>1, <1>2, LaneFacts, QuietLane
  <1>3. ASSUME NEW written \in 0..conn[c].lane[d].n, NEW ends \in BOOLEAN, NEW lane \in LaneType,
               carried' = [carried EXCEPT ![d] = @ + written], Lane(c, d, lane, ends),
               Holds(lane) <= conn[c].lane[d].n - written
        PROVE  IInv'
    <2>. DEFINE n == conn[c].lane[d].n
    <2>1. n \in Nat /\ written \in Nat /\ written <= n /\ Holds(conn[c].lane[d]) = n
      BY <1>1, LaneFacts DEF Holds
    <2>2. n <= Most[d]
      BY <2>1, LaneFacts
    <2>. HIDE DEF n
    <2>3. Holds(lane) \in Nat /\ Holds(lane) <= n - written
      BY <1>3 DEF Holds, LaneType, n
    <2>4. /\ carried' \in [Directions -> Nat] /\ carried'[d] = carried[d] + written
          /\ \A e \in Directions \ {d} : carried'[e] = carried[e]
      BY <1>3, <2>1, LaneFacts
    <2>5. carried'[d] + Holds(lane) + left'[d] <= carried[d] + Holds(conn[c].lane[d]) + left[d]
      BY <1>1, <2>1, <2>3, <2>4, LaneFacts
    <2>6. Holds(lane) <= Most[d]
      BY <2>1, <2>2, <2>3, LaneFacts
    <2>. QED BY <1>1, <1>3, <2>4, <2>5, <2>6, LaneFacts, LaneMoves
  <1>4. CASE ~(carried' = carried /\ Lane(c, d, Returned, TRUE))
    <2>1. PICK written \in 0..conn[c].lane[d].n, ends \in BOOLEAN :
            /\ carried' = [carried EXCEPT ![d] = @ + written]
            /\ Lane(c, d, After(conn[c].lane[d], written), ends)
            /\ After(conn[c].lane[d], written) \in LaneType
            /\ Holds(After(conn[c].lane[d], written)) <= conn[c].lane[d].n - written
      BY <1>4, WriteSteps
    <2>. QED BY <1>3, <2>1
  <1>. QED BY <1>2, <1>4

-----------------------------------------------------------------------------
(* Theorems *)

LEMMA NextInv == ASSUME EgressConstants, IInv, [EgressNext]_egressVars PROVE IInv'
  <1>1. CASE UNCHANGED egressVars
    BY <1>1, ProxyInv DEF egressVars, IInv, TypeOK
  <1>2. CASE Start \/ BrokerRestarts
    BY <1>2, StartInv, BrokerRestartsInv
  <1>3. CASE Close \/ CloseDone \/ LastHandlerGone \/ LateResolution
    <2>1. UNCHANGED <<conn, left, carried>>
      BY <1>3 DEF Close, CloseDone, LastHandlerGone, LateResolution
    <2>2. proxy' \in {"CLOSED", "OPEN", "CLOSING", "ABANDONED"}
      BY <1>3 DEF Close, CloseDone, LastHandlerGone, LateResolution, IInv, TypeOK
    <2>. QED BY <2>1, <2>2, ProxyInv
  <1>4. ASSUME NEW c \in Connections, Ends(c) \/ Served(c) PROVE IInv'
    BY <1>4, EndsInv DEF Ends, Served
  <1>5. ASSUME NEW c \in Connections,
               Accept(c) \/ Request(c) \/ Resolved(c) \/ Hello(c) \/ Dial(c)
        PROVE  IInv'
    BY <1>5, AcceptInv, RequestInv, ResolvedInv, HelloInv, DialInv
  <1>6. ASSUME NEW c \in Connections, NEW d \in Directions,
               \/ Watch(c, d) \/ Read(c, d) \/ Return(c, d) \/ Take(c, d)
               \/ Look(c, d) \/ Write(c, d)
        PROVE  IInv'
    BY <1>6, WatchInv, ReadInv, ReturnInv, TakeInv, LookInv, WriteInv
  <1>. QED BY <1>1, <1>2, <1>3, <1>4, <1>5, <1>6 DEF EgressNext

\* The inductive invariant holds of every behaviour of the proxy (tunnel.rs, proxy.rs).
THEOREM InductiveInvariant == ASSUME EgressConstants PROVE EgressSpec => []IInv
  <1>1. EgressInit => IInv
    BY InitInv
  <1>2. IInv /\ [EgressNext]_egressVars => IInv'
    BY NextInv
  <1>. QED BY <1>1, <1>2, PTL DEF EgressSpec

\* For every grant and any number of connections, what is written, in hand and left of an
\* environment's budget never exceeds it; a tunnel that carries has passed every check on its
\* way; and there are no more of them than the grant allows (connection, carry and Budget in
\* tunnel.rs).
THEOREM BudgetIsKept == ASSUME EgressConstants PROVE EgressSpec => []BudgetHoldsAtTheSocket
  <1>1. IInv => BudgetHoldsAtTheSocket
    BY DEF IInv, BudgetIsCovered, Covered, TunnelsAreChecked, Checked, SlotsAreBounded,
           BudgetHoldsAtTheSocket
  <1>. QED BY <1>1, InductiveInvariant, PTL

\* What is written and what writes that have looked still hold does not grow.
NoWriteBegins ==
    \A d \in Directions :
        carried'[d] + Cardinality(InWrite(d)') <= carried[d] + Cardinality(InWrite(d))

\* What is in a write is in hand, so it is counted as what is in hand is.
LEMMA WritesAreFinite ==
  ASSUME EgressConstants, IInv, NEW d \in Directions
  PROVE  /\ [e \in Connections |-> WritingBy(e, d)] \in [Connections -> 0..Most[d]] /\ Most[d] \in Nat
         /\ InWrite(d) = Bytes(Connections, [e \in Connections |-> WritingBy(e, d)])
         /\ Cardinality(InWrite(d)) \in Nat /\ carried[d] \in Nat
  <1>. DEFINE f == [e \in Connections |-> WritingBy(e, d)]
  <1>1. ASSUME NEW e \in Connections PROVE WritingBy(e, d) \in 0..Most[d]
    <2>1. conn[e].lane[d].n \in Nat /\ Holds(conn[e].lane[d]) <= Most[d] /\ Most[d] \in Nat
      BY LaneFacts
    <2>. QED BY <2>1 DEF WritingBy, Holds
  <1>2. Most[d] \in Nat
    BY DEF EgressConstants
  <1>3. f \in [Connections -> 0..Most[d]]
    BY <1>1
  <1>4. InWrite(d) = Bytes(Connections, f)
    BY DEF InWrite, Bytes
  <1>5. Cardinality(Bytes(Connections, f)) \in Nat
    <2>. HIDE DEF f
    <2>. QED BY <1>2, <1>3, BytesAreFinite DEF EgressConstants
  <1>. QED BY <1>2, <1>3, <1>4, <1>5 DEF IInv, TypeOK

\* One connection steps.
LEMMA OneWrites ==
  ASSUME EgressConstants, IInv, IInv', NEW c \in Connections,
         \A e \in Connections \ {c} : conn'[e] = conn[e],
         \A d \in Directions : carried'[d] + WritingBy(c, d)' <= carried[d] + WritingBy(c, d)
  PROVE  NoWriteBegins
  <1>. SUFFICES ASSUME NEW d \in Directions
                PROVE  carried'[d] + Cardinality(InWrite(d)') <= carried[d] + Cardinality(InWrite(d))
    BY DEF NoWriteBegins
  <1>. DEFINE f == [e \in Connections |-> WritingBy(e, d)]
              g == [e \in Connections |-> WritingBy(e, d)']
  <1>1. /\ f \in [Connections -> 0..Most[d]] /\ Most[d] \in Nat
        /\ InWrite(d) = Bytes(Connections, f) /\ Cardinality(InWrite(d)) \in Nat /\ carried[d] \in Nat
    BY WritesAreFinite
  <1>2. ASSUME NEW e \in Connections PROVE WritingBy(e, d)' \in 0..Most[d]
    <2>1. conn'[e] \in ConnType /\ TakenBy(e, d)' <= Most[d]
      BY DEF IInv, TypeOK, InHandIsBounded
    <2>2. conn'[e].lane[d] \in LaneType
      BY <2>1 DEF ConnType
    <2>. QED BY <1>1, <2>1, <2>2 DEF WritingBy, TakenBy, LaneType
  <1>3. g \in [Connections -> 0..Most[d]]
    BY <1>2
  <1>4. InWrite(d)' = Bytes(Connections, g)
    BY DEF InWrite, Bytes
  <1>5. \A e \in Connections \ {c} : g[e] = f[e]
    BY DEF WritingBy
  <1>6. f[c] = WritingBy(c, d) /\ g[c] = WritingBy(c, d)'
    OBVIOUS
  <1>. HIDE DEF f, g
  <1>7. Cardinality(Bytes(Connections, g)) + f[c] = Cardinality(Bytes(Connections, f)) + g[c]
    BY <1>1, <1>3, <1>5, OneChanges DEF EgressConstants
  <1>8. Cardinality(Bytes(Connections, g)) \in Nat
    BY <1>1, <1>3, BytesAreFinite DEF EgressConstants
  <1>9. f[c] \in Nat /\ g[c] \in Nat /\ carried'[d] \in Nat
    BY <1>1, <1>3 DEF IInv, TypeOK
  <1>. QED BY <1>1, <1>4, <1>6, <1>7, <1>8, <1>9

\* One connection is gone or has nothing in a write that it had not.
LEMMA NoneWrites ==
  ASSUME EgressConstants, IInv, IInv', NEW c \in Connections, UNCHANGED carried,
         \A e \in Connections \ {c} : conn'[e] = conn[e],
         \A d \in Directions : conn'[c].lane[d].at # "WRITING" \/ conn'[c].lane[d] = conn[c].lane[d]
  PROVE  NoWriteBegins
  <1>1. ASSUME NEW d \in Directions PROVE carried'[d] + WritingBy(c, d)' <= carried[d] + WritingBy(c, d)
    <2>1. conn[c].lane[d].n \in Nat /\ carried[d] \in Nat
      BY LaneFacts
    <2>. QED BY <2>1 DEF WritingBy
  <1>. QED BY <1>1, OneWrites

\* What a lane's step leaves of the lanes.
LEMMA LaneLeaves ==
  ASSUME EgressConstants, IInv, NEW c \in Connections, NEW d \in Directions, NEW lane \in LaneType,
         NEW ends \in BOOLEAN, LaneCarries(c, d), Lane(c, d, lane, ends)
  PROVE  /\ \A e \in Connections \ {c} : conn'[e] = conn[e]
         /\ conn'[c].lane[d] = lane \/ conn'[c].lane[d] = Looping
         /\ \A e \in Directions \ {d} :
              conn'[c].lane[e].at # "WRITING" \/ conn'[c].lane[e] = conn[c].lane[e]
  <1>1. conn \in [Connections -> ConnType] /\ conn[c] \in ConnType
    BY DEF IInv, TypeOK
  <1>2. CASE conn' = [conn EXCEPT ![c] = NoConnection]
    <2>1. conn'[c] = NoConnection /\ \A e \in Connections \ {c} : conn'[e] = conn[e]
      BY <1>1, <1>2
    <2>2. \A e \in Directions : conn'[c].lane[e] = Looping
      BY <2>1, NoConnectionType
    <2>3. Looping.at # "WRITING"
      BY DEF Looping
    <2>. QED BY <2>1, <2>2, <2>3
  <1>3. CASE conn' = [conn EXCEPT ![c] = LaneStep(c, d, lane, ends)]
    <2>1. conn'[c] = LaneStep(c, d, lane, ends) /\ \A e \in Connections \ {c} : conn'[e] = conn[e]
      BY <1>1, <1>3
    <2>2. conn[c].lane \in [Directions -> LaneType]
      BY <1>1 DEF ConnType
    <2>3. conn'[c].lane = [conn[c].lane EXCEPT ![d] = lane]
      BY <1>1, <2>1 DEF LaneStep, ConnType
    <2>. QED BY <2>1, <2>2, <2>3
  <1>. QED BY <1>2, <1>3, LaneIs

\* A lane's step that writes nothing and begins no write.
LEMMA LaneBegins ==
  ASSUME EgressConstants, IInv, IInv', NEW c \in Connections, NEW d \in Directions,
         NEW lane \in LaneType, NEW ends \in BOOLEAN, LaneCarries(c, d), Lane(c, d, lane, ends),
         lane.at # "WRITING", UNCHANGED carried
  PROVE  NoWriteBegins
  <1>1. Looping.at # "WRITING"
    BY DEF Looping
  <1>2. \A e \in Directions : conn'[c].lane[e].at # "WRITING" \/ conn'[c].lane[e] = conn[c].lane[e]
    BY <1>1, LaneLeaves
  <1>. QED BY <1>2, LaneLeaves, NoneWrites

LEMMA WriteGoesOn ==
  ASSUME EgressConstants, IInv, IInv', NEW c \in Connections, NEW d \in Directions, Write(c, d)
  PROVE  NoWriteBegins
  <1>1. LaneCarries(c, d) /\ conn[c].lane[d].at = "WRITING"
    BY WriteSteps
  <1>2. Returned \in LaneType /\ Returned.at # "WRITING" /\ Looping.at # "WRITING"
    BY LaneFacts DEF Returned, Looping
  <1>3. CASE carried' = carried /\ Lane(c, d, Returned, TRUE)
    BY <1>1, <1>2, <1>3, LaneBegins
  <1>4. ASSUME NEW written \in 0..conn[c].lane[d].n, NEW ends \in BOOLEAN, NEW lane \in LaneType,
               carried' = [carried EXCEPT ![d] = @ + written], Lane(c, d, lane, ends),
               lane.at # "WRITING"
        PROVE  NoWriteBegins
    <2>1. \A e \in Directions :
            /\ conn[c].lane[e].n \in Nat /\ carried[e] \in Nat /\ carried \in [Directions -> Nat]
      BY LaneFacts
    <2>2. /\ \A e \in Connections \ {c} : conn'[e] = conn[e]
          /\ conn'[c].lane[d].at # "WRITING"
          /\ \A e \in Directions \ {d} :
               conn'[c].lane[e].at # "WRITING" \/ conn'[c].lane[e] = conn[c].lane[e]
      BY <1>1, <1>2, <1>4, LaneLeaves
    <2>3. carried'[d] + WritingBy(c, d)' <= carried[d] + WritingBy(c, d)
      BY <1>1, <1>4, <2>1, <2>2 DEF WritingBy
    <2>4. ASSUME NEW e \in Directions \ {d}
          PROVE  carried'[e] + WritingBy(c, e)' <= carried[e] + WritingBy(c, e)
      BY <1>4, <2>1, <2>2 DEF WritingBy
    <2>5. \A e \in Directions : carried'[e] + WritingBy(c, e)' <= carried[e] + WritingBy(c, e)
      BY <2>3, <2>4
    <2>. QED BY <2>2, <2>5, OneWrites
  <1>5. CASE ~(carried' = carried /\ Lane(c, d, Returned, TRUE))
    <2>1. PICK written \in 0..conn[c].lane[d].n, ends \in BOOLEAN :
            /\ carried' = [carried EXCEPT ![d] = @ + written]
            /\ Lane(c, d, After(conn[c].lane[d], written), ends)
            /\ After(conn[c].lane[d], written) \in LaneType
            /\ Holds(After(conn[c].lane[d], written)) <= conn[c].lane[d].n - written
            /\ After(conn[c].lane[d], written).at # "WRITING"
      BY <1>5, WriteSteps
    <2>. QED BY <1>4, <2>1
  <1>. QED BY <1>3, <1>5

\* From the step that tells an environment's proxy to close, for any number of tunnels, no write
\* begins: the bytes written from then on are at most those of the writes that had already
\* looked at closing (expired in tunnel.rs, before every write; close in proxy.rs).
THEOREM ClosingStopsTheBytes == ASSUME EgressConstants PROVE EgressSpec => ClosedStartsNoWrite
  <1>1. ASSUME IInv, IInv', [EgressNext]_egressVars, Told PROVE NoWriteBegins
    <2>0. conn \in [Connections -> ConnType]
      BY <1>1 DEF IInv, TypeOK
    <2>1. CASE UNCHANGED <<conn, carried>>
      <3>1. ASSUME NEW d \in Directions
            PROVE  carried'[d] + Cardinality(InWrite(d)') <= carried[d] + Cardinality(InWrite(d))
        <4>1. InWrite(d)' = InWrite(d) /\ carried'[d] = carried[d]
          BY <2>1 DEF InWrite, WritingBy
        <4>2. carried[d] \in Nat /\ Cardinality(InWrite(d)) \in Nat
          BY <1>1, WritesAreFinite
        <4>. QED BY <4>1, <4>2
      <3>. QED BY <3>1 DEF NoWriteBegins
    <2>2. CASE BrokerRestarts
      <3>1. ASSUME NEW d \in Directions
            PROVE  carried'[d] + Cardinality(InWrite(d)') <= carried[d] + Cardinality(InWrite(d))
        <4>1. \A c \in Connections : WritingBy(c, d)' = 0
          BY <2>2, NoConnectionType DEF BrokerRestarts, WritingBy, Looping
        <4>2. InWrite(d)' = {}
          BY <4>1 DEF InWrite
        <4>3. Cardinality(InWrite(d)') = 0 /\ carried'[d] = carried[d]
          BY <2>2, <4>2, FS_EmptySet DEF BrokerRestarts
        <4>4. carried[d] \in Nat /\ Cardinality(InWrite(d)) \in Nat
          BY <1>1, WritesAreFinite
        <4>. QED BY <4>3, <4>4
      <3>. QED BY <3>1 DEF NoWriteBegins
    <2>3. ASSUME NEW c \in Connections,
                 Ends(c) \/ Served(c) \/ Accept(c) \/ Request(c) \/ Resolved(c) \/ Hello(c)
          PROVE  NoWriteBegins
      <3>1. UNCHANGED carried /\ \A e \in Connections \ {c} : conn'[e] = conn[e]
        BY <2>0, <2>3 DEF Ends, Served, Accept, Request, Resolved, Hello
      <3>2. conn'[c].st \notin {"EARLY", "PUMP"}
        <4>1. CASE Ends(c) \/ Served(c)
          BY <2>0, <4>1, NoConnectionType DEF Ends, Served
        <4>2. CASE Accept(c)
          BY <2>0, <4>2 DEF Accept, ConnType
        <4>4. CASE Request(c)
          BY <2>0, <4>4 DEF Request, ConnType
        <4>5. CASE Hello(c)
          <5>1. PICK called \in Destinations, early \in 1..MaxChunk :
                  conn' = [conn EXCEPT ![c].st = "DIAL", ![c].name = called, ![c].early = early]
            BY <4>5 DEF Hello
          <5>. QED BY <2>0, <5>1 DEF ConnType
        <4>3. CASE Resolved(c)
          <5>1. PICK answer \in SUBSET {"PUBLIC", "BLOCKED"} :
                  conn' = [conn EXCEPT ![c] = IF AnswerJudged(answer)
                             THEN [@ EXCEPT !.st = "HELLO", !.pinned = answer] ELSE NoConnection]
            BY <4>3 DEF Resolved
          <5>. QED BY <2>0, <5>1, NoConnectionType DEF ConnType
        <4>. QED BY <2>3, <4>1, <4>2, <4>3, <4>4, <4>5
      <3>3. conn'[c].lane = [d \in Directions |-> Looping]
        BY <1>1, <3>2 DEF IInv, LanesAreFresh
      <3>. QED BY <1>1, <3>1, <3>3, NoneWrites DEF Looping
    <2>4. ASSUME NEW c \in Connections, Dial(c) PROVE NoWriteBegins
      <3>1. UNCHANGED carried /\ \A e \in Connections \ {c} : conn'[e] = conn[e]
        BY <2>0, <2>4 DEF Dial
      <3>2. /\ conn[c] \in ConnType /\ conn[c].lane = [d \in Directions |-> Looping]
        BY <1>1, <2>4, ConnectionFacts DEF Dial
      <3>3. \A d \in Directions : conn'[c].lane[d].at # "WRITING"
        BY <2>0, <2>4, <3>2 DEF Dial, ConnType, Looping, Directions
      <3>. QED BY <1>1, <3>1, <3>3, NoneWrites
    <2>5. ASSUME NEW c \in Connections, NEW d \in Directions,
                 Watch(c, d) \/ Read(c, d) \/ Return(c, d) \/ Take(c, d) \/ Look(c, d)
          PROVE  NoWriteBegins
      <3>1. UNCHANGED carried /\ LaneCarries(c, d)
        BY <2>5 DEF Watch, Read, Return, Take, Look, IsAt
      <3>2. \E lane \in LaneType, ends \in BOOLEAN : Lane(c, d, lane, ends) /\ lane.at # "WRITING"
        <4>0. Returned \in LaneType /\ Looping \in LaneType /\ Returned.at # "WRITING" /\ Looping.at # "WRITING"
          BY <1>1, LaneFacts DEF Returned, Looping
        <4>1. CASE Watch(c, d)
          BY <1>1, <4>1 DEF Watch, Told
        <4>2. CASE Read(c, d)
          <5>1. ASSUME NEW n \in 1..conn[c].lane[d].n
                PROVE  [at |-> "READ", n |-> n, over |-> FALSE] \in LaneType
            BY <1>1, LaneFacts DEF LaneType
          <5>. QED BY <4>0, <4>2, <5>1 DEF Read
        <4>3. CASE Return(c, d)
          BY <4>0, <4>3 DEF Return
        <4>4. CASE Take(c, d)
          <5>. DEFINE n == conn[c].lane[d].n
                      allowed == Min({left[d], n})
                      hand == [at |-> "HAND", n |-> allowed, over |-> allowed < n]
          <5>1. allowed \in Nat
            BY <1>1, LeastOfTwo, LaneFacts
          <5>2. hand \in LaneType
            <6>. HIDE DEF allowed
            <6>. QED BY <5>1 DEF LaneType
          <5>. QED BY <4>0, <4>4, <5>2 DEF Take
        <4>5. CASE Look(c, d)
          BY <1>1, <4>0, <4>5 DEF Look, MayGoOn
        <4>. QED BY <2>5, <4>1, <4>2, <4>3, <4>4, <4>5
      <3>. QED BY <1>1, <3>1, <3>2, LaneBegins
    <2>6. ASSUME NEW c \in Connections, NEW d \in Directions, Write(c, d) PROVE NoWriteBegins
      BY <1>1, <2>6, WriteGoesOn
    <2>7. CASE UNCHANGED egressVars \/ Close \/ CloseDone \/ LastHandlerGone \/ LateResolution
      BY <2>1, <2>7 DEF egressVars, Close, CloseDone, LastHandlerGone, LateResolution
    <2>8. ~Start
      BY <1>1 DEF Start, Told
    <2>. QED BY <1>1, <2>2, <2>3, <2>4, <2>5, <2>6, <2>7, <2>8 DEF EgressNext
  <1>2. IInv /\ IInv' /\ [EgressNext]_egressVars => [Told => NoWriteBegins]_egressVars
    BY <1>1
  <1>. QED BY <1>2, InductiveInvariant, PTL DEF EgressSpec, ClosedStartsNoWrite, NoWriteBegins

-----------------------------------------------------------------------------
(* The private channel: the inductive invariant *)

\* A connection, of what the exchanges compare.
IsLink(c) ==
    /\ c = [st |-> c.st, channel |-> c.channel, sent |-> c.sent, fds |-> c.fds,
            answer |-> c.answer, done |-> c.done]
    /\ c.st \in {"NONE", "QUEUED", "GREETED", "CLOSED"}
    /\ c.sent \in {"NOTHING", "SOME", "ALL"}
    /\ c.answer \in {"NONE", "REFUSED", "DONE", "INDETERMINATE"}
ChannelTypeOK ==
    /\ order \in [Turns -> Ordered]
    /\ wire = [i \in Turns |-> wire[i]] /\ \A i \in Turns : IsLink(wire[i])
    /\ listener \in [up : BOOLEAN, gen : Nat \ {0}, issued : Nat, at : Turns \cup {0},
                   phase : {"ACCEPT", "RECEIVE", "PERFORMED"}]
    /\ effects \subseteq Turns
    /\ recorded \in [Turns -> {"OPEN", "COMPLETED", "FAILED", "UNKNOWN"}]

\* The broker serves a connection once: one it is at, or was at, has its channel; it has an
\* effect only when everything was sent, and its answer tells whether it had.
ServedOnce(i) ==
    /\ wire[i].st = "NONE" => wire[i].sent = "NOTHING" /\ wire[i].channel = NoChannel
    /\ wire[i].channel = NoChannel => listener.at # i /\ wire[i].answer = "NONE" /\ i \notin effects
    /\ i \in effects => wire[i].sent = "ALL"
    /\ wire[i].answer = "DONE" => i \in effects /\ wire[i].done \in Done(order[i])
    /\ wire[i].answer = "REFUSED" => i \notin effects
    /\ wire[i].answer # "NONE" => listener.at # i
BrokerIsInStep ==
    /\ listener.at = 0 <=> listener.phase = "ACCEPT"
    /\ listener.phase = "RECEIVE" => listener.at \notin effects
    /\ listener.phase = "PERFORMED" => listener.at \in effects

\* What is recorded as failed never left whole, or was refused.
RecordIsFinal(i) ==
    /\ recorded[i] = "FAILED" => i \notin effects /\ (wire[i].sent # "ALL" \/ wire[i].answer = "REFUSED")
    /\ recorded[i] = "COMPLETED" => i \in effects

ChannelInv ==
    ChannelTypeOK /\ BrokerIsInStep /\ \A i \in Turns : ServedOnce(i) /\ RecordIsFinal(i)

LEMMA ChannelInitInv == ASSUME ChannelConstants, ChannelInit PROVE ChannelInv
  <1>1. /\ Unopened.st = "NONE" /\ Unopened.channel = NoChannel /\ Unopened.sent = "NOTHING"
        /\ Unopened.answer = "NONE" /\ IsLink(Unopened)
    BY DEF Unopened, IsLink
  <1>2. /\ \A i \in Turns : wire[i] = Unopened /\ recorded[i] = "OPEN"
        /\ effects = {} /\ listener.at = 0 /\ listener.phase = "ACCEPT"
    BY DEF ChannelInit
  <1>3. ChannelTypeOK
    <2>1. listener \in [up : BOOLEAN, gen : Nat \ {0}, issued : Nat, at : Turns \cup {0},
                      phase : {"ACCEPT", "RECEIVE", "PERFORMED"}]
      BY DEF ChannelInit
    <2>. QED BY <1>1, <1>2, <2>1 DEF ChannelTypeOK, ChannelInit
  <1>4. \A i \in Turns : 0 # i
    BY DEF ChannelConstants
  <1>5. \A i \in Turns : ServedOnce(i) /\ RecordIsFinal(i)
    BY <1>1, <1>2, <1>4 DEF ServedOnce, RecordIsFinal
  <1>. QED BY <1>2, <1>3, <1>5 DEF ChannelInv, BrokerIsInStep

\* A step of one exchange that leaves the broker alone.
LEMMA LinkMoves ==
  ASSUME ChannelInv, NEW i \in Turns, NEW c, NEW result, IsLink(c),
         wire' = [wire EXCEPT ![i] = c], recorded' = [recorded EXCEPT ![i] = result],
         UNCHANGED <<order, listener, effects>>,
         result \in {"OPEN", "COMPLETED", "FAILED", "UNKNOWN"},
         c.st = "NONE" => c.sent = "NOTHING" /\ c.channel = NoChannel,
         c.channel = wire[i].channel, c.answer = wire[i].answer,
         c.answer = "DONE" => c.done = wire[i].done,
         i \in effects => c.sent = "ALL",
         result = "FAILED" => i \notin effects /\ (c.sent # "ALL" \/ c.answer = "REFUSED"),
         result = "COMPLETED" => i \in effects
  PROVE  ChannelInv'
  <1>0. ChannelTypeOK /\ BrokerIsInStep /\ \A j \in Turns : ServedOnce(j) /\ RecordIsFinal(j)
    BY DEF ChannelInv
  <1>1. /\ wire'[i] = c /\ recorded'[i] = result
        /\ \A j \in Turns : j # i => wire'[j] = wire[j] /\ recorded'[j] = recorded[j]
        /\ wire' = [j \in Turns |-> wire'[j]]
    BY <1>0 DEF ChannelTypeOK
  <1>2. ChannelTypeOK'
    BY <1>0, <1>1 DEF ChannelTypeOK
  <1>3. ServedOnce(i)'
    BY <1>0, <1>1 DEF ServedOnce
  <1>4. \A j \in Turns : j # i => ServedOnce(j)'
    BY <1>0, <1>1 DEF ServedOnce
  <1>5. \A j \in Turns : RecordIsFinal(j)'
    BY <1>0, <1>1 DEF RecordIsFinal
  <1>6. BrokerIsInStep'
    BY <1>0 DEF BrokerIsInStep
  <1>. QED BY <1>2, <1>3, <1>4, <1>5, <1>6 DEF ChannelInv

\* An exchange ended with a result that is true.
LEMMA EndInv ==
  ASSUME ChannelInv, NEW i \in Turns, NEW result, End(i, result), UNCHANGED <<order, listener, effects>>,
         result \in {"COMPLETED", "FAILED", "UNKNOWN"},
         result = "FAILED" => i \notin effects /\ (wire[i].sent # "ALL" \/ wire[i].answer = "REFUSED"),
         result = "COMPLETED" => i \in effects
  PROVE  ChannelInv'
  <1>0. IsLink(wire[i]) /\ ServedOnce(i) /\ wire = [j \in Turns |-> wire[j]]
    BY DEF ChannelInv, ChannelTypeOK
  <1>1. PICK c : c = [wire[i] EXCEPT !.st = IF wire[i].st = "NONE" THEN "NONE" ELSE "CLOSED"]
    OBVIOUS
  <1>2. wire' = [wire EXCEPT ![i] = c] /\ recorded' = [recorded EXCEPT ![i] = result]
    BY <1>0, <1>1 DEF End
  <1>3. /\ c.channel = wire[i].channel /\ c.answer = wire[i].answer /\ c.done = wire[i].done
        /\ c.sent = wire[i].sent /\ c.st = (IF wire[i].st = "NONE" THEN "NONE" ELSE "CLOSED")
    BY <1>0, <1>1 DEF IsLink
  <1>4. IsLink(c)
    BY <1>0, <1>1, <1>3 DEF IsLink
  <1>5. c.st = "NONE" => c.sent = "NOTHING" /\ c.channel = NoChannel
    BY <1>0, <1>3 DEF ServedOnce
  <1>6. i \in effects => c.sent = "ALL"
    BY <1>0, <1>3 DEF ServedOnce
  <1>. QED BY <1>2, <1>3, <1>4, <1>5, <1>6, LinkMoves

\* What the authority does: it connects, sends, and ends with what it knows.
LEMMA AuthorityInv ==
  ASSUME ChannelConstants, ChannelInv, NEW i \in Turns, Authority(i) PROVE ChannelInv'
  <1>0. /\ IsLink(wire[i]) /\ ServedOnce(i) /\ RecordIsFinal(i) /\ wire = [j \in Turns |-> wire[j]]
        /\ recorded \in [Turns -> {"OPEN", "COMPLETED", "FAILED", "UNKNOWN"}]
    BY DEF ChannelInv, ChannelTypeOK
  <1>1. CASE Unreachable(i)
    <2>1. End(i, "FAILED") /\ UNCHANGED <<order, listener, effects>> /\ wire[i].st = "NONE"
      BY <1>1 DEF Unreachable, Concludes
    <2>2. i \notin effects /\ wire[i].sent # "ALL"
      BY <1>0, <2>1 DEF ServedOnce
    <2>. QED BY <2>1, <2>2, EndInv
  <1>2. CASE Reach(i)
    <2>1. PICK c : c = Open(i)
      OBVIOUS
    <2>2. /\ wire[i].st = "NONE" /\ recorded[i] = "OPEN" /\ wire' = [wire EXCEPT ![i] = c]
          /\ UNCHANGED <<order, listener, effects, recorded>>
      BY <1>2, <2>1 DEF Reach, Turn
    <2>3. recorded' = [recorded EXCEPT ![i] = "OPEN"]
      BY <1>0, <2>2
    <2>4. c = [st |-> "QUEUED", channel |-> NoChannel, sent |-> "NOTHING", fds |-> 0,
               answer |-> "NONE", done |-> [op |-> "NONE"]]
      BY <2>1 DEF Open, Unopened
    <2>5. wire[i].channel = NoChannel /\ wire[i].answer = "NONE" /\ i \notin effects
      BY <1>0, <2>2 DEF ServedOnce
    <2>6. IsLink(c) /\ c.st = "QUEUED"
      BY <2>4 DEF IsLink
    <2>. QED BY <2>2, <2>3, <2>4, <2>5, <2>6, LinkMoves
  <1>3. CASE Unencodable(i)
    <2>1. End(i, "FAILED") /\ UNCHANGED <<order, listener, effects>> /\ wire[i].sent = "NOTHING"
      BY <1>3 DEF Unencodable, Concludes
    <2>2. i \notin effects
      BY <1>0, <2>1 DEF ServedOnce
    <2>. QED BY <2>1, <2>2, EndInv
  <1>4. CASE SendWithDescriptors(i)
    <2>1. PICK part \in {"SOME", "ALL"} :
            wire' = [wire EXCEPT ![i].sent = part, ![i].fds = Len(Descriptors(order[i]))]
      BY <1>4 DEF SendWithDescriptors
    <2>2. PICK c, n : /\ n = Len(Descriptors(order[i]))
                      /\ c = [wire[i] EXCEPT !.sent = part, !.fds = n]
      OBVIOUS
    <2>3. /\ recorded[i] = "OPEN" /\ wire[i].st = "GREETED" /\ wire[i].sent = "NOTHING"
          /\ UNCHANGED <<order, listener, effects, recorded>>
      BY <1>4 DEF SendWithDescriptors, Turn
    <2>4. wire' = [wire EXCEPT ![i] = c] /\ recorded' = [recorded EXCEPT ![i] = "OPEN"]
      BY <1>0, <2>1, <2>2, <2>3
    <2>5. /\ c.channel = wire[i].channel /\ c.answer = wire[i].answer /\ c.done = wire[i].done
          /\ c.st = "GREETED"
      BY <1>0, <2>2, <2>3 DEF IsLink
    <2>6. IsLink(c)
      BY <1>0, <2>2, <2>3 DEF IsLink
    <2>7. i \notin effects
      BY <1>0, <2>3 DEF ServedOnce
    <2>. QED BY <2>3, <2>4, <2>5, <2>6, <2>7, LinkMoves
  <1>5. CASE SendFails(i)
    BY <1>5, EndInv DEF SendFails, Concludes
  <1>6. CASE ReadOutcome(i)
    <2>1. /\ wire[i].answer # "NONE" /\ wire[i].sent = "ALL" /\ UNCHANGED <<order, listener, effects>>
      BY <1>6 DEF ReadOutcome
    <2>2. PICK result \in {"COMPLETED", "FAILED", "UNKNOWN"} :
            /\ End(i, result) /\ (result = "FAILED" => wire[i].answer = "REFUSED")
            /\ result = "COMPLETED" => wire[i].answer = "DONE"
      BY <1>0, <1>6 DEF ReadOutcome, Concludes, IsLink
    <2>. QED BY <1>0, <2>1, <2>2, EndInv DEF ServedOnce
  <1>7. CASE Deadline(i)
    <2>1. End(i, Concludes(wire[i].sent, "UNREACHABLE")) /\ UNCHANGED <<order, listener, effects>>
      BY <1>7 DEF Deadline
    <2>2. CASE wire[i].sent = "NOTHING"
      <3>1. End(i, "FAILED") /\ i \notin effects
        BY <1>0, <2>1, <2>2 DEF ServedOnce, Concludes
      <3>. QED BY <2>1, <2>2, <3>1, EndInv
    <2>3. CASE wire[i].sent # "NOTHING"
      BY <2>1, <2>3, EndInv DEF Concludes
    <2>. QED BY <2>2, <2>3
  <1>. QED BY <1>1, <1>2, <1>3, <1>4, <1>5, <1>6, <1>7 DEF Authority

LEMMA GreetInv == ASSUME ChannelConstants, ChannelInv, Greet PROVE ChannelInv'
  <1>0. ChannelTypeOK /\ BrokerIsInStep /\ \A j \in Turns : ServedOnce(j) /\ RecordIsFinal(j)
    BY DEF ChannelInv
  <1>1. PICK i \in Waiting :
          /\ listener.at = 0
          /\ listener' = [listener EXCEPT !.at = i, !.issued = @ + 1, !.phase = "RECEIVE"]
          /\ wire' = [wire EXCEPT ![i].channel = <<listener.gen, listener.issued + 1>>,
                                  ![i].st = IF @ = "QUEUED" THEN "GREETED" ELSE @]
          /\ UNCHANGED <<order, effects, recorded>>
    BY DEF Greet
  <1>2. i \in Turns /\ i # 0 /\ wire[i].st \in {"QUEUED", "CLOSED"} /\ wire[i].channel = NoChannel
    BY <1>1 DEF Waiting, ChannelConstants
  <1>3. PICK ch, st : /\ ch = <<listener.gen, listener.issued + 1>>
                      /\ st = IF wire[i].st = "QUEUED" THEN "GREETED" ELSE wire[i].st
    OBVIOUS
  <1>4. ch # NoChannel /\ st \in {"GREETED", "CLOSED"}
    BY <1>0, <1>2, <1>3 DEF NoChannel, ChannelTypeOK
  <1>5. PICK c : c = [wire[i] EXCEPT !.channel = ch, !.st = st]
    OBVIOUS
  <1>6. IsLink(wire[i]) /\ wire'[i] = c /\ (\A j \in Turns : j # i => wire'[j] = wire[j])
        /\ wire' = [j \in Turns |-> wire'[j]]
    BY <1>0, <1>1, <1>2, <1>3, <1>5 DEF ChannelTypeOK
  <1>7. /\ c.channel = ch /\ c.st = st /\ c.sent = wire[i].sent /\ c.answer = wire[i].answer
        /\ c.done = wire[i].done /\ IsLink(c)
    BY <1>4, <1>5, <1>6 DEF IsLink
  <1>8. listener'.at = i /\ listener'.phase = "RECEIVE"
    BY <1>0, <1>1 DEF ChannelTypeOK
  <1>9. wire[i].answer = "NONE" /\ i \notin effects
    BY <1>0, <1>2 DEF ServedOnce
  <1>10. ChannelTypeOK'
    <2>1. listener' \in [up : BOOLEAN, gen : Nat \ {0}, issued : Nat, at : Turns \cup {0},
                       phase : {"ACCEPT", "RECEIVE", "PERFORMED"}]
      <3>1. listener.issued + 1 \in Nat
        BY <1>0 DEF ChannelTypeOK
      <3>2. PICK n : n = listener.issued + 1
        OBVIOUS
      <3>3. listener' = [listener EXCEPT !.at = i, !.issued = n, !.phase = "RECEIVE"]
        BY <1>1, <3>2
      <3>. QED BY <1>0, <1>2, <3>1, <3>2, <3>3 DEF ChannelTypeOK
    <2>2. \A j \in Turns : IsLink(wire[j])'
      BY <1>0, <1>6, <1>7 DEF ChannelTypeOK
    <2>. QED BY <1>0, <1>1, <1>6, <2>1, <2>2 DEF ChannelTypeOK
  <1>11. BrokerIsInStep'
    BY <1>1, <1>2, <1>8, <1>9 DEF BrokerIsInStep
  <1>12. ServedOnce(i)'
    BY <1>0, <1>1, <1>2, <1>4, <1>6, <1>7, <1>9 DEF ServedOnce
  <1>13. \A j \in Turns : j # i => ServedOnce(j)'
    BY <1>0, <1>1, <1>6, <1>8 DEF ServedOnce
  <1>14. \A j \in Turns : RecordIsFinal(j)'
    <2>1. RecordIsFinal(i)'
      BY <1>0, <1>1, <1>2, <1>6, <1>7 DEF RecordIsFinal
    <2>2. \A j \in Turns : j # i => RecordIsFinal(j)'
      BY <1>0, <1>1, <1>6 DEF RecordIsFinal
    <2>. QED BY <2>1, <2>2
  <1>. QED BY <1>10, <1>11, <1>12, <1>13, <1>14 DEF ChannelInv

LEMMA ReceiveFailsInv == ASSUME ChannelConstants, ChannelInv, ReceiveFails PROVE ChannelInv'
  <1>0. ChannelTypeOK /\ BrokerIsInStep /\ \A j \in Turns : ServedOnce(j) /\ RecordIsFinal(j)
    BY DEF ChannelInv
  <1>1. /\ listener' = [listener EXCEPT !.at = 0, !.phase = "ACCEPT"]
        /\ UNCHANGED <<order, wire, effects, recorded>>
    BY DEF ReceiveFails
  <1>2. /\ listener' \in [up : BOOLEAN, gen : Nat \ {0}, issued : Nat, at : Turns \cup {0},
                        phase : {"ACCEPT", "RECEIVE", "PERFORMED"}]
        /\ listener'.at = 0 /\ listener'.phase = "ACCEPT"
    BY <1>0, <1>1 DEF ChannelTypeOK
  <1>3. \A j \in Turns : j # 0
    BY DEF ChannelConstants
  <1>4. ChannelTypeOK'
    BY <1>0, <1>1, <1>2 DEF ChannelTypeOK
  <1>5. \A j \in Turns : ServedOnce(j)'
    BY <1>0, <1>1, <1>2, <1>3 DEF ServedOnce
  <1>6. \A j \in Turns : RecordIsFinal(j)'
    BY <1>0, <1>1 DEF RecordIsFinal
  <1>. QED BY <1>2, <1>4, <1>5, <1>6 DEF ChannelInv, BrokerIsInStep

\* The broker answers the turn it is at, and its answer says whether there was an effect.
LEMMA AnswerInv ==
  ASSUME ChannelConstants, ChannelInv, NEW a \in {"REFUSED", "DONE", "INDETERMINATE"}, NEW d,
         Outcome(a, d), UNCHANGED <<order, effects, recorded>>, listener.phase # "ACCEPT",
         a = "REFUSED" => listener.phase = "RECEIVE",
         a = "DONE" => listener.phase = "PERFORMED" /\ d \in Done(order[listener.at])
  PROVE  ChannelInv'
  <1>0. ChannelTypeOK /\ BrokerIsInStep /\ \A j \in Turns : ServedOnce(j) /\ RecordIsFinal(j)
    BY DEF ChannelInv
  <1>1. PICK i : i = listener.at
    OBVIOUS
  <1>2. i \in Turns /\ i # 0
    BY <1>0, <1>1 DEF ChannelTypeOK, BrokerIsInStep
  <1>3. PICK c : c = [wire[i] EXCEPT !.answer = a, !.done = d]
    OBVIOUS
  <1>4. /\ IsLink(wire[i]) /\ wire'[i] = c /\ \A j \in Turns : j # i => wire'[j] = wire[j]
        /\ wire' = [j \in Turns |-> wire'[j]]
    BY <1>0, <1>1, <1>2, <1>3 DEF ChannelTypeOK, Outcome
  <1>5. /\ c.channel = wire[i].channel /\ c.st = wire[i].st /\ c.sent = wire[i].sent
        /\ c.answer = a /\ c.done = d /\ IsLink(c)
    BY <1>3, <1>4 DEF IsLink
  <1>6. /\ listener' \in [up : BOOLEAN, gen : Nat \ {0}, issued : Nat, at : Turns \cup {0},
                        phase : {"ACCEPT", "RECEIVE", "PERFORMED"}]
        /\ listener'.at = 0 /\ listener'.phase = "ACCEPT"
    BY <1>0 DEF ChannelTypeOK, Outcome
  <1>7. \A j \in Turns : j # 0
    BY DEF ChannelConstants
  <1>8. /\ wire[i].channel # NoChannel /\ wire[i].answer = "NONE"
        /\ a = "REFUSED" => i \notin effects
        /\ a = "DONE" => i \in effects
    BY <1>0, <1>1, <1>2 DEF ServedOnce, BrokerIsInStep
  <1>9. ChannelTypeOK'
    <2>1. \A j \in Turns : IsLink(wire[j])'
      BY <1>0, <1>4, <1>5 DEF ChannelTypeOK
    <2>. QED BY <1>0, <1>4, <1>6, <2>1 DEF ChannelTypeOK
  <1>10. ServedOnce(i)'
    BY <1>0, <1>1, <1>2, <1>4, <1>5, <1>6, <1>8 DEF ServedOnce
  <1>11. \A j \in Turns : j # i => ServedOnce(j)'
    BY <1>0, <1>4, <1>6, <1>7 DEF ServedOnce
  <1>12. RecordIsFinal(i)'
    BY <1>0, <1>2, <1>4, <1>5, <1>8 DEF RecordIsFinal
  <1>13. \A j \in Turns : j # i => RecordIsFinal(j)'
    BY <1>0, <1>4 DEF RecordIsFinal
  <1>. QED BY <1>6, <1>9, <1>10, <1>11, <1>12, <1>13 DEF ChannelInv, BrokerIsInStep

\* The operation is performed: the turn's answer is open, and it is not recorded as failed, since
\* all of it was sent.
LEMMA PerformInv == ASSUME ChannelConstants, ChannelInv, PerformOrder PROVE ChannelInv'
  <1>0. ChannelTypeOK /\ BrokerIsInStep /\ \A j \in Turns : ServedOnce(j) /\ RecordIsFinal(j)
    BY DEF ChannelInv
  <1>1. PICK i : i = listener.at
    OBVIOUS
  <1>2. /\ listener.phase = "RECEIVE" /\ wire[i].sent = "ALL" /\ effects' = effects \cup {i}
        /\ listener' = [listener EXCEPT !.phase = "PERFORMED"] /\ UNCHANGED <<order, wire, recorded>>
    BY <1>1 DEF PerformOrder, At
  <1>3. i \in Turns
    BY <1>0, <1>1, <1>2 DEF ChannelTypeOK, BrokerIsInStep
  <1>4. i # 0
    BY <1>3 DEF ChannelConstants
  <1>5. /\ listener' \in [up : BOOLEAN, gen : Nat \ {0}, issued : Nat, at : Turns \cup {0},
                        phase : {"ACCEPT", "RECEIVE", "PERFORMED"}]
        /\ listener'.at = i /\ listener'.phase = "PERFORMED"
    BY <1>0, <1>1, <1>2 DEF ChannelTypeOK
  <1>6. wire[i].channel # NoChannel /\ wire[i].answer = "NONE"
    BY <1>0, <1>1, <1>3 DEF ServedOnce
  <1>7. ChannelTypeOK'
    BY <1>0, <1>2, <1>3, <1>5 DEF ChannelTypeOK
  <1>8. BrokerIsInStep'
    BY <1>2, <1>4, <1>5 DEF BrokerIsInStep
  <1>9. ServedOnce(i)'
    BY <1>0, <1>2, <1>3, <1>6 DEF ServedOnce
  <1>10. \A j \in Turns : j # i => ServedOnce(j)'
    BY <1>0, <1>2, <1>5 DEF ServedOnce
  <1>11. RecordIsFinal(i)'
    BY <1>0, <1>2, <1>3, <1>6 DEF RecordIsFinal
  <1>12. \A j \in Turns : j # i => RecordIsFinal(j)'
    BY <1>0, <1>2 DEF RecordIsFinal
  <1>. QED BY <1>7, <1>8, <1>9, <1>10, <1>11, <1>12 DEF ChannelInv

LEMMA BrokerDiesInv == ASSUME ChannelConstants, ChannelInv, ListenerDies PROVE ChannelInv'
  <1>0. ChannelTypeOK /\ BrokerIsInStep /\ \A j \in Turns : ServedOnce(j) /\ RecordIsFinal(j)
    BY DEF ChannelInv
  <1>1. PICK ch : ch = <<listener.gen, 0>>
    OBVIOUS
  <1>2. /\ listener' = [listener EXCEPT !.up = FALSE, !.at = 0, !.phase = "ACCEPT"]
        /\ wire' = [j \in Turns |->
                      IF wire[j].channel = NoChannel /\ wire[j].st # "NONE"
                      THEN [wire[j] EXCEPT !.channel = ch] ELSE wire[j]]
        /\ UNCHANGED <<order, effects, recorded>>
    BY <1>1 DEF ListenerDies
  <1>3. ch # NoChannel
    BY <1>0, <1>1 DEF NoChannel, ChannelTypeOK
  <1>4. /\ listener' \in [up : BOOLEAN, gen : Nat \ {0}, issued : Nat, at : Turns \cup {0},
                        phase : {"ACCEPT", "RECEIVE", "PERFORMED"}]
        /\ listener'.at = 0 /\ listener'.phase = "ACCEPT"
    BY <1>0, <1>2 DEF ChannelTypeOK
  <1>5. \A j \in Turns : j # 0
    BY DEF ChannelConstants
  <1>6. ASSUME NEW j \in Turns
        PROVE  /\ IsLink(wire[j])' /\ wire'[j].st = wire[j].st /\ wire'[j].sent = wire[j].sent
               /\ wire'[j].answer = wire[j].answer /\ wire'[j].done = wire[j].done
               /\ wire'[j].channel = NoChannel => wire[j].channel = NoChannel
               /\ wire[j].st = "NONE" => wire'[j] = wire[j]
    <2>1. PICK c, e : c = wire[j] /\ e = wire'[j]
      OBVIOUS
    <2>2. IsLink(c) /\ (e = c \/ (c.st # "NONE" /\ e = [c EXCEPT !.channel = ch]))
      BY <1>0, <1>2, <2>1 DEF ChannelTypeOK
    <2>3. /\ IsLink(e) /\ e.st = c.st /\ e.sent = c.sent /\ e.answer = c.answer /\ e.done = c.done
          /\ e.channel = NoChannel => c.channel = NoChannel
          /\ c.st = "NONE" => e = c
      BY <1>3, <2>2 DEF IsLink
    <2>. QED BY <2>1, <2>3
  <1>7. ChannelTypeOK'
    <2>1. wire' = [j \in Turns |-> wire'[j]]
      BY <1>2
    <2>. QED BY <1>0, <1>2, <1>4, <1>6, <2>1 DEF ChannelTypeOK
  <1>8. \A j \in Turns : ServedOnce(j)'
    BY <1>0, <1>2, <1>4, <1>5, <1>6 DEF ServedOnce
  <1>9. \A j \in Turns : RecordIsFinal(j)'
    BY <1>0, <1>2, <1>6 DEF RecordIsFinal
  <1>. QED BY <1>4, <1>7, <1>8, <1>9 DEF ChannelInv, BrokerIsInStep

LEMMA BrokerStartsInv == ASSUME ChannelConstants, ChannelInv, ListenerStarts PROVE ChannelInv'
  <1>0. ChannelTypeOK /\ BrokerIsInStep /\ \A j \in Turns : ServedOnce(j) /\ RecordIsFinal(j)
    BY DEF ChannelInv
  <1>1. /\ listener' = [listener EXCEPT !.up = TRUE, !.gen = @ + 1, !.issued = 0]
        /\ UNCHANGED <<order, wire, effects, recorded>>
    BY DEF ListenerStarts
  <1>2. /\ listener' \in [up : BOOLEAN, gen : Nat \ {0}, issued : Nat, at : Turns \cup {0},
                        phase : {"ACCEPT", "RECEIVE", "PERFORMED"}]
        /\ listener'.at = listener.at /\ listener'.phase = listener.phase
    <2>1. PICK n : n = listener.gen + 1
      OBVIOUS
    <2>2. n \in Nat \ {0}
      BY <1>0, <2>1 DEF ChannelTypeOK
    <2>3. listener' = [listener EXCEPT !.up = TRUE, !.gen = n, !.issued = 0]
      BY <1>1, <2>1
    <2>. QED BY <1>0, <2>2, <2>3 DEF ChannelTypeOK
  <1>3. ChannelTypeOK' /\ BrokerIsInStep'
    BY <1>0, <1>1, <1>2 DEF ChannelTypeOK, BrokerIsInStep
  <1>4. \A j \in Turns : ServedOnce(j)' /\ RecordIsFinal(j)'
    BY <1>0, <1>1, <1>2 DEF ServedOnce, RecordIsFinal
  <1>. QED BY <1>3, <1>4 DEF ChannelInv

LEMMA ChannelNextInv == ASSUME ChannelConstants, ChannelInv, [ChannelNext]_channelVars PROVE ChannelInv'
  <1>1. CASE ChannelNext
    <2>1. CASE RefuseOrder
      <3>1. Outcome("REFUSED", [op |-> "NONE"]) /\ UNCHANGED <<order, effects, recorded>>
            /\ listener.phase = "RECEIVE"
        BY <2>1 DEF RefuseOrder
      <3>. QED BY <3>1, AnswerInv
    <2>2. CASE AnswerDone
      BY <2>2, AnswerInv DEF AnswerDone
    <2>3. CASE AnswerIndeterminate
      BY <2>3, AnswerInv DEF AnswerIndeterminate
    <2>. QED BY <1>1, <2>1, <2>2, <2>3, AuthorityInv, GreetInv, ReceiveFailsInv, PerformInv,
             BrokerDiesInv, BrokerStartsInv DEF ChannelNext
  <1>2. CASE UNCHANGED channelVars
    BY <1>2 DEF channelVars, ChannelInv, ChannelTypeOK, BrokerIsInStep, ServedOnce, RecordIsFinal, NoChannel
  <1>. QED BY <1>1, <1>2

LEMMA ChannelInvariant == ASSUME ChannelConstants PROVE ChannelSpec => []ChannelInv
  <1>1. ChannelInit => ChannelInv
    BY ChannelInitInv
  <1>2. ChannelInv /\ [ChannelNext]_channelVars => ChannelInv'
    BY ChannelNextInv
  <1>. QED BY <1>1, <1>2, PTL DEF ChannelSpec

-----------------------------------------------------------------------------
(* The messages: what holds of every order *)

\* Authorisation::check and link::authorise: an order carries the descriptors of its kind.
LEMMA DescriptorsAgree ==
  ASSUME NEW o \in Orders PROVE Len(Descriptors(o)) = KindDescriptors(MessageKind(o))
  <1>1. CASE o \in Reads
    BY <1>1 DEF Reads, Descriptors, ObservationDescriptors, KindDescriptors, MessageKind
  <1>2. CASE o \in Stats
    BY <1>2 DEF Stats, Descriptors, ObservationDescriptors, KindDescriptors, MessageKind
  <1>3. CASE o \in Lists
    BY <1>3 DEF Lists, Descriptors, ObservationDescriptors, KindDescriptors, MessageKind
  <1>4. CASE o \in Searches
    BY <1>4 DEF Searches, Descriptors, ObservationDescriptors, KindDescriptors, MessageKind
  <1>5. CASE o \in Writes
    BY <1>5 DEF Writes, Descriptors, ChangeDescriptors, KindDescriptors, MessageKind
  <1>6. CASE o \in Patches
    BY <1>6 DEF Patches, Descriptors, ChangeDescriptors, KindDescriptors, MessageKind
  <1>7. CASE o \in Moves
    BY <1>7 DEF Moves, Descriptors, ChangeDescriptors, KindDescriptors, MessageKind
  <1>8. CASE o \in Deletes
    BY <1>8 DEF Deletes, Descriptors, ChangeDescriptors, KindDescriptors, MessageKind
  <1>9. CASE o \in Reclaims
    BY <1>9 DEF Reclaims, Descriptors, ChangeDescriptors, KindDescriptors, MessageKind
  <1>10. CASE o \in ProcessStarts
    BY <1>10 DEF ProcessStarts, Descriptors, ProcessDescriptors, KindDescriptors, MessageKind
  <1>11. CASE o \in ProcessQueries
    BY <1>11 DEF ProcessQueries, Descriptors, ProcessDescriptors, KindDescriptors, MessageKind
  <1>12. CASE o \in Prepares
    BY <1>12 DEF Prepares, Descriptors, RuntimeDescriptors, KindDescriptors, MessageKind
  <1>13. CASE o \in Measures
    BY <1>13 DEF Measures, Descriptors, RuntimeDescriptors, KindDescriptors, MessageKind
  <1>14. CASE o \in Destroys
    BY <1>14 DEF Destroys, Descriptors, RuntimeDescriptors, KindDescriptors, MessageKind
  <1>15. CASE o \in Listings
    BY <1>15 DEF Listings, Descriptors, RuntimeDescriptors, KindDescriptors, MessageKind
  <1>16. CASE o \in WorkloadStarts
    BY <1>16 DEF WorkloadStarts, Descriptors, RuntimeDescriptors, KindDescriptors, MessageKind
  <1>17. CASE o \in WorkloadSecretStarts
    BY <1>17 DEF WorkloadSecretStarts, Descriptors, RuntimeDescriptors, KindDescriptors, MessageKind
  <1>18. CASE o \in WorkloadCollects
    BY <1>18 DEF WorkloadCollects, Descriptors, HttpDescriptors, KindDescriptors, MessageKind
  <1>19. CASE o \in ResolutionOrders
    BY <1>19 DEF ResolutionOrders, Descriptors, HttpDescriptors, KindDescriptors, MessageKind
  <1>20. CASE o \in HttpExchanges
    <2>1. o.op = "http_exchange" /\ o.credential \in BOOLEAN
      BY <1>20 DEF HttpExchanges
    <2>2. Descriptors(o) = IF o.credential THEN <<"PIPE">> ELSE <<>>
      BY <2>1 DEF Descriptors, HttpDescriptors
    <2>3. KindDescriptors(MessageKind(o)) = IF o.credential THEN 1 ELSE 0
      BY <2>1 DEF KindDescriptors, MessageKind
    <2>. QED BY <2>1, <2>2, <2>3
  <1>. QED BY <1>1, <1>2, <1>3, <1>4, <1>5, <1>6, <1>7, <1>8, <1>9, <1>10, <1>11, <1>12, <1>13, <1>14, <1>15, <1>16, <1>17, <1>18, <1>19, <1>20 DEF Orders

LEMMA LesserIs ==
  ASSUME NEW m \in Nat, NEW n \in Nat
  PROVE  Min({m, n}) = IF m <= n THEN m ELSE n
  <1>1. \E x \in {m, n} : \A y \in {m, n} : x <= y
    OBVIOUS
  <1>. QED BY <1>1 DEF Min

LEMMA CapturedFits ==
  ASSUME MaxBytes \in Nat, NEW max \in Limits, NEW s \in Captured(max)
  PROVE  StreamAccepted(s, max)
  <1>1. PICK n \in Counts : s = [kept |-> Min({n, max}), observed |-> n, truncated |-> n > max]
    BY DEF Captured
  <1>2. n \in Nat /\ max \in Nat
    BY DEF Counts, Limits
  <1>3. PICK k : k = Min({n, max})
    OBVIOUS
  <1>4. k = IF n <= max THEN n ELSE max
    BY <1>2, <1>3, LesserIs
  <1>5. s.kept = k /\ s.observed = n /\ s.truncated = (n > max)
    BY <1>1, <1>3
  <1>6. k <= max /\ n >= k /\ ((n > max) = (n > k))
    BY <1>2, <1>4
  <1>. QED BY <1>5, <1>6 DEF StreamAccepted

\* scan: the matches kept fit the bound, and all end within what was scanned.
LEMMA SearchFits ==
  ASSUME MaxBytes \in Nat, NEW o \in Searches, NEW d \in SearchDone(o)
  PROVE  Accepted(o, d)
  <1>0. /\ o.op = "fs_search" /\ o.scan \in Nat /\ o.max \in Nat /\ o.needle \in Nat
    BY DEF Searches, Limits
  <1>1. CASE \E n \in 0 .. o.scan : \E f \in Matches(n, o.needle) :
               /\ Cardinality(f) <= o.max
               /\ d = [op |-> "fs_search", offsets |-> f, scanned |-> n, truncated |-> FALSE]
    <2>0. PICK n \in 0 .. o.scan : \E f \in Matches(n, o.needle) :
               /\ Cardinality(f) <= o.max
               /\ d = [op |-> "fs_search", offsets |-> f, scanned |-> n, truncated |-> FALSE]
      BY <1>1
    <2>1. PICK f \in Matches(n, o.needle) :
               /\ Cardinality(f) <= o.max
               /\ d = [op |-> "fs_search", offsets |-> f, scanned |-> n, truncated |-> FALSE]
      BY <2>0
    <2>2. \A at \in f : at + o.needle <= n
      BY DEF Matches
    <2>3. n <= o.scan
      BY <1>0
    <2>4. SearchAccepted(o, d)
      BY <2>1, <2>2, <2>3 DEF SearchAccepted
    <2>5. DoneKind(d) = o.op
      BY <1>0, <2>1 DEF DoneKind
    <2>. QED BY <1>0, <2>4, <2>5 DEF Accepted
  <1>2. CASE \E f \in Matches(o.scan, o.needle) : \E last \in Furthest(f) :
               /\ Cardinality(f) = o.max + 1
               /\ d = [op |-> "fs_search", offsets |-> f \ {last}, scanned |-> last + o.needle,
                       truncated |-> TRUE]
    <2>0. PICK f \in Matches(o.scan, o.needle) : \E last \in Furthest(f) :
               /\ Cardinality(f) = o.max + 1
               /\ d = [op |-> "fs_search", offsets |-> f \ {last}, scanned |-> last + o.needle,
                       truncated |-> TRUE]
      BY <1>2
    <2>1. PICK last \in Furthest(f) :
               /\ Cardinality(f) = o.max + 1
               /\ d = [op |-> "fs_search", offsets |-> f \ {last}, scanned |-> last + o.needle,
                       truncated |-> TRUE]
      BY <2>0
    <2>2. last \in f /\ \A at \in f : at <= last
      BY DEF Furthest
    <2>3. f \subseteq 0 .. o.scan /\ \A at \in f : at + o.needle <= o.scan
      BY DEF Matches
    <2>4. IsFiniteSet(f)
      <3>0. 0 \in Int /\ o.scan \in Int
        BY <1>0
      <3>1. IsFiniteSet(0 .. o.scan)
        BY <3>0, FS_Interval
      <3>. QED BY <2>3, <3>1, FS_Subset
    <2>5. Cardinality(f \ {last}) = o.max
      <3>1. Cardinality(f \ {last}) = Cardinality(f) - 1
        BY <2>2, <2>4, FS_RemoveElement
      <3>. QED BY <1>0, <2>1, <3>1
    <2>6. last \in Nat /\ \A at \in f : at \in Nat
      BY <1>0, <2>2, <2>3
    <2>7. \A at \in f \ {last} : at + o.needle <= last + o.needle
      BY <1>0, <2>2, <2>6
    <2>8. last + o.needle <= o.scan
      BY <2>2, <2>3
    <2>9. SearchAccepted(o, d)
      BY <1>0, <2>1, <2>5, <2>7, <2>8 DEF SearchAccepted
    <2>10. DoneKind(d) = o.op
      BY <1>0, <2>1 DEF DoneKind
    <2>. QED BY <1>0, <2>9, <2>10 DEF Accepted
  <1>. DEFINE Few(n) == {[op |-> "fs_search", offsets |-> found, scanned |-> n, truncated |-> FALSE] :
                           found \in {f \in Matches(n, o.needle) : Cardinality(f) <= o.max}}
              Cut(found) == {[op |-> "fs_search", offsets |-> found \ {last}, scanned |-> last + o.needle,
                              truncated |-> TRUE] : last \in Furthest(found)}
              Over == {f \in Matches(o.scan, o.needle) : Cardinality(f) = o.max + 1}
  <1>3. CASE d \in SearchedAll(o)
    <2>1. d \in UNION {Few(n) : n \in 0 .. o.scan}
      BY <1>3 DEF SearchedAll
    <2>2. ASSUME NEW n \in 0 .. o.scan, d \in Few(n) PROVE Accepted(o, d)
      BY <1>1, <2>2
    <2>. HIDE DEF Few
    <2>3. PICK S \in {Few(n) : n \in 0 .. o.scan} : d \in S
      BY <2>1
    <2>. QED BY <2>2, <2>3
  <1>4. CASE d \in SearchedEnough(o)
    <2>1. d \in UNION {Cut(found) : found \in Over}
      BY <1>4 DEF SearchedEnough
    <2>2. ASSUME NEW found \in Over, d \in Cut(found) PROVE Accepted(o, d)
      BY <1>2, <2>2
    <2>. HIDE DEF Cut, Over
    <2>3. PICK S \in {Cut(found) : found \in Over} : d \in S
      BY <2>1
    <2>. QED BY <2>2, <2>3
  <1>. QED BY <1>3, <1>4 DEF SearchDone

\* link::deliver: every result an order's operation can have is one the authority takes.
LEMMA DoneIsAccepted ==
  ASSUME ChannelConstants, NEW o \in Orders, NEW d \in Done(o) PROVE Accepted(o, d)
  <1>0. MaxBytes \in Nat /\ Nil \notin Inodes
    BY DEF ChannelConstants
  <1>1. CASE o \in Reads
    BY <1>0, <1>1 DEF Reads, Done, ReadDone, Accepted, DoneKind, Limits
  <1>2. CASE o \in Stats
    BY <1>2 DEF Stats, Done, StatDone, Accepted, DoneKind
  <1>3. CASE o \in Lists
    <2>1. o.op = "fs_list" /\ o.max \in Nat
      BY <1>3 DEF Lists, Limits
    <2>2. PICK n \in Counts : d = [op |-> "fs_list", size |-> Min({n, o.max}), complete |-> n <= o.max]
      BY <2>1 DEF Done, ListDone
    <2>3. PICK k : k = Min({n, o.max})
      OBVIOUS
    <2>4. k <= o.max
      BY <2>1, <2>3, LeastOfTwo DEF Counts
    <2>5. d.op = "fs_list" /\ d.size = k
      BY <2>2, <2>3
    <2>. QED BY <2>1, <2>4, <2>5 DEF Accepted, DoneKind
  <1>4. CASE o \in Searches
    <2>1. o.op = "fs_search"
      BY <1>4 DEF Searches
    <2>2. d \in SearchDone(o)
      BY <2>1 DEF Done
    <2>. QED BY <1>0, <1>4, <2>2, SearchFits
  <1>5. CASE o \in Writes
    BY <1>5 DEF Writes, Done, WriteDone, Accepted, DoneKind
  <1>6. CASE o \in Patches
    BY <1>6 DEF Patches, Done, PatchDone, Accepted, DoneKind
  <1>7. CASE o \in Moves
    BY <1>7 DEF Moves, Done, MoveDone, Accepted, DoneKind
  <1>8. CASE o \in Deletes
    BY <1>8 DEF Deletes, Done, DeleteDone, Accepted, DoneKind
  <1>9. CASE o \in Reclaims
    <2>1. o.op = "fs_reclaim"
      BY <1>9 DEF Reclaims
    <2>2. d \in ReclaimDone(o)
      BY <2>1 DEF Done
    <2>3. d.op = "fs_reclaim" /\ ReclaimAccepted(o, d)
      <3>1. /\ d.op = "fs_reclaim" /\ d.state \in {"ABSENT", "REMOVED", "FOREIGN", "RETAINED"}
            /\ d.state # "RETAINED" => d.holds = Nil /\ d.held = Nil
            /\ d.state = "RETAINED" => d.holds \in {"DISPLACED", "TAKEN", "EVIDENCE", "UNEXPECTED"}
            /\ d.holds \in {"DISPLACED", "TAKEN"} => d.held \in Inodes
            /\ d.holds = "EVIDENCE" => d.held = Nil
        BY <2>2 DEF ReclaimDone, Nil
      <3>. QED BY <1>0, <3>1 DEF ReclaimAccepted, Nil
    <2>. QED BY <2>1, <2>3 DEF Accepted, DoneKind
  <1>10. CASE o \in ProcessStarts
    BY <1>10 DEF ProcessStarts, Done, ProcessDone, Accepted, DoneKind
  <1>11. CASE o \in ProcessQueries
    <2>1. CASE o.op = "process_status"
      <3>1. o.max \in Limits
        BY <1>11, <2>1 DEF ProcessQueries
      <3>2. d.op = "process_status" /\ d.out \in Captured(o.max)
        BY <2>1 DEF Done, ProcessDone
      <3>3. StreamAccepted(d.out, o.max)
        BY <1>0, <3>1, <3>2, CapturedFits
      <3>. QED BY <2>1, <3>2, <3>3 DEF Accepted, DoneKind
    <2>2. CASE o.op = "process_kill"
      BY <2>2 DEF Done, ProcessDone, Accepted, DoneKind
    <2>. QED BY <1>11, <2>1, <2>2 DEF ProcessQueries
  <1>12. CASE o \in Prepares
    <2>1. o.op = "environment_prepare"
      BY <1>12 DEF Prepares
    <2>2. /\ d.op = "environment_prepare"
          /\ d.retained => d.container \in Inodes /\ d.measured = TRUE
      BY <2>1 DEF Done, EnvironmentDone
    <2>. QED BY <1>0, <2>1, <2>2 DEF Accepted, DoneKind, EnvironmentAccepted
  <1>13. CASE o \in Measures
    BY <1>13 DEF Measures, Done, EnvironmentDone, Accepted, DoneKind
  <1>14. CASE o \in Destroys
    <2>1. o.op = "environment_destroy" /\ o.container \in Inodes \cup {Nil}
      BY <1>14 DEF Destroys, MaybeObject
    <2>2. /\ d.op = "environment_destroy"
          /\ \/ d.state = "ALREADY_GONE" /\ d.container = Nil
             \/ d.state = "REMOVED" /\ d.container \in IF o.container = Nil THEN Inodes ELSE {o.container}
      BY <2>1 DEF Done, EnvironmentDone
    <2>3. DestroyAccepted(o, d)
      BY <1>0, <2>1, <2>2 DEF DestroyAccepted
    <2>. QED BY <2>1, <2>2, <2>3 DEF Accepted, DoneKind, EnvironmentAccepted
  <1>15. CASE o \in Listings
    BY <1>15 DEF Listings, Done, EnvironmentDone, Accepted, DoneKind
  <1>16. CASE o \in WorkloadStarts
    BY <1>16 DEF WorkloadStarts, Done, WorkloadDone, Accepted, DoneKind
  <1>17. CASE o \in WorkloadSecretStarts
    BY <1>17 DEF WorkloadSecretStarts, Done, WorkloadDone, Accepted, DoneKind
  <1>18. CASE o \in WorkloadCollects
    <2>1. o.op = "workload_collect" /\ o.max \in Limits
      BY <1>18 DEF WorkloadCollects
    <2>2. d \in CollectDone(o)
      BY <2>1 DEF Done, WorkloadDone
    <2>3. d.op = "workload_collect" /\ CollectAccepted(o, d)
      <3>1. CASE \E s, never : /\ never \in BOOLEAN
                              /\ d = [op |-> "workload_collect", result |-> NoEnding, out |-> s, never |-> never,
                                      progress |-> IF never THEN "ENDED" ELSE "RUNNING"]
        BY <3>1 DEF CollectAccepted
      <3>2. CASE d \in [op : {"workload_collect"}, progress : {"ENDED"}, result : Endings,
                        out : Captured(o.max), never : {FALSE}]
        <4>1. /\ d.op = "workload_collect" /\ d.result \in Endings /\ d.out \in Captured(o.max)
              /\ d.progress = "ENDED" /\ d.never = FALSE
          BY <3>2
        <4>2. PICK e : e = d.result
          OBVIOUS
        <4>3. /\ e.ending \in {"EXITED", "KILLED", "TIMED_OUT"} /\ (e.ending = "EXITED") = e.code
              /\ (e.ending = "KILLED") = e.signal /\ (e.clean => e.left = 0)
          BY <4>1, <4>2 DEF Endings
        <4>4. e # NoEnding
          BY <4>3 DEF NoEnding, Nil
        <4>5. StreamAccepted(d.out, o.max)
          BY <1>0, <2>1, <4>1, CapturedFits
        <4>. QED BY <4>1, <4>2, <4>3, <4>4, <4>5 DEF CollectAccepted
      <3>. QED BY <2>2, <3>1, <3>2 DEF CollectDone
    <2>. QED BY <2>1, <2>3 DEF Accepted, DoneKind
  <1>19. CASE o \in ResolutionOrders
    <2>1. o.op = "http_resolve"
      BY <1>19 DEF ResolutionOrders
    <2>2. PICK n \in SUBSET Inodes : d = [op |-> "http_resolve", resolved |-> n # {}, addresses |-> n]
      BY <2>1 DEF Done, HttpDone
    <2>3. d.op = "http_resolve" /\ d.resolved = (d.addresses # {})
      BY <2>2
    <2>. QED BY <2>1, <2>3 DEF Accepted, DoneKind, ResolutionAccepted
  <1>20. CASE o \in HttpExchanges
    <2>1. o.op = "http_exchange" /\ o.credential \in BOOLEAN /\ o.max \in Nat
      BY <1>20 DEF HttpExchanges, Limits
    <2>2. d \in HttpDone(o)
      BY <2>1 DEF Done
    <2>3. /\ d.op = "http_exchange" /\ d.size \in 0 .. o.max
          /\ d.echoes \in (IF o.credential THEN BOOLEAN ELSE {FALSE})
          /\ d.completed \in BOOLEAN /\ (d.completed => d.status = TRUE)
          /\ ~d.completed => d.headers = FALSE
      BY <2>1, <2>2 DEF HttpDone
    <2>4. d.size <= o.max
      BY <2>1, <2>3
    <2>. QED BY <2>1, <2>3, <2>4 DEF Accepted, DoneKind, ExchangeAccepted
  <1>. QED BY <1>1, <1>2, <1>3, <1>4, <1>5, <1>6, <1>7, <1>8, <1>9, <1>10, <1>11, <1>12, <1>13, <1>14, <1>15, <1>16, <1>17, <1>18, <1>19, <1>20 DEF Orders

\* The two daemons agree on the protocol (Authorisation::check, link::authorise and deliver;
\* exchange's observe, search and mutate), for every order and every result.
THEOREM ProtocolAgrees == ASSUME ChannelConstants PROVE ChannelSpec => []DaemonsAgree
  <1>1. ChannelInv => DaemonsAgree
    <2>. SUFFICES ASSUME ChannelInv, NEW i \in Turns
                  PROVE  /\ Len(Descriptors(order[i])) = KindDescriptors(MessageKind(order[i]))
                         /\ wire[i].answer = "DONE" => Accepted(order[i], wire[i].done)
      BY DEF DaemonsAgree
    <2>1. order[i] \in Orders
      BY DEF ChannelInv, ChannelTypeOK, ChannelConstants
    <2>2. wire[i].answer = "DONE" => wire[i].done \in Done(order[i])
      BY DEF ChannelInv, ServedOnce
    <2>. QED BY <2>1, <2>2, DescriptorsAgree, DoneIsAccepted
  <1>. QED BY <1>1, ChannelInvariant, PTL

\* What the authority concludes of an order is true (link::perform, BrokerError, exchange::
\* serve_one), for any number of exchanges in turn and of the broker's starts, whatever is lost
\* and whoever gives up.
THEOREM ConclusionsAreTrue == ASSUME ChannelConstants PROVE ChannelSpec => []ConcludesTheTruth
  <1>1. ChannelInv => EffectsAreTold
    BY DEF ChannelInv, RecordIsFinal, EffectsAreTold
  <1>2. ChannelSpec => []DaemonsAgree
    BY ProtocolAgrees
  <1>3. EffectsAreTold /\ DaemonsAgree <=> ConcludesTheTruth
    BY DEF ConcludesTheTruth
  <1>. QED BY <1>1, <1>2, <1>3, ChannelInvariant, PTL

=============================================================================
