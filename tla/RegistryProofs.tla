--------------------------- MODULE RegistryProofs ---------------------------
(***************************************************************************)
(* Which module stands on which tile: tokens and modules agree once the    *)
(* network is quiet, for any number of hosts, lists and tiles and whatever *)
(* the network repeats, delays and loses, as long as of every burst one    *)
(* datagram arrives.  And the Coordinator with its watchdog implements the *)
(* Registry, in whatever order deadCheck's steps come between those of     *)
(* the handlers: what it has deleted is a tile's.                          *)
(*                                                                         *)
(* What a burst says is not true of its queue at once, only when the last  *)
(* burst about a module has come through.  So the invariant is about what  *)
(* is still under way: GoneIsTold and LivingIsTold say that whatever the   *)
(* token and the datagrams before say of a module that is not so, enough   *)
(* copies of a datagram that puts it right come behind them.               *)
(***************************************************************************)
EXTENDS TileSystem, SequenceTheorems, WellFoundedInduction, TLAPS

-----------------------------------------------------------------------------
(* What a queue of datagrams says of a module.                             *)

Datagrams(h) == [kind : {"set", "delete"}, list : {l \in Lists : HostOf[l] = h}, tile : Tiles]
Commands(h) == {l \in Lists : HostOf[l] = h} \X Tiles

RegistryTypeOK ==
    /\ modules \subseteq Lists \X Tiles
    /\ mtknMap \in [Tiles -> Lists \cup {NoList}]
    /\ DOMAIN toCoordinator = Hosts /\ DOMAIN toHost = Hosts
    /\ \A h \in Hosts : toCoordinator[h] \in Seq(Datagrams(h))
    /\ \A h \in Hosts : toHost[h] \in Seq(Commands(h))
    /\ losses \in 0 .. MaxLosses /\ lostCommands \in Nat

\* A datagram or a module of the name l on the tile t.
About(d, l, t) == d.list = l /\ d.tile = t

\* Where n copies stand in the queue, nothing to the contrary coming after
\* the first of them.
Copied(q, n, f, kind, l, t) ==
    /\ \A i, j \in 1 .. n : i < j => f[i] < f[j]
    /\ \A i \in 1 .. n : About(q[f[i]], l, t) /\ q[f[i]].kind = kind
    /\ \A j \in DOMAIN q : f[1] < j /\ About(q[j], l, t) => q[j].kind = kind

\* n copies at least are still to come, and have the last word.
OnTheWay(q, n, kind, l, t) == \E f \in [1 .. n -> DOMAIN q] : Copied(q, n, f, kind, l, t)

Says(q, kind, l, t) == \E j \in DOMAIN q : About(q[j], l, t) /\ q[j].kind = kind

LEMMA OnTheWayAppend ==
    ASSUME NEW S, NEW q \in Seq(S), NEW r \in Seq(S), NEW n \in Nat, NEW kind, NEW l, NEW t,
           n > 0, OnTheWay(q, n, kind, l, t),
           \A j \in 1 .. Len(r) : About(r[j], l, t) => r[j].kind = kind
    PROVE  OnTheWay(q \o r, n, kind, l, t)
  <1>1. PICK f \in [1 .. n -> DOMAIN q] : Copied(q, n, f, kind, l, t)
    BY DEF OnTheWay
  <1>2. /\ DOMAIN q = 1 .. Len(q) /\ Len(q) \in Nat /\ Len(r) \in Nat
        /\ DOMAIN (q \o r) = 1 .. Len(q) + Len(r)
        /\ \A i \in 1 .. Len(q) + Len(r) : (q \o r)[i] = IF i <= Len(q) THEN q[i] ELSE r[i - Len(q)]
    BY ConcatProperties, LenProperties
  <1>3. f \in [1 .. n -> DOMAIN (q \o r)]
    BY <1>2
  <1>4. \A i \in 1 .. n : f[i] <= Len(q) /\ (q \o r)[f[i]] = q[f[i]]
    BY <1>2
  <1>5. ASSUME NEW j \in DOMAIN (q \o r), f[1] < j, About((q \o r)[j], l, t)
        PROVE  (q \o r)[j].kind = kind
    <2>1. CASE j <= Len(q)
      BY <1>1, <1>2, <1>5, <2>1 DEF Copied
    <2>2. CASE j > Len(q)
      <3>1. j - Len(q) \in 1 .. Len(r) /\ (q \o r)[j] = r[j - Len(q)]
        BY <1>2, <2>2
      <3> QED BY <3>1, <1>5
    <2> QED BY <2>1, <2>2, <1>2
  <1>6. Copied(q \o r, n, f, kind, l, t)
    BY <1>1, <1>4, <1>5 DEF Copied
  <1> QED BY <1>3, <1>6 DEF OnTheWay

LEMMA OnTheWayBurst ==
    ASSUME NEW S, NEW q \in Seq(S), NEW m \in Nat, NEW n \in Nat, n <= m, n > 0,
           NEW kind, NEW l, NEW t, Burst(kind, l, t, m) \in Seq(S)
    PROVE  OnTheWay(q \o Burst(kind, l, t, m), n, kind, l, t)
  <1> DEFINE r == Burst(kind, l, t, m)
             f == [i \in 1 .. n |-> Len(q) + i]
  <1>0. r \in Seq(S)
    OBVIOUS
  <1>1. Len(r) = m /\ \A i \in 1 .. m : r[i] = [kind |-> kind, list |-> l, tile |-> t]
    BY DEF Burst
  <1> HIDE DEF r
  <1>2. /\ Len(q) \in Nat
        /\ DOMAIN (q \o r) = 1 .. Len(q) + m
        /\ \A i \in 1 .. Len(q) + m : (q \o r)[i] = IF i <= Len(q) THEN q[i] ELSE r[i - Len(q)]
    <2>1. Len(q) \in Nat /\ Len(q \o r) = Len(q) + m /\ q \o r \in Seq(S)
      BY ConcatProperties, LenProperties, <1>0, <1>1
    <2>2. DOMAIN (q \o r) = 1 .. Len(q) + m
      BY LenProperties, <2>1
    <2>3. \A i \in 1 .. Len(q) + m : (q \o r)[i] = IF i <= Len(q) THEN q[i] ELSE r[i - Len(q)]
      BY ConcatProperties, <1>0, <1>1
    <2> QED BY <2>1, <2>2, <2>3
  <1>3. ASSUME NEW j \in DOMAIN (q \o r), j > Len(q)
        PROVE  About((q \o r)[j], l, t) /\ (q \o r)[j].kind = kind
    <2>1. j - Len(q) \in 1 .. m /\ (q \o r)[j] = r[j - Len(q)]
      BY <1>2, <1>3
    <2> QED BY <2>1, <1>1 DEF About
  <1>4. f \in [1 .. n -> DOMAIN (q \o r)] /\ \A i \in 1 .. n : f[i] > Len(q)
    BY <1>2
  <1>5. \A i, j \in 1 .. n : i < j => f[i] < f[j]
    BY <1>2
  <1>6. f[1] = Len(q) + 1
    OBVIOUS
  <1> HIDE DEF f
  <1>7. \A j \in DOMAIN (q \o r) : f[1] < j => j > Len(q)
    BY <1>2, <1>6
  <1>8. OnTheWay(q \o r, n, kind, l, t)
    BY <1>3, <1>4, <1>5, <1>7 DEF OnTheWay, Copied
  <1> QED BY <1>8 DEF r

\* A datagram leaves the queue that is none of the copies, or after which
\* something to the contrary is still to come.
LEMMA OnTheWayTail ==
    ASSUME NEW S, NEW q \in Seq(S), q # <<>>, NEW n \in Nat, n > 0,
           NEW kind, NEW l, NEW t, OnTheWay(q, n, kind, l, t),
           NEW other, other # kind,
           About(Head(q), l, t) /\ Head(q).kind = kind => Says(Tail(q), other, l, t)
    PROVE  OnTheWay(Tail(q), n, kind, l, t)
  <1>1. PICK f \in [1 .. n -> DOMAIN q] : Copied(q, n, f, kind, l, t)
    BY DEF OnTheWay
  <1>2. /\ DOMAIN q = 1 .. Len(q) /\ Len(q) \in Nat /\ Len(q) > 0
        /\ DOMAIN Tail(q) = 1 .. Len(q) - 1 /\ Head(q) = q[1]
        /\ \A i \in 1 .. Len(q) - 1 : Tail(q)[i] = q[i + 1]
    BY HeadTailProperties, LenProperties, EmptySeq
  <1>3. f[1] # 1
    <2>1. CASE Says(Tail(q), other, l, t)
      <3>1. PICK k \in DOMAIN Tail(q) : About(Tail(q)[k], l, t) /\ Tail(q)[k].kind = other
        BY <2>1 DEF Says
      <3>2. k + 1 \in DOMAIN q /\ q[k + 1] = Tail(q)[k]
        BY <1>2
      <3> QED BY <1>1, <1>2, <3>1, <3>2 DEF Copied
    <2>2. CASE ~(About(Head(q), l, t) /\ Head(q).kind = kind)
      BY <1>1, <1>2, <2>2 DEF Copied
    <2> QED BY <2>1, <2>2
  <1>4. \A i \in 1 .. n : f[i] \in 2 .. Len(q)
    <2>1. \A i \in 1 .. n : f[i] \in 1 .. Len(q) /\ (i # 1 => 1 < i /\ 1 \in 1 .. n)
      BY <1>2
    <2> QED BY <1>1, <1>2, <1>3, <2>1 DEF Copied
  <1> DEFINE g == [i \in 1 .. n |-> f[i] - 1]
  <1>5. g \in [1 .. n -> DOMAIN Tail(q)] /\ \A i \in 1 .. n : Tail(q)[g[i]] = q[f[i]]
    BY <1>2, <1>4
  <1>6. \A i, j \in 1 .. n : i < j => g[i] < g[j]
    BY <1>1, <1>4 DEF Copied
  <1>7. \A j \in DOMAIN Tail(q) : g[1] < j => j + 1 \in DOMAIN q /\ f[1] < j + 1 /\ Tail(q)[j] = q[j + 1]
    BY <1>2, <1>4
  <1> HIDE DEF g
  <1> QED BY <1>1, <1>5, <1>6, <1>7 DEF OnTheWay, Copied

LEMMA OnTheWayLess ==
    ASSUME NEW q, NEW n \in Nat, n > 0, NEW kind, NEW l, NEW t, OnTheWay(q, n + 1, kind, l, t)
    PROVE  OnTheWay(q, n, kind, l, t)
  <1>1. PICK f \in [1 .. n + 1 -> DOMAIN q] : Copied(q, n + 1, f, kind, l, t)
    BY DEF OnTheWay
  <1>2. 1 .. n \subseteq 1 .. n + 1 /\ 1 \in 1 .. n
    OBVIOUS
  <1> DEFINE g == [i \in 1 .. n |-> f[i]]
  <1>3. g \in [1 .. n -> DOMAIN q] /\ g[1] = f[1] /\ \A i \in 1 .. n : g[i] = f[i]
    BY <1>2
  <1> HIDE DEF g
  <1>4. Copied(q, n, g, kind, l, t)
    BY <1>1, <1>2, <1>3 DEF Copied
  <1> QED BY <1>3, <1>4 DEF OnTheWay

\* One of the copies leaves the queue.
LEMMA OnTheWayFewer ==
    ASSUME NEW S, NEW q \in Seq(S), q # <<>>, NEW n \in Nat, n > 0,
           NEW kind, NEW l, NEW t, OnTheWay(q, n + 1, kind, l, t)
    PROVE  OnTheWay(Tail(q), n, kind, l, t)
  <1>1. PICK f \in [1 .. n + 1 -> DOMAIN q] : Copied(q, n + 1, f, kind, l, t)
    BY DEF OnTheWay
  <1>2. /\ DOMAIN q = 1 .. Len(q) /\ Len(q) \in Nat /\ Len(q) > 0
        /\ DOMAIN Tail(q) = 1 .. Len(q) - 1
        /\ \A i \in 1 .. Len(q) - 1 : Tail(q)[i] = q[i + 1]
    BY HeadTailProperties, LenProperties, EmptySeq
  <1>3. \A i \in 1 .. n : f[i + 1] \in 2 .. Len(q) /\ f[1] < f[i + 1]
    <2>1. \A i \in 1 .. n : i + 1 \in 1 .. n + 1 /\ 1 \in 1 .. n + 1 /\ 1 < i + 1
      OBVIOUS
    <2> QED BY <1>1, <1>2, <2>1 DEF Copied
  <1> DEFINE g == [i \in 1 .. n |-> f[i + 1] - 1]
  <1>4. g \in [1 .. n -> DOMAIN Tail(q)] /\ \A i \in 1 .. n : Tail(q)[g[i]] = q[f[i + 1]]
    <2>1. \A i \in 1 .. n : g[i] = f[i + 1] - 1 /\ g[i] \in 1 .. Len(q) - 1
      BY <1>2, <1>3
    <2>2. \A i \in 1 .. n : g[i] + 1 = f[i + 1]
      BY <1>2, <1>3, <2>1
    <2>3. g \in [1 .. n -> 1 .. Len(q) - 1]
      BY <2>1
    <2> QED BY <1>2, <2>1, <2>2, <2>3
  <1>5. \A i, j \in 1 .. n : i < j => g[i] < g[j]
    <2>1. \A i, j \in 1 .. n : i < j => i + 1 \in 1 .. n + 1 /\ j + 1 \in 1 .. n + 1 /\ i + 1 < j + 1
      OBVIOUS
    <2> QED BY <1>1, <1>3, <2>1 DEF Copied
  <1>6. \A j \in DOMAIN Tail(q) : g[1] < j => j + 1 \in DOMAIN q /\ f[1] < j + 1 /\ Tail(q)[j] = q[j + 1]
    <2>1. g[1] = f[2] - 1 /\ f[2] \in 2 .. Len(q) /\ f[1] < f[2] /\ f[1] \in Int
      <3>1. 1 \in 1 .. n /\ 1 \in 1 .. n + 1 /\ 1 + 1 = 2
        OBVIOUS
      <3> QED BY <1>2, <1>3, <3>1
    <2> HIDE DEF g
    <2> QED BY <1>2, <2>1
  <1>7. \A i \in 1 .. n : About(q[f[i + 1]], l, t) /\ q[f[i + 1]].kind = kind
    BY <1>1 DEF Copied
  <1> HIDE DEF g
  <1> QED BY <1>1, <1>4, <1>5, <1>6, <1>7 DEF OnTheWay, Copied

-----------------------------------------------------------------------------
(* Types.                                                                  *)

LEMMA BurstIsASeq ==
    ASSUME NEW l \in Lists, NEW t \in Tiles, NEW kind \in {"set", "delete"}, NEW n \in Nat
    PROVE  Burst(kind, l, t, n) \in Seq(Datagrams(HostOf[l]))
  <1>1. [kind |-> kind, list |-> l, tile |-> t] \in Datagrams(HostOf[l])
    BY DEF Datagrams
  <1> QED BY <1>1 DEF Burst

LEMMA BroadcastType ==
    ASSUME RegistryTypeOK, NEW l \in Lists, NEW t \in Tiles, NEW kind \in {"set", "delete"}, NEW n \in Nat,
           Broadcast(l, Burst(kind, l, t, n))
    PROVE  /\ DOMAIN toCoordinator' = Hosts
           /\ \A h \in Hosts : toCoordinator'[h] \in Seq(Datagrams(h))
  <1>1. HostOf[l] \in Hosts
    BY RegistryAssumption
  <1>2. toCoordinator[HostOf[l]] \o Burst(kind, l, t, n) \in Seq(Datagrams(HostOf[l]))
    BY <1>1, BurstIsASeq, ConcatProperties DEF RegistryTypeOK
  <1> QED BY <1>1, <1>2 DEF Broadcast, RegistryTypeOK

LEMMA CopiesIsThree == Copies = 3 /\ Copies \in Nat /\ 2 * Copies \in Nat
  BY DEF Copies

LEMMA RemoveType ==
    ASSUME RegistryTypeOK, NEW l \in Lists, NEW t \in Tiles, Remove(l, t)
    PROVE  /\ modules' \subseteq Lists \X Tiles
           /\ DOMAIN toCoordinator' = Hosts
           /\ \A h \in Hosts : toCoordinator'[h] \in Seq(Datagrams(h))
  <1>1. modules' \subseteq Lists \X Tiles
    BY DEF Remove, RegistryTypeOK
  <1>2. CASE <<l, t>> \in modules
    <2>1. PICK n \in Nat : Broadcast(l, Burst("delete", l, t, n))
      BY <1>2, CopiesIsThree DEF Remove
    <2> QED BY <1>1, <2>1, BroadcastType
  <1>3. CASE <<l, t>> \notin modules
    BY <1>1, <1>3 DEF Remove, RegistryTypeOK
  <1> QED BY <1>2, <1>3

LEMMA SendDeleteType ==
    ASSUME RegistryTypeOK, NEW t \in Tiles, SendDelete(t)
    PROVE  DOMAIN toHost' = Hosts /\ \A h \in Hosts : toHost'[h] \in Seq(Commands(h))
  <1>1. CASE mtknMap[t] = NoList
    BY <1>1 DEF SendDelete, RegistryTypeOK
  <1>2. CASE mtknMap[t] # NoList
    <2> DEFINE l == mtknMap[t]
    <2>1. l \in Lists /\ HostOf[l] \in Hosts
      BY <1>2, RegistryAssumption DEF RegistryTypeOK
    <2>2. <<l, t>> \in Commands(HostOf[l])
      BY <2>1 DEF Commands
    <2>3. Append(toHost[HostOf[l]], <<l, t>>) \in Seq(Commands(HostOf[l]))
      BY <2>1, <2>2 DEF RegistryTypeOK
    <2>4. toHost' = [toHost EXCEPT ![HostOf[l]] = Append(@, <<l, t>>)]
      BY <1>2 DEF SendDelete
    <2> QED BY <2>1, <2>3, <2>4 DEF RegistryTypeOK
  <1> QED BY <1>1, <1>2

LEMMA HeadType ==
    ASSUME RegistryTypeOK, NEW h \in Hosts
    PROVE  /\ toCoordinator[h] # <<>> =>
                /\ Head(toCoordinator[h]) \in Datagrams(h)
                /\ Tail(toCoordinator[h]) \in Seq(Datagrams(h))
           /\ toHost[h] # <<>> =>
                /\ Head(toHost[h]) \in Commands(h)
                /\ Tail(toHost[h]) \in Seq(Commands(h))
  BY HeadTailProperties DEF RegistryTypeOK

LEMMA InitType == Init => RegistryTypeOK
  <1>1. \A h \in Hosts : <<>> \in Seq(Datagrams(h)) /\ <<>> \in Seq(Commands(h))
    OBVIOUS
  <1> QED BY <1>1, RegistryAssumption DEF Init, RegistryTypeOK

LEMMA StepType == ASSUME RegistryTypeOK, [Next]_vars PROVE RegistryTypeOK'
  <1>1. ASSUME NEW l \in Lists, NEW t \in Tiles, CreateModule(l, t) PROVE RegistryTypeOK'
    <2>1. DOMAIN toCoordinator' = Hosts /\ \A h \in Hosts : toCoordinator'[h] \in Seq(Datagrams(h))
      BY <1>1, BroadcastType, CopiesIsThree DEF CreateModule
    <2> QED BY <1>1, <2>1 DEF CreateModule, RegistryTypeOK, Datagrams, Commands
  <1>2. ASSUME NEW l \in Lists, NEW t \in Tiles, DeleteModule(l, t) PROVE RegistryTypeOK'
    BY <1>2, RemoveType DEF DeleteModule, RegistryTypeOK, Datagrams, Commands
  <1>3. ASSUME NEW h \in Hosts, ObeyCommand(h) PROVE RegistryTypeOK'
    <2>1. Head(toHost[h]) \in Commands(h) /\ Tail(toHost[h]) \in Seq(Commands(h))
      BY <1>3, HeadType DEF ObeyCommand
    <2>2. Head(toHost[h])[1] \in Lists /\ Head(toHost[h])[2] \in Tiles
      BY <2>1 DEF Commands
    <2>3. Remove(Head(toHost[h])[1], Head(toHost[h])[2])
      BY <1>3 DEF ObeyCommand
    <2>4. /\ modules' \subseteq Lists \X Tiles
          /\ DOMAIN toCoordinator' = Hosts
          /\ \A k \in Hosts : toCoordinator'[k] \in Seq(Datagrams(k))
      BY <2>2, <2>3, RemoveType
    <2>5. toHost' = [toHost EXCEPT ![h] = Tail(@)] /\ mtknMap' = mtknMap /\ losses' = losses /\ lostCommands' = lostCommands
      BY <1>3 DEF ObeyCommand, bounds
    <2> QED BY <2>1, <2>4, <2>5 DEF RegistryTypeOK, Datagrams, Commands
  <1>4. ASSUME NEW h \in Hosts, Receive(h) PROVE RegistryTypeOK'
    <2> DEFINE d == Head(toCoordinator[h])
    <2>1. d \in Datagrams(h) /\ Tail(toCoordinator[h]) \in Seq(Datagrams(h))
      BY <1>4, HeadType DEF Receive
    <2>2. d.list \in Lists /\ d.tile \in Tiles
      BY <2>1 DEF Datagrams
    <2>3. /\ mtknMap' \in [Tiles -> Lists \cup {NoList}]
          /\ DOMAIN toHost' = Hosts /\ \A k \in Hosts : toHost'[k] \in Seq(Commands(k))
      <3>1. CASE d.kind = "set" /\ mtknMap[d.tile] # d.list
        BY <1>4, <2>2, <3>1, SendDeleteType DEF Receive, SetMtkn, RegistryTypeOK
      <3>2. CASE d.kind = "set" /\ mtknMap[d.tile] = d.list
        BY <1>4, <3>2 DEF Receive, SetMtkn, RegistryTypeOK
      <3>3. CASE d.kind # "set"
        BY <1>4, <2>2, <3>3 DEF Receive, DeleteMtkn, RegistryTypeOK
      <3> QED BY <3>1, <3>2, <3>3
    <2>4. toCoordinator' = [toCoordinator EXCEPT ![h] = Tail(@)] /\ UNCHANGED <<modules, losses, lostCommands>>
      BY <1>4 DEF Receive, bounds
    <2> QED BY <2>1, <2>3, <2>4 DEF RegistryTypeOK, Datagrams, Commands
  <1>5. ASSUME NEW t \in Tiles, Evict(t) PROVE RegistryTypeOK'
    <2>1. DOMAIN toHost' = Hosts /\ \A h \in Hosts : toHost'[h] \in Seq(Commands(h))
      BY <1>5, SendDeleteType DEF Evict
    <2> QED BY <1>5, <2>1 DEF Evict, bounds, RegistryTypeOK, Datagrams, Commands
  <1>6. ASSUME NEW h \in Hosts, Lose(h) PROVE RegistryTypeOK'
    <2>1. losses' \in 0 .. MaxLosses
      BY <1>6, RegistryAssumption DEF Lose, RegistryTypeOK
    <2> QED BY <1>6, <2>1, HeadType DEF Lose, RegistryTypeOK, Datagrams, Commands
  <1>7. ASSUME NEW h \in Hosts, LoseCommand(h) PROVE RegistryTypeOK'
    BY <1>7, HeadType DEF LoseCommand, RegistryTypeOK, Datagrams, Commands
  <1>8. CASE UNCHANGED vars
    BY <1>8 DEF vars, bounds, RegistryTypeOK, Datagrams, Commands
  <1> QED BY <1>1, <1>2, <1>3, <1>4, <1>5, <1>6, <1>7, <1>8
          DEF Next, UserStep, HostStep, CoordinatorStep, NetworkStep, TileStep

-----------------------------------------------------------------------------
(* Tokens and modules.                                                     *)

QueueOf(l) == toCoordinator[HostOf[l]]
Pending(kind, l, t) == OnTheWay(QueueOf(l), Copies - losses, kind, l, t)
Commanded(l, t) == \E j \in DOMAIN toHost[HostOf[l]] : toHost[HostOf[l]][j] = <<l, t>>

\* A module that has gone and has, or will get, a token: it is still to be deleted.
GoneIsTold(l, t) ==
    <<l, t>> \notin modules /\ (mtknMap[t] = l \/ Says(QueueOf(l), "set", l, t))
        => Pending("delete", l, t)

\* A module that lives and has not, or will lose, its token: it is still to
\* be set, or it has been told to go.
LivingIsTold(l, t) ==
    lostCommands = 0 /\ <<l, t>> \in modules /\ (mtknMap[t] # l \/ Says(QueueOf(l), "delete", l, t))
        => Pending("set", l, t) \/ Commanded(l, t)

AllAreTold == \A l \in Lists, t \in Tiles : GoneIsTold(l, t) /\ LivingIsTold(l, t)

\* Not all copies of a burst are lost.
SomeCopyArrives == MaxLosses < Copies

LEMMA CopiesLeft ==
    ASSUME SomeCopyArrives, RegistryTypeOK
    PROVE  Copies - losses \in Nat /\ Copies - losses > 0 /\ Copies - losses <= Copies
  BY CopiesIsThree, RegistryAssumption DEF SomeCopyArrives, RegistryTypeOK

LEMMA OthersInBurst ==
    ASSUME NEW k, NEW l, NEW t, NEW l2, NEW t2, <<l2, t2>> # <<l, t>>, NEW n \in Nat
    PROVE  \A j \in 1 .. Len(Burst(k, l, t, n)) : ~About(Burst(k, l, t, n)[j], l2, t2)
  BY DEF Burst, About

\* A burst about one module leaves what is on the way about another.
LEMMA BroadcastOthers ==
    ASSUME SomeCopyArrives, RegistryTypeOK,
           NEW l \in Lists, NEW t \in Tiles, NEW k \in {"set", "delete"}, NEW n \in Nat,
           Broadcast(l, Burst(k, l, t, n)), losses' = losses,
           NEW l2 \in Lists, NEW t2 \in Tiles, <<l2, t2>> # <<l, t>>, NEW kind
    PROVE  /\ Pending(kind, l2, t2) => Pending(kind, l2, t2)'
           /\ Says(QueueOf(l2), kind, l2, t2)' => Says(QueueOf(l2), kind, l2, t2)
  <1> DEFINE q == QueueOf(l2)  r == Burst(k, l, t, n)
  <1>1. HostOf[l] \in Hosts /\ HostOf[l2] \in Hosts
    BY RegistryAssumption
  <1>2. CASE HostOf[l2] # HostOf[l]
    <2>1. QueueOf(l2)' = QueueOf(l2)
      BY <1>1, <1>2 DEF Broadcast, QueueOf, RegistryTypeOK
    <2> QED BY <2>1 DEF Pending
  <1>3. CASE HostOf[l2] = HostOf[l]
    <2>1. QueueOf(l2)' = q \o r
      BY <1>1, <1>3 DEF Broadcast, QueueOf, RegistryTypeOK
    <2>2. q \in Seq(Datagrams(HostOf[l])) /\ r \in Seq(Datagrams(HostOf[l]))
      BY <1>1, <1>3, BurstIsASeq DEF RegistryTypeOK, QueueOf
    <2>3. \A j \in 1 .. Len(r) : ~About(r[j], l2, t2)
      BY OthersInBurst
    <2> HIDE DEF q, r
    <2>4. ASSUME Pending(kind, l2, t2) PROVE Pending(kind, l2, t2)'
      <3>1. OnTheWay(q, Copies - losses, kind, l2, t2)
        BY <2>4 DEF Pending, q
      <3>2. OnTheWay(q \o r, Copies - losses, kind, l2, t2)
        BY <2>2, <2>3, <3>1, CopiesLeft, OnTheWayAppend
      <3> QED BY <2>1, <3>2 DEF Pending, Copies
    <2>5. ASSUME Says(q \o r, kind, l2, t2) PROVE Says(q, kind, l2, t2)
      <3>1. PICK j \in DOMAIN (q \o r) : About((q \o r)[j], l2, t2) /\ (q \o r)[j].kind = kind
        BY <2>5 DEF Says
      <3>2. /\ Len(q) \in Nat /\ Len(r) \in Nat /\ DOMAIN q = 1 .. Len(q)
            /\ DOMAIN (q \o r) = 1 .. Len(q) + Len(r)
            /\ (q \o r)[j] = IF j <= Len(q) THEN q[j] ELSE r[j - Len(q)]
        BY <2>2, ConcatProperties, LenProperties
      <3>3. CASE j > Len(q)
        <4>1. j - Len(q) \in 1 .. Len(r) /\ (q \o r)[j] = r[j - Len(q)]
          BY <3>2, <3>3
        <4> QED BY <4>1, <3>1, <2>3
      <3> QED BY <3>1, <3>2, <3>3 DEF Says
    <2>6. Says(QueueOf(l2), kind, l2, t2)' => Says(QueueOf(l2), kind, l2, t2)
      BY <2>1, <2>5 DEF q
    <2> QED BY <2>4, <2>6
  <1> QED BY <1>2, <1>3

LEMMA BroadcastOwn ==
    ASSUME SomeCopyArrives, RegistryTypeOK,
           NEW l \in Lists, NEW t \in Tiles, NEW k \in {"set", "delete"}, NEW n \in Nat, n >= Copies,
           Broadcast(l, Burst(k, l, t, n)), losses' = losses
    PROVE  Pending(k, l, t)'
  <1> DEFINE q == QueueOf(l)
  <1>1. HostOf[l] \in Hosts
    BY RegistryAssumption
  <1>2. QueueOf(l)' = q \o Burst(k, l, t, n)
    BY <1>1 DEF Broadcast, QueueOf, RegistryTypeOK
  <1>3. q \in Seq(Datagrams(HostOf[l])) /\ Burst(k, l, t, n) \in Seq(Datagrams(HostOf[l]))
    BY <1>1, BurstIsASeq DEF RegistryTypeOK, QueueOf
  <1>4. Copies - losses <= n /\ Copies - losses > 0 /\ Copies - losses \in Nat
    BY CopiesLeft, CopiesIsThree DEF RegistryTypeOK
  <1>5. OnTheWay(q \o Burst(k, l, t, n), Copies - losses, k, l, t)
    BY <1>3, <1>4, OnTheWayBurst
  <1> QED BY <1>2, <1>5 DEF Pending, Copies

LEMMA CreateTold ==
    ASSUME SomeCopyArrives, RegistryTypeOK, AllAreTold, NEW m \in Lists, NEW u \in Tiles, CreateModule(m, u)
    PROVE  AllAreTold'
  <1> SUFFICES ASSUME NEW l \in Lists, NEW t \in Tiles PROVE GoneIsTold(l, t)' /\ LivingIsTold(l, t)'
    BY DEF AllAreTold
  <1>1. /\ Broadcast(m, Burst("set", m, u, Copies)) /\ modules' = modules \cup {<<m, u>>}
        /\ UNCHANGED <<mtknMap, toHost, losses, lostCommands>>
    BY DEF CreateModule
  <1>2. CASE <<l, t>> = <<m, u>>
    <2>1. Pending("set", l, t)'
      BY <1>1, <1>2, BroadcastOwn, CopiesIsThree
    <2>2. <<l, t>> \in modules'
      BY <1>1, <1>2
    <2> QED BY <2>1, <2>2 DEF GoneIsTold, LivingIsTold
  <1>3. CASE <<l, t>> # <<m, u>>
    <2>1. \A kind : /\ Pending(kind, l, t) => Pending(kind, l, t)'
                    /\ Says(QueueOf(l), kind, l, t)' => Says(QueueOf(l), kind, l, t)
      BY <1>1, <1>3, BroadcastOthers, CopiesIsThree
    <2>2. <<l, t>> \in modules' <=> <<l, t>> \in modules
      BY <1>1, <1>3
    <2>3. Commanded(l, t)' <=> Commanded(l, t)
      BY <1>1 DEF Commanded
    <2>4. GoneIsTold(l, t)'
      BY <1>1, <2>1, <2>2 DEF GoneIsTold, AllAreTold
    <2>5. LivingIsTold(l, t)'
      BY <1>1, <2>1, <2>2, <2>3 DEF LivingIsTold, AllAreTold
    <2> QED BY <2>4, <2>5
  <1> QED BY <1>2, <1>3

\* A module goes, by the user's command or the Coordinator's.
LEMMA RemoveTold ==
    ASSUME SomeCopyArrives, RegistryTypeOK, AllAreTold, NEW m \in Lists, NEW u \in Tiles, Remove(m, u),
           UNCHANGED <<mtknMap, losses, lostCommands>>,
           \A l \in Lists, t \in Tiles : <<l, t>> # <<m, u>> /\ Commanded(l, t) => Commanded(l, t)'
    PROVE  AllAreTold'
  <1> SUFFICES ASSUME NEW l \in Lists, NEW t \in Tiles PROVE GoneIsTold(l, t)' /\ LivingIsTold(l, t)'
    BY DEF AllAreTold
  <1>1. modules' = modules \ {<<m, u>>}
    BY DEF Remove
  <1>2. CASE <<m, u>> \notin modules
    <2>1. toCoordinator' = toCoordinator
      BY <1>2 DEF Remove
    <2>2. \A kind : /\ Pending(kind, l, t)' <=> Pending(kind, l, t)
                    /\ Says(QueueOf(l), kind, l, t)' <=> Says(QueueOf(l), kind, l, t)
      BY <2>1 DEF Pending, QueueOf
    <2>3. <<l, t>> \in modules' <=> <<l, t>> \in modules
      BY <1>1, <1>2
    <2>4. GoneIsTold(l, t)'
      BY <2>2, <2>3 DEF GoneIsTold, AllAreTold
    <2>5. LivingIsTold(l, t)'
      BY <1>2, <2>2, <2>3 DEF LivingIsTold, AllAreTold
    <2> QED BY <2>4, <2>5
  <1>3. CASE <<m, u>> \in modules
    <2>1. PICK n \in Nat : n >= Copies /\ Broadcast(m, Burst("delete", m, u, n))
      BY <1>3, CopiesIsThree DEF Remove
    <2>2. CASE <<l, t>> = <<m, u>>
      <3>1. Pending("delete", l, t)'
        BY <2>1, <2>2, BroadcastOwn
      <3>2. <<l, t>> \notin modules'
        BY <1>1, <2>2
      <3> QED BY <3>1, <3>2 DEF GoneIsTold, LivingIsTold
    <2>3. CASE <<l, t>> # <<m, u>>
      <3>1. \A kind : /\ Pending(kind, l, t) => Pending(kind, l, t)'
                      /\ Says(QueueOf(l), kind, l, t)' => Says(QueueOf(l), kind, l, t)
        BY <2>1, <2>3, BroadcastOthers
      <3>2. <<l, t>> \in modules' <=> <<l, t>> \in modules
        BY <1>1, <2>3
      <3>3. GoneIsTold(l, t)'
        BY <3>1, <3>2 DEF GoneIsTold, AllAreTold
      <3>4. LivingIsTold(l, t)'
        BY <2>3, <3>1, <3>2 DEF LivingIsTold, AllAreTold
      <3> QED BY <3>3, <3>4
    <2> QED BY <2>2, <2>3
  <1> QED BY <1>2, <1>3

LEMMA ObeyTold ==
    ASSUME SomeCopyArrives, RegistryTypeOK, AllAreTold, NEW h \in Hosts, ObeyCommand(h)
    PROVE  AllAreTold'
  <1> DEFINE c == Head(toHost[h])
  <1>1. toHost[h] \in Seq(Commands(h)) /\ toHost[h] # <<>> /\ c \in Commands(h)
    BY HeadType DEF ObeyCommand, RegistryTypeOK
  <1>2. c[1] \in Lists /\ c[2] \in Tiles /\ c = <<c[1], c[2]>>
    BY <1>1 DEF Commands
  <1>3. Remove(c[1], c[2]) /\ UNCHANGED <<mtknMap, losses, lostCommands>> /\ toHost' = [toHost EXCEPT ![h] = Tail(@)]
    BY DEF ObeyCommand, bounds
  <1>4. ASSUME NEW l \in Lists, NEW t \in Tiles, <<l, t>> # <<c[1], c[2]>>, Commanded(l, t)
        PROVE  Commanded(l, t)'
    <2>1. PICK j \in DOMAIN toHost[HostOf[l]] : toHost[HostOf[l]][j] = <<l, t>>
      BY <1>4 DEF Commanded
    <2>2. CASE HostOf[l] # h
      <3>1. toHost'[HostOf[l]] = toHost[HostOf[l]]
        BY <1>3, <2>2, RegistryAssumption DEF RegistryTypeOK
      <3> QED BY <2>1, <3>1 DEF Commanded
    <2>3. CASE HostOf[l] = h
      <3>1. toHost'[h] = Tail(toHost[h])
        BY <1>3 DEF RegistryTypeOK
      <3>2. /\ Len(toHost[h]) \in Nat /\ DOMAIN toHost[h] = 1 .. Len(toHost[h])
            /\ DOMAIN Tail(toHost[h]) = 1 .. Len(toHost[h]) - 1 /\ c = toHost[h][1]
            /\ \A i \in 1 .. Len(toHost[h]) - 1 : Tail(toHost[h])[i] = toHost[h][i + 1]
        BY <1>1, HeadTailProperties, LenProperties
      <3>3. j # 1
        BY <1>2, <1>4, <2>1, <2>3, <3>2
      <3>4. j - 1 \in DOMAIN Tail(toHost[h]) /\ Tail(toHost[h])[j - 1] = <<l, t>>
        BY <2>1, <2>3, <3>2, <3>3
      <3> QED BY <2>3, <3>1, <3>4 DEF Commanded
    <2> QED BY <2>2, <2>3
  <1> HIDE DEF c
  <1> QED BY <1>2, <1>3, <1>4, RemoveTold

\* A command that was sent is under way; no other is taken away.
LEMMA SendDeleteCommands ==
    ASSUME RegistryTypeOK, NEW u \in Tiles, SendDelete(u), NEW l \in Lists, NEW t \in Tiles
    PROVE  /\ Commanded(l, t) => Commanded(l, t)'
           /\ t = u /\ mtknMap[u] = l => Commanded(l, t)'
  <1>1. CASE mtknMap[u] = NoList
    BY <1>1, RegistryAssumption DEF SendDelete, Commanded
  <1>2. CASE mtknMap[u] # NoList
    <2> DEFINE m == mtknMap[u]
    <2>1. m \in Lists /\ HostOf[m] \in Hosts /\ HostOf[l] \in Hosts
      BY <1>2, RegistryAssumption DEF RegistryTypeOK
    <2>2. toHost' = [toHost EXCEPT ![HostOf[m]] = Append(@, <<m, u>>)]
      BY <1>2 DEF SendDelete
    <2>3. CASE HostOf[l] # HostOf[m]
      <3>1. toHost'[HostOf[l]] = toHost[HostOf[l]] /\ l # m
        BY <2>1, <2>2, <2>3 DEF RegistryTypeOK
      <3> QED BY <3>1 DEF Commanded
    <2>4. CASE HostOf[l] = HostOf[m]
      <3> DEFINE q == toHost[HostOf[m]]
      <3>1. toHost'[HostOf[l]] = Append(q, <<m, u>>)
        BY <2>1, <2>2, <2>4 DEF RegistryTypeOK
      <3>2. q \in Seq(Commands(HostOf[m]))
        BY <2>1 DEF RegistryTypeOK
      <3> HIDE DEF q
      <3>3. /\ Len(q) \in Nat /\ DOMAIN q = 1 .. Len(q)
            /\ DOMAIN Append(q, <<m, u>>) = 1 .. Len(q) + 1
            /\ Append(q, <<m, u>>)[Len(q) + 1] = <<m, u>>
            /\ \A i \in 1 .. Len(q) : Append(q, <<m, u>>)[i] = q[i]
        BY <3>2, LenProperties
      <3>4. t = u /\ m = l => Commanded(l, t)'
        BY <3>1, <3>3 DEF Commanded
      <3>5. Commanded(l, t) => Commanded(l, t)'
        <4> SUFFICES ASSUME Commanded(l, t) PROVE Commanded(l, t)'
          OBVIOUS
        <4>1. PICK j \in DOMAIN q : q[j] = <<l, t>>
          BY <2>4 DEF Commanded, q
        <4>2. j \in 1 .. Len(q) /\ j \in 1 .. Len(q) + 1
          BY <3>3
        <4> QED BY <3>1, <3>3, <4>1, <4>2 DEF Commanded
      <3> QED BY <3>4, <3>5
    <2> QED BY <2>3, <2>4
  <1> QED BY <1>1, <1>2

LEMMA EvictTold ==
    ASSUME SomeCopyArrives, RegistryTypeOK, AllAreTold, NEW u \in Tiles, Evict(u)
    PROVE  AllAreTold'
  <1> SUFFICES ASSUME NEW l \in Lists, NEW t \in Tiles PROVE GoneIsTold(l, t)' /\ LivingIsTold(l, t)'
    BY DEF AllAreTold
  <1>1. /\ SendDelete(u) /\ mtknMap' = [mtknMap EXCEPT ![u] = NoList]
        /\ UNCHANGED <<modules, toCoordinator, losses, lostCommands>>
    BY DEF Evict, bounds
  <1>2. \A kind : /\ Pending(kind, l, t)' <=> Pending(kind, l, t)
                  /\ Says(QueueOf(l), kind, l, t)' <=> Says(QueueOf(l), kind, l, t)
    BY <1>1 DEF Pending, QueueOf
  <1>3. mtknMap'[t] = IF t = u THEN NoList ELSE mtknMap[t]
    BY <1>1 DEF RegistryTypeOK
  <1>4. GoneIsTold(l, t)'
    BY <1>1, <1>2, <1>3, RegistryAssumption DEF GoneIsTold, AllAreTold
  <1>5. /\ Commanded(l, t) => Commanded(l, t)'
        /\ t = u /\ mtknMap[u] = l => Commanded(l, t)'
    BY <1>1, SendDeleteCommands
  <1>6. LivingIsTold(l, t)'
    BY <1>1, <1>2, <1>3, <1>5 DEF LivingIsTold, AllAreTold
  <1> QED BY <1>4, <1>6

LEMMA TailSays ==
    ASSUME NEW S, NEW q \in Seq(S), q # <<>>, NEW kind, NEW l, NEW t, Says(Tail(q), kind, l, t)
    PROVE  Says(q, kind, l, t)
  <1>1. /\ Len(q) \in Nat /\ DOMAIN q = 1 .. Len(q) /\ DOMAIN Tail(q) = 1 .. Len(q) - 1
        /\ \A i \in 1 .. Len(q) - 1 : Tail(q)[i] = q[i + 1]
    BY HeadTailProperties, LenProperties, EmptySeq
  <1>2. PICK j \in DOMAIN Tail(q) : About(Tail(q)[j], l, t) /\ Tail(q)[j].kind = kind
    BY DEF Says
  <1>3. j + 1 \in DOMAIN q /\ q[j + 1] = Tail(q)[j]
    BY <1>1
  <1> QED BY <1>2, <1>3 DEF Says

LEMMA HeadSays ==
    ASSUME NEW S, NEW q \in Seq(S), q # <<>>
    PROVE  Says(q, Head(q).kind, Head(q).list, Head(q).tile)
  <1>1. 1 \in DOMAIN q /\ Head(q) = q[1]
    BY HeadTailProperties, LenProperties, EmptySeq
  <1> QED BY <1>1 DEF Says, About

LEMMA LoseTold ==
    ASSUME SomeCopyArrives, RegistryTypeOK, AllAreTold, NEW h \in Hosts, Lose(h)
    PROVE  AllAreTold'
  <1> SUFFICES ASSUME NEW l \in Lists, NEW t \in Tiles PROVE GoneIsTold(l, t)' /\ LivingIsTold(l, t)'
    BY DEF AllAreTold
  <1> DEFINE q == QueueOf(l)
  <1>1. /\ toCoordinator[h] # <<>> /\ toCoordinator' = [toCoordinator EXCEPT ![h] = Tail(@)]
        /\ losses' = losses + 1 /\ losses < MaxLosses
        /\ UNCHANGED <<modules, mtknMap, toHost, lostCommands>>
    BY DEF Lose
  <1>2. HostOf[l] \in Hosts /\ q \in Seq(Datagrams(HostOf[l]))
    BY RegistryAssumption DEF RegistryTypeOK, QueueOf
  <1>3. Copies - (losses + 1) \in Nat /\ Copies - (losses + 1) > 0 /\ Copies - losses = Copies - (losses + 1) + 1
    BY <1>1, CopiesIsThree, RegistryAssumption DEF SomeCopyArrives, RegistryTypeOK
  <1>4. ASSUME NEW kind, Pending(kind, l, t) PROVE Pending(kind, l, t)'
    <2>1. CASE HostOf[l] # h
      <3>1. QueueOf(l)' = q
        BY <1>1, <1>2, <2>1 DEF QueueOf, RegistryTypeOK
      <3> QED BY <1>1, <1>2, <1>3, <1>4, <3>1, OnTheWayLess DEF Pending, Copies
    <2>2. CASE HostOf[l] = h
      <3>1. QueueOf(l)' = Tail(q) /\ q # <<>>
        BY <1>1, <1>2, <2>2 DEF QueueOf, RegistryTypeOK
      <3> QED BY <1>1, <1>2, <1>3, <1>4, <3>1, OnTheWayFewer DEF Pending, Copies
    <2> QED BY <2>1, <2>2
  <1>5. ASSUME NEW kind, Says(QueueOf(l), kind, l, t)' PROVE Says(QueueOf(l), kind, l, t)
    <2>1. CASE HostOf[l] # h
      <3>1. QueueOf(l)' = q
        BY <1>1, <1>2, <2>1 DEF QueueOf, RegistryTypeOK
      <3> QED BY <1>5, <3>1
    <2>2. CASE HostOf[l] = h
      <3>1. QueueOf(l)' = Tail(q) /\ q # <<>>
        BY <1>1, <1>2, <2>2 DEF QueueOf, RegistryTypeOK
      <3> QED BY <1>2, <1>5, <3>1, TailSays
    <2> QED BY <2>1, <2>2
  <1>6. Commanded(l, t)' <=> Commanded(l, t)
    BY <1>1 DEF Commanded
  <1> QED BY <1>1, <1>4, <1>5, <1>6 DEF GoneIsTold, LivingIsTold, AllAreTold

LEMMA ReceiveTold ==
    ASSUME SomeCopyArrives, RegistryTypeOK, AllAreTold, NEW h \in Hosts, Receive(h)
    PROVE  AllAreTold'
  <1> SUFFICES ASSUME NEW l \in Lists, NEW t \in Tiles PROVE GoneIsTold(l, t)' /\ LivingIsTold(l, t)'
    BY DEF AllAreTold
  <1> DEFINE q == QueueOf(l)  d == Head(toCoordinator[h])
  <1>1. /\ toCoordinator[h] # <<>> /\ toCoordinator' = [toCoordinator EXCEPT ![h] = Tail(@)]
        /\ IF d.kind = "set" THEN SetMtkn(d.list, d.tile) ELSE DeleteMtkn(d.list, d.tile)
        /\ UNCHANGED <<modules, losses, lostCommands>>
    BY DEF Receive, bounds
  <1>2. d \in Datagrams(h)
    BY <1>1, HeadType
  <1>3. d.list \in Lists /\ d.tile \in Tiles /\ HostOf[d.list] = h /\ d.kind \in {"set", "delete"}
    BY <1>2 DEF Datagrams
  <1>4. HostOf[l] \in Hosts /\ q \in Seq(Datagrams(HostOf[l]))
    BY RegistryAssumption DEF RegistryTypeOK, QueueOf
  <1>5. Copies - losses \in Nat /\ Copies - losses > 0
    BY CopiesLeft
  <1>6. \/ /\ HostOf[l] # h /\ QueueOf(l)' = q /\ d.list # l
        \/ /\ HostOf[l] = h /\ QueueOf(l)' = Tail(q) /\ q # <<>> /\ d = Head(q)
    BY <1>1, <1>3, <1>4 DEF QueueOf, RegistryTypeOK
  <1>7. ASSUME NEW kind, Says(QueueOf(l), kind, l, t)' PROVE Says(QueueOf(l), kind, l, t)
    BY <1>4, <1>6, <1>7, TailSays
  \* What is on the way stays so, but for the last datagram it may be.
  <1>8. ASSUME NEW kind, NEW other, other # kind, Pending(kind, l, t),
               About(d, l, t) /\ d.kind = kind => Says(QueueOf(l), other, l, t)'
        PROVE  Pending(kind, l, t)'
    <2>1. CASE HostOf[l] # h
      BY <1>1, <1>6, <1>8, <2>1 DEF Pending, Copies
    <2>2. CASE HostOf[l] = h
      <3>1. QueueOf(l)' = Tail(q) /\ q # <<>> /\ d = Head(q)
        BY <1>6, <2>2
      <3>2. OnTheWay(q, Copies - losses, kind, l, t)
        BY <1>8 DEF Pending
      <3>3. OnTheWay(Tail(q), Copies - losses, kind, l, t)
        BY <1>4, <1>5, <1>8, <3>1, <3>2, OnTheWayTail
      <3> QED BY <1>1, <3>1, <3>3 DEF Pending, Copies
    <2> QED BY <2>1, <2>2
  <1>8a. Pending("set", l, t) /\ (About(d, l, t) /\ d.kind = "set" => Says(QueueOf(l), "delete", l, t)')
            => Pending("set", l, t)'
    BY <1>8, "delete" # "set"
  <1>8b. Pending("delete", l, t) /\ (About(d, l, t) /\ d.kind = "delete" => Says(QueueOf(l), "set", l, t)')
            => Pending("delete", l, t)'
    BY <1>8, "delete" # "set"
  <1>9. Commanded(l, t) => Commanded(l, t)'
    <2>1. CASE toHost' = toHost
      BY <2>1 DEF Commanded
    <2>2. CASE SendDelete(d.tile)
      BY <2>2, <1>3, SendDeleteCommands
    <2> QED BY <1>1, <2>1, <2>2 DEF SetMtkn, DeleteMtkn
  <1>10. CASE About(d, l, t) /\ d.kind = "set"
    <2>1. mtknMap'[t] = l
      BY <1>1, <1>3, <1>10 DEF SetMtkn, RegistryTypeOK, About
    <2>2. Says(QueueOf(l), "set", l, t)
      <3>1. HostOf[l] = h /\ q # <<>> /\ d = Head(q)
        BY <1>3, <1>6, <1>10 DEF About
      <3> QED BY <1>4, <1>10, <3>1, HeadSays DEF About
    <2>3. GoneIsTold(l, t)'
      <3>1. <<l, t>> \notin modules => Pending("delete", l, t)
        BY <2>2 DEF AllAreTold, GoneIsTold
      <3>2. <<l, t>> \notin modules => Pending("delete", l, t)'
        BY <1>8b, <1>10, <3>1
      <3> QED BY <1>1, <3>2 DEF GoneIsTold
    <2>4. LivingIsTold(l, t)'
      <3> SUFFICES ASSUME lostCommands' = 0, <<l, t>> \in modules', Says(QueueOf(l), "delete", l, t)'
                   PROVE  Pending("set", l, t)' \/ Commanded(l, t)'
        BY <2>1 DEF LivingIsTold
      <3>1. Pending("set", l, t) \/ Commanded(l, t)
        BY <1>1, <1>7 DEF AllAreTold, LivingIsTold
      <3> QED BY <1>8, <1>9, <3>1
    <2> QED BY <2>3, <2>4
  <1>11. CASE About(d, l, t) /\ d.kind = "delete"
    <2>1. mtknMap'[t] # l
      BY <1>1, <1>3, <1>11, RegistryAssumption DEF DeleteMtkn, RegistryTypeOK, About
    <2>2. Says(QueueOf(l), "delete", l, t)
      <3>1. HostOf[l] = h /\ q # <<>> /\ d = Head(q)
        BY <1>3, <1>6, <1>11 DEF About
      <3> QED BY <1>4, <1>11, <3>1, HeadSays DEF About
    <2>3. GoneIsTold(l, t)'
      <3> SUFFICES ASSUME <<l, t>> \notin modules', Says(QueueOf(l), "set", l, t)'
                   PROVE  Pending("delete", l, t)'
        BY <2>1 DEF GoneIsTold
      <3>1. Pending("delete", l, t)
        BY <1>1, <1>7 DEF AllAreTold, GoneIsTold
      <3> QED BY <1>8, <3>1
    <2>4. LivingIsTold(l, t)'
      <3>1. lostCommands = 0 /\ <<l, t>> \in modules => Pending("set", l, t) \/ Commanded(l, t)
        BY <2>2 DEF AllAreTold, LivingIsTold
      <3>2. lostCommands = 0 /\ <<l, t>> \in modules => Pending("set", l, t)' \/ Commanded(l, t)'
        BY <1>8a, <1>9, <1>11, <3>1
      <3> QED BY <1>1, <3>2 DEF LivingIsTold
    <2> QED BY <2>3, <2>4
  <1>12. CASE ~About(d, l, t)
    <2>1. mtknMap'[t] = l => mtknMap[t] = l
      BY <1>1, <1>3, <1>12, RegistryAssumption DEF SetMtkn, DeleteMtkn, RegistryTypeOK, About
    <2>2. mtknMap'[t] # l => mtknMap[t] # l \/ Commanded(l, t)'
      <3>1. CASE mtknMap' = mtknMap
        BY <3>1
      <3>2. CASE d.kind = "set" /\ SendDelete(d.tile) /\ mtknMap' = [mtknMap EXCEPT ![d.tile] = d.list]
        <4>1. d.tile = t /\ mtknMap[d.tile] = l => Commanded(l, t)'
          BY <1>3, <3>2, SendDeleteCommands
        <4> QED BY <3>2, <4>1, <1>3 DEF RegistryTypeOK
      <3>3. CASE d.kind # "set"
        BY <1>1, <1>3, <1>12, <3>3 DEF DeleteMtkn, RegistryTypeOK, About
      <3> QED BY <1>1, <3>1, <3>2, <3>3 DEF SetMtkn
    <2>3. \A kind \in {"set", "delete"} : Pending(kind, l, t) => Pending(kind, l, t)'
      BY <1>8, <1>12
    <2>4. GoneIsTold(l, t)'
      BY <1>1, <1>7, <2>1, <2>3 DEF GoneIsTold, AllAreTold
    <2>5. LivingIsTold(l, t)'
      BY <1>1, <1>7, <1>9, <2>2, <2>3 DEF LivingIsTold, AllAreTold
    <2> QED BY <2>4, <2>5
  <1> QED BY <1>3, <1>10, <1>11, <1>12

LEMMA InitTold == ASSUME Init PROVE AllAreTold
  <1> SUFFICES ASSUME NEW l \in Lists, NEW t \in Tiles PROVE GoneIsTold(l, t) /\ LivingIsTold(l, t)
    BY DEF AllAreTold
  <1>1. QueueOf(l) = <<>> /\ mtknMap[t] = NoList /\ modules = {}
    BY RegistryAssumption DEF Init, QueueOf
  <1>2. ~Says(QueueOf(l), "set", l, t)
    BY <1>1 DEF Says
  <1> QED BY <1>1, <1>2, RegistryAssumption DEF GoneIsTold, LivingIsTold

LEMMA StepTold == ASSUME SomeCopyArrives, RegistryTypeOK, AllAreTold, [Next]_vars PROVE AllAreTold'
  <1>1. ASSUME NEW l \in Lists, NEW t \in Tiles, CreateModule(l, t) PROVE AllAreTold'
    BY <1>1, CreateTold
  <1>2. ASSUME NEW l \in Lists, NEW t \in Tiles, DeleteModule(l, t) PROVE AllAreTold'
    <2>1. Remove(l, t) /\ UNCHANGED <<mtknMap, losses, lostCommands, toHost>>
      BY <1>2 DEF DeleteModule
    <2>2. \A m \in Lists, u \in Tiles : Commanded(m, u) => Commanded(m, u)'
      BY <2>1 DEF Commanded
    <2> QED BY <2>1, <2>2, RemoveTold
  <1>3. ASSUME NEW h \in Hosts, ObeyCommand(h) PROVE AllAreTold'
    BY <1>3, ObeyTold
  <1>4. ASSUME NEW h \in Hosts, Receive(h) PROVE AllAreTold'
    BY <1>4, ReceiveTold
  <1>5. ASSUME NEW t \in Tiles, Evict(t) PROVE AllAreTold'
    BY <1>5, EvictTold
  <1>6. ASSUME NEW h \in Hosts, Lose(h) PROVE AllAreTold'
    BY <1>6, LoseTold
  <1>7. ASSUME NEW h \in Hosts, LoseCommand(h) PROVE AllAreTold'
    <2>1. UNCHANGED <<modules, mtknMap, toCoordinator, losses>> /\ lostCommands' # 0
      BY <1>7 DEF LoseCommand, RegistryTypeOK
    <2> QED BY <2>1 DEF AllAreTold, GoneIsTold, LivingIsTold, Pending, QueueOf, Copies
  <1>8. CASE UNCHANGED vars
    BY <1>8 DEF vars, bounds, AllAreTold, GoneIsTold, LivingIsTold, Pending, QueueOf, Copies, Commanded
  <1> QED BY <1>1, <1>2, <1>3, <1>4, <1>5, <1>6, <1>7, <1>8
          DEF Next, UserStep, HostStep, CoordinatorStep, NetworkStep, TileStep

\* Where nothing is on the way nothing is pending.
LEMMA QuietTells ==
    ASSUME SomeCopyArrives, RegistryTypeOK, AllAreTold, Quiet
    PROVE  TokensNameModules /\ ModulesAreRegistered
  <1>1. ASSUME NEW l \in Lists, NEW t \in Tiles, NEW kind PROVE ~Pending(kind, l, t) /\ ~Commanded(l, t)
    <2>1. HostOf[l] \in Hosts /\ QueueOf(l) = <<>> /\ toHost[HostOf[l]] = <<>>
      BY RegistryAssumption DEF Quiet, QueueOf
    <2>2. 1 \in 1 .. Copies - losses
      BY CopiesLeft
    <2>3. DOMAIN QueueOf(l) = {} /\ DOMAIN toHost[HostOf[l]] = {}
      BY <2>1
    <2> QED BY <2>2, <2>3 DEF Pending, OnTheWay, Commanded
  <1>2. ASSUME NEW t \in Tiles, mtknMap[t] # NoList PROVE <<mtknMap[t], t>> \in modules
    <2>1. mtknMap[t] \in Lists
      BY <1>2 DEF RegistryTypeOK
    <2> QED BY <1>1, <2>1 DEF AllAreTold, GoneIsTold
  <1>3. ASSUME lostCommands = 0, NEW l \in Lists, NEW t \in Tiles, <<l, t>> \in modules PROVE mtknMap[t] = l
    BY <1>1, <1>3 DEF AllAreTold, LivingIsTold
  <1>4. TokensNameModules
    BY <1>2 DEF TokensNameModules, Registered
  <1>5. ModulesAreRegistered
    <2> SUFFICES ASSUME lostCommands = 0, NEW p \in modules PROVE p \in Registered
      BY DEF ModulesAreRegistered
    <2>1. PICK l \in Lists, t \in Tiles : p = <<l, t>>
      BY DEF RegistryTypeOK
    <2>2. mtknMap[t] = l /\ l # NoList
      BY <1>3, <2>1, RegistryAssumption
    <2> QED BY <2>1, <2>2 DEF Registered
  <1> QED BY <1>4, <1>5

LEMMA ToldAlways == ASSUME SomeCopyArrives PROVE Spec => [](RegistryTypeOK /\ AllAreTold)
  <1>1. Init => RegistryTypeOK /\ AllAreTold
    BY InitType, InitTold
  <1>2. RegistryTypeOK /\ AllAreTold /\ [Next]_vars => RegistryTypeOK' /\ AllAreTold'
    BY StepType, StepTold
  <1> QED BY <1>1, <1>2, PTL DEF Spec

(* Once the network is quiet every token of the Coordinator names a module *)
(* that lives: SetMdtkn and DeleteMdtkn come in bursts, are delayed, lost  *)
(* in part and interleaved with those of other modules of the tile, and    *)
(* each handler acts on what it is told.                                   *)
THEOREM TokensAreTrue == ASSUME SomeCopyArrives PROVE Spec => []TokensNameModules
  <1>1. RegistryTypeOK /\ AllAreTold => TokensNameModules
    <2>1. CASE Quiet
      BY <2>1, QuietTells
    <2>2. CASE ~Quiet
      BY <2>2 DEF TokensNameModules
    <2> QED BY <2>1, <2>2
  <1> QED BY <1>1, ToldAlways, PTL

(* And every module that lives has its tile's token, if no command of the  *)
(* Coordinator was lost: a module whose token was taken by another, or     *)
(* whose tile was found dead, is deleted by deleteMtkn's command.          *)
THEOREM LivingAreRegistered == ASSUME SomeCopyArrives PROVE Spec => []ModulesAreRegistered
  <1>1. RegistryTypeOK /\ AllAreTold => ModulesAreRegistered
    <2>1. CASE Quiet
      BY <2>1, QuietTells
    <2>2. CASE ~Quiet
      BY <2>2 DEF ModulesAreRegistered
    <2> QED BY <2>1, <2>2
  <1> QED BY <1>1, ToldAlways, PTL

-----------------------------------------------------------------------------
(* The Registry under its watchdog.                                        *)

\* The watchdog knows nothing but tiles.
KnownTiles == DOMAIN tMap \subseteq Tiles

\* A set of numbers that is not empty has a least one.
LEMMA Least == ASSUME NEW T \in SUBSET Nat, T # {} PROVE \E m \in T : \A k \in T : m <= k
  <1>1. PICK m \in T : \A k \in T : ~ (<<k, m>> \in OpToRel(<, Nat))
    BY NatLessThanWellFounded, WFMin
  <1>2. \A k \in T : ~ (k < m)
    BY <1>1 DEF OpToRel
  <1> QED BY <1>2

LEMMA NextIsATile == ASSUME KnownTiles, W!Later # {} PROVE W!NextTile \in Tiles /\ W!NextTile \in DOMAIN tMap
  <1>1. W!Later \in SUBSET Nat /\ W!Later \subseteq DOMAIN tMap
    BY SystemAssumption DEF KnownTiles, W!Later
  <1>2. \E m \in W!Later : \A k \in W!Later : m <= k
    BY <1>1, Least
  <1>3. W!NextTile \in W!Later
    BY <1>2 DEF W!NextTile
  <1> QED BY <1>1, <1>3 DEF KnownTiles

LEMMA InitKnown == SystemInit => KnownTiles
  BY DEF SystemInit, KnownTiles, W!WatchInit

LEMMA StepKnown == ASSUME KnownTiles, [SystemNext]_systemVars PROVE KnownTiles'
  <1>1. CASE WatchStep
    <2>1. CASE EraseTile
      BY <2>1 DEF EraseTile, W!EraseDead, KnownTiles
    <2>2. CASE W!Examine
      BY <2>2, NextIsATile DEF W!Examine, W!Put, KnownTiles
    <2>3. CASE W!EndDeadCheck
      BY <2>3 DEF W!EndDeadCheck, KnownTiles
    <2> QED BY <1>1, <2>1, <2>2, <2>3 DEF WatchStep
  <1>2. CASE ServerStep
    <2>1. PICK h \in Hosts : ReceiveAndLight(h)
      BY <1>2 DEF ServerStep
    <2>2. CASE ~SetsToken(h)
      BY <2>1, <2>2 DEF ReceiveAndLight, tileState, KnownTiles
    <2>3. CASE SetsToken(h)
      BY <2>1, <2>3 DEF ReceiveAndLight, W!SetAlive, W!Put, KnownTiles
    <2> QED BY <2>2, <2>3
  <1>3. CASE OtherStep
    BY <1>3 DEF OtherStep, tileState, KnownTiles
  <1>4. CASE RadioStep
    <2>1. ASSUME NEW d \in Radios, W!Switch(d) PROVE KnownTiles'
      BY <2>1 DEF W!Switch, KnownTiles
    <2>2. ASSUME NEW c \in Claims, W!Frame(c[1], c[2]) \/ W!InitTile(c[1], c[2]) PROVE KnownTiles'
      <3>1. c[2] \in Tiles
        BY SystemAssumption
      <3> QED BY <2>2, <3>1 DEF W!Frame, W!InitTile, W!Put, KnownTiles
    <2> QED BY <1>4, <2>1, <2>2 DEF RadioStep, W!RadioStep
  <1>5. CASE UNCHANGED systemVars
    BY <1>5 DEF systemVars, KnownTiles
  <1> QED BY <1>1, <1>2, <1>3, <1>4, <1>5 DEF SystemNext

\* Every step is one of the Registry's, or the Registry stands still.
LEMMA StepMaps == ASSUME KnownTiles, [SystemNext]_systemVars PROVE [Next]_vars
  <1>1. CASE WatchStep
    <2>1. CASE EraseTile
      <3>1. W!NextTile \in Tiles
        BY <2>1, NextIsATile DEF EraseTile, W!EraseDead
      <3> QED BY <2>1, <3>1 DEF EraseTile, registryVars, Next, TileStep
    <2> QED BY <1>1, <2>1 DEF WatchStep, registryVars
  <1>2. CASE ServerStep
    BY <1>2 DEF ServerStep, ReceiveAndLight, Next, CoordinatorStep
  <1>3. CASE OtherStep
    BY <1>3 DEF OtherStep, Next
  <1>4. CASE RadioStep
    BY <1>4 DEF RadioStep, registryVars
  <1>5. CASE UNCHANGED systemVars
    BY <1>5 DEF systemVars
  <1> QED BY <1>1, <1>2, <1>3, <1>4, <1>5 DEF SystemNext

(* What holds of the Registry's tokens and modules holds under a watchdog  *)
(* that finds tiles dead while the handlers run.                           *)
THEOREM WatchedRegistry == SystemSpec => ImplementsRegistry
  <1>1. SystemInit => Init
    BY DEF SystemInit
  <1>2. KnownTiles /\ [SystemNext]_systemVars => KnownTiles'
    BY StepKnown
  <1>3. KnownTiles /\ [SystemNext]_systemVars => [Next]_vars
    BY StepMaps
  <1> QED BY InitKnown, <1>1, <1>2, <1>3, PTL DEF SystemSpec, ImplementsRegistry, Spec

(* So a watchdog that evicts in the middle of the handlers' exchanges      *)
(* leaves no token without its module.                                     *)
COROLLARY WatchedTokensAreTrue == ASSUME SomeCopyArrives PROVE SystemSpec => []TokensNameModules
  BY WatchedRegistry, TokensAreTrue, PTL DEF ImplementsRegistry
=============================================================================
