--------------------------- MODULE SafePartsProofs ---------------------------
(***************************************************************************)
(* What is proved of the parts that are called: liblo's sockets and its     *)
(* list of methods, the streams of PortAudio, the line of a Delay and a     *)
(* file of portsf.  Each has its own inductive invariant, for any number of *)
(* its servers, modules, devices, samples and frames.                       *)
(***************************************************************************)
EXTENDS OscSockets, OscMethods, AudioDevices, DelayLine, SoundFile, SelectionProofs,
        FiniteSetTheorems, FunctionTheorems

-----------------------------------------------------------------------------
(***************************************************************************)
(* Sockets: whoever remembers a descriptor still owns it.                  *)
(***************************************************************************)

SocketsTypeOK ==
    /\ open \in [DOMAIN open -> Servers \cup Addresses \cup {"nobody"}]
    /\ DOMAIN open \subseteq Descriptors
    /\ server \in [Servers -> Descriptors \cup {NoSocket}]
    /\ address \in [Addresses -> Descriptors \cup {NoSocket, NoAddress}]

\* Whoever remembers a descriptor still owns it, and what the clients send
\* from is what a server remembers.
OwnersRemember ==
    /\ \A s \in Servers : server[s] # NoSocket => server[s] \in DOMAIN open /\ open[server[s]] = s
    /\ \A a \in Addresses :
           address[a] \notin {NoSocket, NoAddress} => address[a] \in DOMAIN open /\ open[address[a]] = a
    /\ clientUdp # NoSocket => \E s \in Servers : server[s] = clientUdp

SocketsInv == SocketsTypeOK /\ OwnersRemember /\ SentFromItsOwn

LEMMA DescriptorsAreNot == NoSocket \notin Descriptors /\ NoAddress \notin Descriptors
  BY SocketsAssumption DEF NoSocket, NoAddress

LEMMA SocketsBegin == SocketsInit => SocketsInv
  <1> SUFFICES ASSUME SocketsInit PROVE SocketsInv
    OBVIOUS
  <1>1. DOMAIN open = {} /\ sent = {}
    BY DEF SocketsInit
  <1>2. SocketsTypeOK
    BY <1>1 DEF SocketsInit, SocketsTypeOK
  <1> QED BY <1>1, <1>2 DEF SocketsInit, SocketsInv, OwnersRemember, SentFromItsOwn, NoSocket, NoAddress

\* A server is made of descriptors that were free: nobody's are taken away.
LEMMA ServerNewKeeps == ASSUME SocketsInv, NEW s \in Servers, ServerNew(s) PROVE SocketsInv'
  <1>1. UNCHANGED <<address, sent>> /\ server[s] = NoSocket
    BY DEF ServerNew
  <1>2. PICK fds \in SUBSET (Descriptors \ DOMAIN open) : \E last \in fds :
            \/ /\ open' = With(Opened(fds), last, s)
               /\ server' = [server EXCEPT ![s] = last]
               /\ clientUdp' = last
            \/ /\ open' = Without(Opened(fds), {last})
               /\ UNCHANGED <<server, clientUdp>>
    <2>1. PICK tries \in 1 .. MAX_TRIES : \E last \in Lowest(tries) :
            \/ /\ open' = With(Opened(Lowest(tries)), last, s)
               /\ server' = [server EXCEPT ![s] = last]
               /\ clientUdp' = last
            \/ /\ open' = Without(Opened(Lowest(tries)), {last})
               /\ UNCHANGED <<server, clientUdp>>
      BY Zenon DEF ServerNew
    <2>2. Lowest(tries) \in SUBSET (Descriptors \ DOMAIN open)
      BY DEF Lowest, FreeDescriptors
    <2> QED BY <2>1, <2>2
  <1>3. PICK last \in fds :
            \/ /\ open' = With(Opened(fds), last, s)
               /\ server' = [server EXCEPT ![s] = last]
               /\ clientUdp' = last
            \/ /\ open' = Without(Opened(fds), {last})
               /\ UNCHANGED <<server, clientUdp>>
    BY <1>2
  <1>4. /\ DOMAIN open \subseteq DOMAIN open'
        /\ \A d \in DOMAIN open : open'[d] = open[d]
    BY <1>3 DEF With, Without, Opened
  <1>5. SocketsTypeOK'
    <2>1. open' \in [DOMAIN open' -> Servers \cup Addresses \cup {"nobody"}]
      BY <1>3 DEF With, Without, Opened, SocketsInv, SocketsTypeOK
    <2>2. DOMAIN open' \subseteq Descriptors
      BY <1>3 DEF With, Without, Opened, SocketsInv, SocketsTypeOK
    <2>3. server' \in [Servers -> Descriptors \cup {NoSocket}]
      BY <1>3 DEF SocketsInv, SocketsTypeOK
    <2> QED BY <1>1, <2>1, <2>2, <2>3 DEF SocketsInv, SocketsTypeOK
  <1>6. OwnersRemember'
    <2>1. CASE UNCHANGED <<server, clientUdp>>
      BY <1>1, <1>4, <2>1 DEF SocketsInv, OwnersRemember
    <2>2. CASE /\ open' = With(Opened(fds), last, s)
               /\ server' = [server EXCEPT ![s] = last]
               /\ clientUdp' = last
      <3>1. last \in DOMAIN open' /\ open'[last] = s
        BY <1>3, <2>2 DEF With, Opened
      <3>2. \A t \in Servers : server'[t] = IF t = s THEN last ELSE server[t]
        BY <2>2 DEF SocketsInv, SocketsTypeOK
      <3> QED BY <1>1, <1>4, <2>2, <3>1, <3>2 DEF SocketsInv, OwnersRemember
    <2> QED BY <1>3, <2>1, <2>2
  <1>7. SentFromItsOwn'
    BY <1>1 DEF SocketsInv, SentFromItsOwn
  <1> QED BY <1>5, <1>6, <1>7 DEF SocketsInv

\* What the clients send from is forgotten with the server that had it.
LEMMA ServerFreeKeeps == ASSUME SocketsInv, NEW s \in Servers, ServerFree(s) PROVE SocketsInv'
  <1>1. /\ server[s] # NoSocket /\ clientUdp' = Forgotten(server[s])
        /\ open' = Without(open, {server[s]})
        /\ server' = [server EXCEPT ![s] = NoSocket]
        /\ UNCHANGED <<address, sent>>
    BY DEF ServerFree
  <1>2. server[s] \in DOMAIN open /\ open[server[s]] = s
    BY <1>1 DEF SocketsInv, OwnersRemember
  <1>3. /\ DOMAIN open' = DOMAIN open \ {server[s]}
        /\ \A d \in DOMAIN open' : open'[d] = open[d]
    BY <1>1 DEF Without
  <1>4. \A t \in Servers : server'[t] = IF t = s THEN NoSocket ELSE server[t]
    BY <1>1 DEF SocketsInv, SocketsTypeOK
  <1>5. SocketsTypeOK'
    BY <1>1, <1>3 DEF SocketsInv, SocketsTypeOK, Without
  <1>6. OwnersRemember'
    <2>1. \A t \in Servers : server'[t] # NoSocket => server'[t] \in DOMAIN open' /\ open'[server'[t]] = t
      BY <1>2, <1>3, <1>4 DEF SocketsInv, OwnersRemember
    <2>2. \A a \in Addresses : address'[a] \notin {NoSocket, NoAddress}
              => address'[a] \in DOMAIN open' /\ open'[address'[a]] = a
      BY <1>1, <1>2, <1>3, SocketsAssumption DEF SocketsInv, OwnersRemember
    <2>3. clientUdp' # NoSocket => \E t \in Servers : server'[t] = clientUdp'
      BY <1>1, <1>4 DEF SocketsInv, OwnersRemember, Forgotten
    <2> QED BY <2>1, <2>2, <2>3 DEF OwnersRemember
  <1>7. SentFromItsOwn'
    BY <1>1 DEF SocketsInv, SentFromItsOwn
  <1> QED BY <1>5, <1>6, <1>7 DEF SocketsInv

\* An address closes no socket but its own.
LEMMA AddressKeeps ==
    ASSUME SocketsInv, NEW a \in Addresses, AddressNew(a) \/ AddressFree(a)
    PROVE  SocketsInv'
  <1>1. UNCHANGED <<server, clientUdp, sent>> /\ address' \in [Addresses -> Descriptors \cup {NoSocket, NoAddress}]
    BY DEF AddressNew, AddressFree, SocketsInv, SocketsTypeOK
  <1>2. \A b \in Addresses : b # a => address'[b] = address[b]
    BY DEF AddressNew, AddressFree, SocketsInv, SocketsTypeOK
  <1>3. address'[a] \in {NoSocket, NoAddress}
    BY DEF AddressNew, AddressFree, SocketsInv, SocketsTypeOK
  <1>4. /\ DOMAIN open' \in {DOMAIN open, DOMAIN open \ {address[a]}}
        /\ \A d \in DOMAIN open' : open'[d] = open[d]
        /\ open' \in [DOMAIN open' -> Servers \cup Addresses \cup {"nobody"}]
    BY DEF AddressNew, AddressFree, Without, SocketsInv, SocketsTypeOK
  <1>5. SocketsTypeOK'
    BY <1>1, <1>4 DEF SocketsInv, SocketsTypeOK
  <1>6. \A d \in DOMAIN open : open[d] # a => d \in DOMAIN open'
    BY <1>4, DescriptorsAreNot DEF SocketsInv, SocketsTypeOK, OwnersRemember
  <1>7. OwnersRemember'
    BY <1>1, <1>2, <1>3, <1>4, <1>6, SocketsAssumption DEF SocketsInv, OwnersRemember
  <1>8. SentFromItsOwn'
    BY <1>1 DEF SocketsInv, SentFromItsOwn
  <1> QED BY <1>5, <1>7, <1>8 DEF SocketsInv

\* A socket that is made for an address gets a free descriptor.
LEMMA SendKeeps == ASSUME SocketsInv, NEW a \in Addresses, SendData(a) PROVE SocketsInv'
  <1>1. UNCHANGED <<server, clientUdp>> /\ address[a] # NoAddress
    BY DEF SendData
  <1>2. CASE clientUdp # NoSocket
    <2>1. UNCHANGED <<open, address>> /\ Sends(a, clientUdp)
      BY <1>2 DEF SendData
    <2>2. clientUdp \in DOMAIN open /\ open[clientUdp] \in Servers
      BY <1>2 DEF SocketsInv, OwnersRemember
    <2> QED BY <1>1, <2>1, <2>2 DEF Sends, SocketsInv, SocketsTypeOK, OwnersRemember, SentFromItsOwn
  <1>3. CASE clientUdp = NoSocket /\ address[a] # NoSocket
    <2>1. UNCHANGED <<open, address>> /\ Sends(a, address[a])
      BY <1>3 DEF SendData
    <2>2. address[a] \in DOMAIN open /\ open[address[a]] = a
      BY <1>1, <1>3 DEF SocketsInv, OwnersRemember
    <2> QED BY <1>1, <2>1, <2>2 DEF Sends, SocketsInv, SocketsTypeOK, OwnersRemember, SentFromItsOwn
  <1>4. CASE clientUdp = NoSocket /\ address[a] = NoSocket
    <2>1. PICK d \in Lowest(1) :
              /\ open' = With(open, d, a)
              /\ address' = [address EXCEPT ![a] = d]
              /\ Sends(a, d)
      BY <1>4 DEF SendData
    <2>2. d \in Descriptors /\ d \notin DOMAIN open
      BY DEF Lowest, FreeDescriptors
    <2>3. /\ DOMAIN open' = DOMAIN open \cup {d}
          /\ open'[d] = a /\ \A e \in DOMAIN open : open'[e] = open[e]
      BY <2>1, <2>2 DEF With
    <2>4. SocketsTypeOK'
      BY <1>1, <2>1, <2>2 DEF SocketsInv, SocketsTypeOK, With
    <2>5. \A b \in Addresses : address'[b] = IF b = a THEN d ELSE address[b]
      BY <2>1 DEF SocketsInv, SocketsTypeOK
    <2>6. OwnersRemember'
      BY <1>1, <2>3, <2>5 DEF SocketsInv, OwnersRemember
    <2>7. SentFromItsOwn'
      BY <2>1, <2>3 DEF Sends, SentFromItsOwn
    <2> QED BY <2>4, <2>6, <2>7 DEF SocketsInv
  <1> QED BY <1>2, <1>3, <1>4

(* No datagram leaves on a descriptor that was closed, or that has become  *)
(* another's since.                                                        *)
THEOREM OwnSockets == SocketsSpec => []SentFromItsOwn
  <1>1. SocketsInv /\ [SocketsNext]_socketVars => SocketsInv'
    <2> SUFFICES ASSUME SocketsInv, [SocketsNext]_socketVars PROVE SocketsInv'
      OBVIOUS
    <2>1. CASE UNCHANGED socketVars
      BY <2>1 DEF socketVars, SocketsInv, SocketsTypeOK, OwnersRemember, SentFromItsOwn
    <2> QED BY <2>1, ServerNewKeeps, ServerFreeKeeps, AddressKeeps, SendKeeps DEF SocketsNext
  <1>2. SocketsInv => SentFromItsOwn
    BY DEF SocketsInv
  <1> QED BY SocketsBegin, <1>1, <1>2, PTL DEF SocketsSpec

-----------------------------------------------------------------------------
(***************************************************************************)
(* Methods: outside of overlapping edits the list is exactly what the      *)
(* threads have added and not yet deleted.                                 *)
(***************************************************************************)

Method == [obj : Objects, spec : STRING]
Work == [op : {"add", "del"}, obj : Objects, spec : STRING]
Owned(th) == IF th = "main" THEN MainObjects ELSE Others

ListTypes ==
    /\ methods \in Seq(Method)
    /\ life \in [Objects -> {"unborn", "alive", "dead"}]
    /\ jobs \in [Threads -> Seq(Work)]
    /\ DOMAIN found = Threads

JobOf(th, o) ==
    /\ life[o] # "unborn"
    /\ \A n \in DOMAIN jobs[th] :
           /\ jobs[th][n].obj = o
           /\ jobs[th][n].op = IF life[o] = "alive" THEN "add" ELSE "del"
           /\ jobs[th][n].spec \in Added(o)
           /\ life[o] = "dead" => jobs[th][n].spec \in Deletes[o]
    /\ \A n, k \in DOMAIN jobs[th] : jobs[th][n].spec = jobs[th][k].spec => n = k
    /\ life[o] = "dead" => \A x \in Objects : Path[x] = Path[o] => life[x] # "alive"
OneJob == \A th \in Threads : jobs[th] # <<>> => \E o \in Owned(th) : JobOf(th, o)

ToDo(o, s) == \E th \in Threads : \E n \in DOMAIN jobs[th] : jobs[th][n].obj = o /\ jobs[th][n].spec = s

InTheList ==
    \A o \in Objects, s \in STRING :
        InList([obj |-> o, spec |-> s]) <=>
            /\ s \in Added(o)
            /\ \/ life[o] = "alive" /\ ~ToDo(o, s)
               \/ life[o] = "dead" /\ (s \in Deletes[o] => ToDo(o, s))

Once == \A n, k \in DOMAIN methods : methods[n] = methods[k] => n = k

OnePerPath == \A o, x \in Objects : life[o] = "alive" /\ life[x] = "alive" /\ Path[o] = Path[x] => o = x

EndFound ==
    \A th \in Threads : found[th] # <<>> =>
        /\ jobs[th] # <<>> /\ jobs[th][1].op = "add"
        /\ found[th] = <<IF methods = <<>> THEN NoMethod ELSE methods[Len(methods)]>>

WalkOn ==
    /\ msg # <<>> => msg[1].about \in Others /\ \A n \in DOMAIN jobs["main"] : jobs["main"][n].op = "add"
    /\ it # NoMethod => msg # <<>> /\ it \in Method /\ InList(it)
    /\ jobs["server"] # <<>> => it # NoMethod /\ it.obj = Controller

Listing == ListTypes /\ OneJob /\ InTheList /\ Once /\ OnePerPath /\ EndFound
\* What is called of a deleted module is what its destructor has forgotten.
CalledAreForgotten == \A m \in wild : m.obj \in Objects /\ m.spec \in Added(m.obj) /\ m.spec \notin Deletes[m.obj]
MethodsInv == ~overlapped => Listing /\ WalkOn /\ CalledAreForgotten /\ ~dangling

LEMMA JobsType ==
    ASSUME ListTypes, NEW th \in Threads
    PROVE  /\ jobs[th] \in Seq(Work) /\ Len(jobs[th]) \in Nat /\ DOMAIN jobs[th] = 1 .. Len(jobs[th])
           /\ \A n \in DOMAIN jobs[th] : jobs[th][n] \in Work
           /\ jobs[th] # <<>> => /\ 1 \in DOMAIN jobs[th] /\ Head(jobs[th]) = jobs[th][1]
                                 /\ Tail(jobs[th]) \in Seq(Work)
                                 /\ Len(Tail(jobs[th])) = Len(jobs[th]) - 1
                                 /\ DOMAIN Tail(jobs[th]) = 1 .. Len(jobs[th]) - 1
                                 /\ \A n \in 1 .. Len(jobs[th]) - 1 : Tail(jobs[th])[n] = jobs[th][n + 1]
  <1>1. jobs[th] \in Seq(Work)
    BY DEF ListTypes
  <1>2. Len(jobs[th]) \in Nat /\ DOMAIN jobs[th] = 1 .. Len(jobs[th]) /\ \A n \in 1 .. Len(jobs[th]) : jobs[th][n] \in Work
    BY <1>1, LenProperties, ElementOfSeq
  <1>3. ASSUME jobs[th] # <<>>
        PROVE  /\ 1 \in DOMAIN jobs[th] /\ Head(jobs[th]) = jobs[th][1]
               /\ Tail(jobs[th]) \in Seq(Work) /\ Len(Tail(jobs[th])) = Len(jobs[th]) - 1
               /\ DOMAIN Tail(jobs[th]) = 1 .. Len(jobs[th]) - 1
               /\ \A n \in 1 .. Len(jobs[th]) - 1 : Tail(jobs[th])[n] = jobs[th][n + 1]
    <2>1. /\ Tail(jobs[th]) \in Seq(Work) /\ Len(Tail(jobs[th])) = Len(jobs[th]) - 1
          /\ \A n \in 1 .. Len(Tail(jobs[th])) : Tail(jobs[th])[n] = jobs[th][n + 1]
      BY <1>1, <1>3, HeadTailProperties
    <2>2. Len(jobs[th]) > 0
      BY <1>1, <1>2, <1>3, EmptySeq
    <2>3. DOMAIN Tail(jobs[th]) = 1 .. Len(Tail(jobs[th]))
      BY <2>1, LenProperties
    <2>4. Head(jobs[th]) = jobs[th][1]
      BY <1>1, <1>3
    <2> QED BY <1>2, <2>1, <2>2, <2>3, <2>4
  <1> QED BY <1>1, <1>2, <1>3

\* What a constructor or a destructor has before it
LEMMA WorkIs ==
    ASSUME NEW o \in Objects, NEW op \in {"add", "del"}, NEW specs \in Seq(STRING)
    PROVE  /\ ListOps(op, o, specs) \in Seq(Work) /\ DOMAIN ListOps(op, o, specs) = DOMAIN specs
           /\ \A n \in DOMAIN specs : ListOps(op, o, specs)[n] = [op |-> op, obj |-> o, spec |-> specs[n]]
  <1>1. Len(specs) \in Nat /\ DOMAIN specs = 1 .. Len(specs) /\ \A n \in 1 .. Len(specs) : specs[n] \in STRING
    BY LenProperties, ElementOfSeq
  <1> DEFINE w(n) == [op |-> op, obj |-> o, spec |-> specs[n]]
  <1>2. \A n \in 1 .. Len(specs) : w(n) \in Work
    BY <1>1 DEF Work
  <1>3. [n \in 1 .. Len(specs) |-> w(n)] \in Seq(Work)
    <2> HIDE DEF w
    <2> QED BY <1>1, <1>2, IsASeq
  <1> QED BY <1>1, <1>3 DEF ListOps

LEMMA ConstructsIs ==
    ASSUME NEW o \in Objects
    PROVE  /\ Constructs(o) \in Seq(Work)
           /\ \A n \in DOMAIN Constructs(o) : /\ Constructs(o)[n].obj = o /\ Constructs(o)[n].op = "add"
                                               /\ Constructs(o)[n].spec \in Added(o)
           /\ \A n, k \in DOMAIN Constructs(o) : Constructs(o)[n].spec = Constructs(o)[k].spec => n = k
           /\ \A s \in Added(o) : \E n \in DOMAIN Constructs(o) : Constructs(o)[n].spec = s
  <1>1. Adds[o] \in Seq(STRING) /\ \A n, k \in DOMAIN Adds[o] : Adds[o][n] = Adds[o][k] => n = k
    BY OscMethodsAssumption
  <1>2. /\ Constructs(o) \in Seq(Work) /\ DOMAIN Constructs(o) = DOMAIN Adds[o]
        /\ \A n \in DOMAIN Adds[o] : Constructs(o)[n] = [op |-> "add", obj |-> o, spec |-> Adds[o][n]]
    BY <1>1, WorkIs DEF Constructs
  <1> HIDE DEF Constructs
  <1>3. ASSUME NEW n \in DOMAIN Adds[o]
        PROVE  /\ Constructs(o)[n].obj = o /\ Constructs(o)[n].op = "add"
               /\ Constructs(o)[n].spec = Adds[o][n] /\ Adds[o][n] \in Added(o)
    <2>1. Constructs(o)[n] = [op |-> "add", obj |-> o, spec |-> Adds[o][n]]
      BY <1>2
    <2>2. Adds[o][n] \in Added(o)
      BY DEF Added
    <2> QED BY <2>1, <2>2
  <1>4. \A s \in Added(o) : \E n \in DOMAIN Adds[o] : Adds[o][n] = s
    BY DEF Added
  <1>5. \A n, k \in DOMAIN Constructs(o) : Constructs(o)[n].spec = Constructs(o)[k].spec => n = k
    BY <1>1, <1>2, <1>3
  <1> QED BY <1>2, <1>3, <1>4, <1>5

LEMMA DestructsIs ==
    ASSUME NEW o \in Objects
    PROVE  /\ Destructs(o) \in Seq(Work)
           /\ \A n \in DOMAIN Destructs(o) : /\ Destructs(o)[n].obj = o /\ Destructs(o)[n].op = "del"
                                              /\ Destructs(o)[n].spec \in Deletes[o]
           /\ \A n, k \in DOMAIN Destructs(o) : Destructs(o)[n].spec = Destructs(o)[k].spec => n = k
           /\ \A s \in Deletes[o] : \E n \in DOMAIN Destructs(o) : Destructs(o)[n].spec = s
  <1>1. /\ Adds[o] \in Seq(STRING) /\ \A n, k \in DOMAIN Adds[o] : Adds[o][n] = Adds[o][k] => n = k
        /\ Deletes[o] \subseteq Added(o)
    BY OscMethodsAssumption
  <1> DEFINE d == Selected(Adds[o], Deletes[o])
  <1>2. d \in Seq(STRING)
    BY <1>1, SelectedType
  <1>3. PICK h : Places(h, d, Adds[o], Len(Adds[o]), Deletes[o])
    BY <1>1, SelectedPlaces
  <1>4. DOMAIN d = 1 .. Len(d) /\ DOMAIN Adds[o] = 1 .. Len(Adds[o]) /\ Len(d) \in Nat
    BY <1>1, <1>2, LenProperties
  <1>5. /\ Destructs(o) \in Seq(Work) /\ DOMAIN Destructs(o) = DOMAIN d
        /\ \A n \in DOMAIN d : Destructs(o)[n] = [op |-> "del", obj |-> o, spec |-> d[n]]
    BY <1>2, WorkIs DEF Destructs
  <1> HIDE DEF d
  <1>6. \A n, k \in DOMAIN d : d[n] = d[k] => n = k
    <2> SUFFICES ASSUME NEW n \in 1 .. Len(d), NEW k \in 1 .. Len(d), d[n] = d[k], n < k PROVE FALSE
      BY <1>4
    <2>1. /\ h[n] \in DOMAIN Adds[o] /\ h[k] \in DOMAIN Adds[o] /\ Adds[o][h[n]] = Adds[o][h[k]]
          /\ h[n] < h[k]
      BY <1>3, <1>4 DEF Places
    <2> QED BY <1>1, <1>4, <2>1
  <1>7. \A n \in DOMAIN d : d[n] \in Deletes[o]
    BY <1>3, <1>4 DEF Places
  <1>8. ASSUME NEW s \in Deletes[o] PROVE \E n \in DOMAIN d : d[n] = s
    <2>1. PICK i \in 1 .. Len(Adds[o]) : Adds[o][i] = s
      BY <1>1, <1>4 DEF Added
    <2>2. PICK n \in 1 .. Len(d) : h[n] = i
      BY <1>3, <2>1 DEF Places
    <2> QED BY <1>3, <1>4, <2>1, <2>2 DEF Places
  <1> HIDE DEF Destructs
  <1> QED BY <1>5, <1>6, <1>7, <1>8

-----------------------------------------------------------------------------
LEMMA MethodsBegin == OscMethodsInit => MethodsInv
  <1> SUFFICES ASSUME OscMethodsInit PROVE MethodsInv
    OBVIOUS
  <1>1. ListTypes
    BY EmptySeq DEF OscMethodsInit, ListTypes
  <1>2. \A th \in Threads : jobs[th] = <<>> /\ found[th] = <<>>
    BY DEF OscMethodsInit
  <1>3. DOMAIN methods = {}
    BY DEF OscMethodsInit
  <1>4. \A o \in Objects : life[o] = "unborn"
    BY DEF OscMethodsInit
  <1>5. OneJob /\ EndFound /\ Once /\ OnePerPath
    BY <1>2, <1>3, <1>4 DEF OneJob, EndFound, Once, OnePerPath
  <1>6. InTheList
    BY <1>3, <1>4 DEF InTheList, InList
  <1>7. WalkOn
    BY <1>2 DEF OscMethodsInit, WalkOn, Threads
  <1> QED BY <1>1, <1>5, <1>6, <1>7 DEF OscMethodsInit, MethodsInv, Listing, CalledAreForgotten

\* A thread makes o: its methods are to be added.
LEMMA MakeKeeps ==
    ASSUME Listing, NEW th \in Threads, NEW o \in Owned(th), jobs[th] = <<>>, Make(o),
           jobs' = [jobs EXCEPT ![th] = Constructs(o)], UNCHANGED <<methods, found>>,
           \A x \in Objects : Path[x] = Path[o] => life[x] # "alive"
    PROVE  Listing'
  <1> USE DEF Listing
  <1>1. /\ o \in Objects /\ life[o] = "unborn" /\ life' = [life EXCEPT ![o] = "alive"]
        /\ life \in [Objects -> {"unborn", "alive", "dead"}] /\ DOMAIN jobs = Threads
    BY OscMethodsAssumption DEF Make, Owned, Others, ListTypes
  <1>2. /\ life'[o] = "alive" /\ \A x \in Objects : x # o => life'[x] = life[x]
        /\ jobs'[th] = Constructs(o) /\ \A t \in Threads : t # th => jobs'[t] = jobs[t]
    BY <1>1
  <1>3. ListTypes'
    <2>1. jobs' \in [Threads -> Seq(Work)]
      BY <1>1, ConstructsIs DEF ListTypes
    <2>2. life' \in [Objects -> {"unborn", "alive", "dead"}]
      BY <1>1
    <2> QED BY <2>1, <2>2 DEF ListTypes
  \* What another thread is about is not o, nor at its address.
  <1>4. ASSUME NEW t \in Threads, t # th, NEW x \in Owned(t) PROVE x \in Objects /\ Path[x] # Path[o]
    BY <1>4, OscMethodsAssumption DEF Owned, Others, Threads
  <1>5. OneJob'
    <2> SUFFICES ASSUME NEW t \in Threads, jobs'[t] # <<>> PROVE \E x \in Owned(t) : JobOf(t, x)'
      BY DEF OneJob
    <2>1. CASE t = th
      <3>1. life'[o] = "alive"
        BY <1>2
      <3>2. JobOf(th, o)'
        BY <1>1, <1>2, <3>1, ConstructsIs DEF JobOf
      <3> QED BY <2>1, <3>2
    <2>2. CASE t # th
      <3>1. jobs'[t] = jobs[t]
        BY <1>2, <2>2
      <3>2. PICK x \in Owned(t) : JobOf(t, x)
        BY <3>1 DEF OneJob
      <3>3. x \in Objects /\ Path[x] # Path[o]
        BY <1>4, <2>2
      <3>4. life'[x] = life[x] /\ \A y \in Objects : Path[y] = Path[x] => life'[y] = life[y]
        BY <1>2, <3>3
      <3> QED BY <3>1, <3>2, <3>4 DEF JobOf
    <2> QED BY <2>1, <2>2
  <1>6. ASSUME NEW x \in Objects, x # o, NEW s PROVE ToDo(x, s)' <=> ToDo(x, s)
    <2>1. \A n \in DOMAIN jobs'[th] : jobs'[th][n].obj # x
      BY <1>1, <1>2, <1>6, ConstructsIs
    <2>2. \A n \in DOMAIN jobs[th] : FALSE
      OBVIOUS
    <2> QED BY <1>2, <2>1, <2>2 DEF ToDo
  <1>7. \A s \in Added(o) : ToDo(o, s)'
    BY <1>1, <1>2, ConstructsIs DEF ToDo
  <1>8. InTheList'
    <2> SUFFICES ASSUME NEW x \in Objects, NEW s \in STRING
                 PROVE  InList([obj |-> x, spec |-> s])' <=>
                          /\ s \in Added(x)
                          /\ \/ life'[x] = "alive" /\ ~ToDo(x, s)'
                             \/ life'[x] = "dead" /\ (s \in Deletes[x] => ToDo(x, s)')
      BY DEF InTheList
    <2>1. InList([obj |-> x, spec |-> s])' <=> InList([obj |-> x, spec |-> s])
      BY DEF InList
    <2>2. CASE x = o
      <3>1. ~InList([obj |-> x, spec |-> s])
        BY <1>1, <2>2 DEF InTheList
      <3> QED BY <1>2, <1>7, <2>1, <2>2, <3>1
    <2>3. CASE x # o
      BY <1>2, <1>6, <2>1, <2>3 DEF InTheList
    <2> QED BY <2>2, <2>3
  <1>9. OnePerPath'
    BY <1>1, <1>2 DEF OnePerPath
  <1>10. EndFound'
    <2> SUFFICES ASSUME NEW t \in Threads, found[t] # <<>>
                 PROVE  /\ jobs'[t] # <<>> /\ jobs'[t][1].op = "add"
                        /\ found[t] = <<IF methods = <<>> THEN NoMethod ELSE methods[Len(methods)]>>
      BY DEF EndFound
    <2>1. t # th
      BY DEF EndFound
    <2> QED BY <1>2, <2>1 DEF EndFound
  <1> QED BY <1>3, <1>5, <1>8, <1>9, <1>10 DEF Once

\* A thread deletes o: those of its methods that the destructor names are
\* to be deleted.
LEMMA FreeKeeps ==
    ASSUME Listing, NEW th \in Threads, NEW o \in Owned(th), jobs[th] = <<>>, Free(o),
           jobs' = [jobs EXCEPT ![th] = Destructs(o)], UNCHANGED <<methods, found>>
    PROVE  Listing'
  <1> USE DEF Listing
  <1>1. /\ o \in Objects /\ life[o] = "alive" /\ life' = [life EXCEPT ![o] = "dead"]
        /\ life \in [Objects -> {"unborn", "alive", "dead"}] /\ DOMAIN jobs = Threads
        /\ Deletes[o] \subseteq Added(o)
    BY OscMethodsAssumption DEF Free, Owned, Others, ListTypes
  <1>2. /\ life'[o] = "dead" /\ \A x \in Objects : x # o => life'[x] = life[x]
        /\ jobs'[th] = Destructs(o) /\ \A t \in Threads : t # th => jobs'[t] = jobs[t]
    BY <1>1
  <1>3. ListTypes'
    <2>1. jobs' \in [Threads -> Seq(Work)]
      BY <1>1, DestructsIs DEF ListTypes
    <2>2. life' \in [Objects -> {"unborn", "alive", "dead"}]
      BY <1>1
    <2> QED BY <2>1, <2>2 DEF ListTypes
  <1>4. ASSUME NEW t \in Threads, t # th, NEW x \in Owned(t) PROVE x \in Objects /\ Path[x] # Path[o]
    BY <1>4, OscMethodsAssumption DEF Owned, Others, Threads
  <1>5. OneJob'
    <2> SUFFICES ASSUME NEW t \in Threads, jobs'[t] # <<>> PROVE \E x \in Owned(t) : JobOf(t, x)'
      BY DEF OneJob
    <2>1. CASE t = th
      <3>1. life'[o] = "dead" /\ \A y \in Objects : Path[y] = Path[o] => life'[y] # "alive"
        BY <1>1, <1>2 DEF OnePerPath
      <3>2. JobOf(th, o)'
        <4>1. \A n \in DOMAIN jobs'[th] : /\ jobs'[th][n].obj = o /\ jobs'[th][n].op = "del"
                                         /\ jobs'[th][n].spec \in Deletes[o]
          BY <1>1, <1>2, DestructsIs
        <4>2. \A n, k \in DOMAIN jobs'[th] : jobs'[th][n].spec = jobs'[th][k].spec => n = k
          BY <1>1, <1>2, DestructsIs
        <4> QED BY <1>1, <3>1, <4>1, <4>2 DEF JobOf
      <3> QED BY <2>1, <3>2
    <2>2. CASE t # th
      <3>1. jobs'[t] = jobs[t]
        BY <1>2, <2>2
      <3>2. PICK x \in Owned(t) : JobOf(t, x)
        BY <3>1 DEF OneJob
      <3>3. x \in Objects /\ Path[x] # Path[o]
        BY <1>4, <2>2
      <3>4. life'[x] = life[x] /\ \A y \in Objects : Path[y] = Path[x] => life'[y] = life[y]
        BY <1>2, <3>3
      <3> QED BY <3>1, <3>2, <3>4 DEF JobOf
    <2> QED BY <2>1, <2>2
  <1>6. ASSUME NEW x \in Objects, x # o, NEW s PROVE ToDo(x, s)' <=> ToDo(x, s)
    <2>1. \A n \in DOMAIN jobs'[th] : jobs'[th][n].obj # x
      BY <1>1, <1>2, <1>6, DestructsIs
    <2>2. \A n \in DOMAIN jobs[th] : FALSE
      OBVIOUS
    <2> QED BY <1>2, <2>1, <2>2 DEF ToDo
  <1>7. ASSUME NEW s \in Deletes[o] PROVE ToDo(o, s)'
    <2>1. PICK n \in DOMAIN Destructs(o) : Destructs(o)[n].spec = s
      BY <1>1, DestructsIs
    <2>2. Destructs(o)[n].obj = o
      BY <1>1, DestructsIs
    <2> QED BY <1>2, <2>1, <2>2 DEF ToDo
  \* Before, nothing of o was to be done.
  <1>8. ASSUME NEW s PROVE ~ToDo(o, s)
    <2>1. ASSUME NEW t \in Threads, NEW n \in DOMAIN jobs[t], jobs[t][n].obj = o PROVE FALSE
      <3>1. t # th
        BY <2>1
      <3>2. jobs[t] # <<>>
        BY <2>1
      <3>3. o \in Owned(t)
        BY <2>1, <3>2 DEF OneJob, JobOf
      <3> QED BY <1>4, <3>1, <3>3
    <2> QED BY <2>1 DEF ToDo
  <1>9. InTheList'
    <2> SUFFICES ASSUME NEW x \in Objects, NEW s \in STRING
                 PROVE  InList([obj |-> x, spec |-> s])' <=>
                          /\ s \in Added(x)
                          /\ \/ life'[x] = "alive" /\ ~ToDo(x, s)'
                             \/ life'[x] = "dead" /\ (s \in Deletes[x] => ToDo(x, s)')
      BY DEF InTheList
    <2>1. InList([obj |-> x, spec |-> s])' <=> InList([obj |-> x, spec |-> s])
      BY DEF InList
    <2>2. CASE x = o
      BY <1>1, <1>2, <1>7, <1>8, <2>1, <2>2 DEF InTheList
    <2>3. CASE x # o
      BY <1>2, <1>6, <2>1, <2>3 DEF InTheList
    <2> QED BY <2>2, <2>3
  <1>10. OnePerPath'
    BY <1>1, <1>2 DEF OnePerPath
  <1>11. EndFound'
    <2> SUFFICES ASSUME NEW t \in Threads, found[t] # <<>>
                 PROVE  /\ jobs'[t] # <<>> /\ jobs'[t][1].op = "add"
                        /\ found[t] = <<IF methods = <<>> THEN NoMethod ELSE methods[Len(methods)]>>
      BY DEF EndFound
    <2>1. t # th
      BY DEF EndFound
    <2> QED BY <1>2, <2>1 DEF EndFound
  <1> QED BY <1>3, <1>5, <1>9, <1>10, <1>11 DEF Once

\* A thread has done the first of its work.
LEMMA WorkGoesOn ==
    ASSUME Listing, NEW th \in Threads, jobs[th] # <<>>, jobs' = [jobs EXCEPT ![th] = Tail(@)], life' = life
    PROVE  /\ jobs' \in [Threads -> Seq(Work)] /\ OneJob'
           /\ \A x, s : ToDo(x, s)' <=> (ToDo(x, s) /\ ~(x = jobs[th][1].obj /\ s = jobs[th][1].spec))
           /\ \A t \in Threads : t # th => jobs'[t] = jobs[t]
  <1> USE DEF Listing
  <1>1. jobs \in [Threads -> Seq(Work)]
    BY DEF ListTypes
  <1>2. jobs'[th] = Tail(jobs[th]) /\ \A t \in Threads : t # th => jobs'[t] = jobs[t]
    BY <1>1
  <1>3. /\ Len(jobs[th]) \in Nat /\ DOMAIN jobs[th] = 1 .. Len(jobs[th]) /\ 1 \in DOMAIN jobs[th]
        /\ DOMAIN jobs'[th] = 1 .. Len(jobs[th]) - 1 /\ jobs'[th] \in Seq(Work)
        /\ \A n \in 1 .. Len(jobs[th]) - 1 : jobs'[th][n] = jobs[th][n + 1]
    BY <1>2, JobsType
  <1>4. jobs' \in [Threads -> Seq(Work)]
    BY <1>1, <1>2, <1>3
  <1>5. PICK o \in Owned(th) : JobOf(th, o)
    BY DEF OneJob
  <1>6. \A n \in DOMAIN jobs'[th] : n + 1 \in DOMAIN jobs[th] /\ n + 1 # 1 /\ jobs'[th][n] = jobs[th][n + 1]
    BY <1>3
  <1>7. JobOf(th, o)'
    <2>1. \A n, k \in DOMAIN jobs'[th] : n + 1 = k + 1 => n = k
      BY <1>3
    <2> QED BY <1>5, <1>6, <2>1 DEF JobOf
  <1>8. OneJob'
    <2> SUFFICES ASSUME NEW t \in Threads, jobs'[t] # <<>> PROVE \E x \in Owned(t) : JobOf(t, x)'
      BY DEF OneJob
    <2>1. CASE t = th
      BY <1>7, <2>1
    <2>2. CASE t # th
      <3>1. PICK x \in Owned(t) : JobOf(t, x)
        BY <1>2, <2>2 DEF OneJob
      <3> QED BY <1>2, <2>2, <3>1 DEF JobOf
    <2> QED BY <2>1, <2>2
  <1>9. ASSUME NEW x, NEW s PROVE ToDo(x, s)' <=> (ToDo(x, s) /\ ~(x = jobs[th][1].obj /\ s = jobs[th][1].spec))
    <2>1. ASSUME NEW t \in Threads, NEW n \in DOMAIN jobs'[t], jobs'[t][n].obj = x, jobs'[t][n].spec = s
          PROVE  ToDo(x, s) /\ ~(x = jobs[th][1].obj /\ s = jobs[th][1].spec)
      <3>1. CASE t = th
        <4>1. n + 1 \in DOMAIN jobs[th] /\ n + 1 # 1 /\ jobs[th][n + 1].obj = x /\ jobs[th][n + 1].spec = s
          BY <1>6, <2>1, <3>1
        <4> QED BY <1>3, <1>5, <4>1 DEF ToDo, JobOf
      <3>2. CASE t # th
        <4>1. jobs'[t] = jobs[t] /\ jobs[t] # <<>>
          BY <1>2, <2>1, <3>2
        <4>2. PICK y \in Owned(t) : JobOf(t, y)
          BY <4>1 DEF OneJob
        <4>3. x = y /\ jobs[th][1].obj = o
          BY <1>3, <1>5, <2>1, <4>1, <4>2 DEF JobOf
        <4>4. y # o
          BY <3>2 DEF Owned, Others, Threads
        <4> QED BY <2>1, <4>1, <4>3, <4>4 DEF ToDo
      <3> QED BY <3>1, <3>2
    <2>2. ASSUME NEW t \in Threads, NEW n \in DOMAIN jobs[t], jobs[t][n].obj = x, jobs[t][n].spec = s,
                 ~(x = jobs[th][1].obj /\ s = jobs[th][1].spec)
          PROVE  ToDo(x, s)'
      <3>1. CASE t = th
        <4>1. n # 1
          BY <2>2, <3>1
        <4>2. n - 1 \in DOMAIN jobs'[th] /\ (n - 1) + 1 = n
          BY <1>3, <2>2, <3>1, <4>1
        <4>3. jobs'[th][n - 1] = jobs[th][n]
          BY <1>6, <4>2
        <4> QED BY <2>2, <3>1, <4>2, <4>3 DEF ToDo
      <3>2. CASE t # th
        BY <1>2, <2>2, <3>2 DEF ToDo
      <3> QED BY <3>1, <3>2
    <2> QED BY <2>1, <2>2 DEF ToDo
  <1> QED BY <1>2, <1>4, <1>8, <1>9

LEMMA MethodsType ==
    ASSUME ListTypes
    PROVE  /\ methods \in Seq(Method) /\ Len(methods) \in Nat /\ DOMAIN methods = 1 .. Len(methods)
           /\ \A n \in DOMAIN methods : methods[n] \in Method
           /\ methods # <<>> => Len(methods) \in DOMAIN methods
  BY LenProperties, ElementOfSeq, EmptySeq DEF ListTypes

\* The method comes to the end of the list.
LEMMA LinkKeeps ==
    ASSUME Listing, NEW th \in Threads, LinkMethod(th), ~Clash(th)
    PROVE  Listing' /\ \A m : InList(m) => InList(m)'
  <1> USE DEF Listing
  <1> DEFINE job == jobs[th][1]
             new == [obj |-> job.obj, spec |-> job.spec]
  <1>1. /\ jobs[th] # <<>> /\ Head(jobs[th]) = job /\ job.op = "add" /\ found[th] # <<>> /\ life' = life
        /\ jobs' = [jobs EXCEPT ![th] = Tail(@)] /\ found' = [found EXCEPT ![th] = <<>>]
    BY JobsType DEF LinkMethod, Job
  <1>2. PICK o \in Owned(th) : JobOf(th, o)
    BY <1>1 DEF OneJob
  <1>3. /\ o \in Objects /\ job.obj = o /\ life[o] = "alive" /\ job.spec \in Added(o) /\ job.spec \in STRING
        /\ ToDo(o, job.spec)
    <2>1. 1 \in DOMAIN jobs[th] /\ job \in Work
      BY <1>1, JobsType
    <2>2. o \in Objects /\ life[o] \in {"unborn", "alive", "dead"}
      BY OscMethodsAssumption DEF Owned, Others, ListTypes
    <2> QED BY <1>1, <1>2, <2>1, <2>2 DEF JobOf, ToDo, Work
  <1>4. new \in Method /\ ~InList(new)
    <2>1. new = [obj |-> o, spec |-> job.spec]
      BY <1>3
    <2> QED BY <1>3, <2>1 DEF Method, InTheList
  <1>5. methods' = Append(methods, new)
    <2> DEFINE last == IF methods = <<>> THEN NoMethod ELSE methods[Len(methods)]
    <2>1. found[th][1] = last
      BY <1>1 DEF EndFound
    <2>2. methods' = IF last = NoMethod THEN <<new>>
                     ELSE IF InList(last) THEN SubSeq(methods, 1, PlaceOf(last)) \o <<new>> ELSE methods
      BY <1>1, <2>1 DEF LinkMethod
    <2>3. CASE methods = <<>>
      BY <2>2, <2>3
    <2>4. CASE methods # <<>>
      <3>1. last \in Method /\ last = methods[Len(methods)] /\ Len(methods) \in DOMAIN methods
        BY <2>4, MethodsType
      <3>2. last # NoMethod /\ InList(last)
        BY <3>1, OscMethodsAssumption DEF Method, InList
      <3>3. PlaceOf(last) = Len(methods)
        BY <3>1 DEF PlaceOf, Once
      <3>4. SubSeq(methods, 1, Len(methods)) = methods
        BY MethodsType, SubSeqFull
      <3>5. Append(methods, new) = methods \o <<new>>
        BY <1>4, MethodsType, AppendIsConcat
      <3> HIDE DEF last
      <3> QED BY <2>2, <3>2, <3>3, <3>4, <3>5
    <2> QED BY <2>3, <2>4
  <1> DEFINE last == Len(methods) + 1
  <1>6. /\ methods' \in Seq(Method) /\ DOMAIN methods' = 1 .. last /\ methods'[last] = new /\ last \in DOMAIN methods'
        /\ \A n \in DOMAIN methods : n \in DOMAIN methods' /\ methods'[n] = methods[n]
        /\ \A n \in DOMAIN methods' : n \in DOMAIN methods \/ n = last
    <2>1. /\ methods' \in Seq(Method) /\ Len(methods') = last /\ methods'[last] = new
          /\ \A n \in 1 .. Len(methods) : methods'[n] = methods[n]
      BY <1>4, <1>5, MethodsType, AppendProperties
    <2> QED BY <2>1, MethodsType, LenProperties
  <1> HIDE DEF last, new
  <1>7. \A m : InList(m)' <=> InList(m) \/ m = new
    BY <1>6 DEF InList
  <1>8. Once'
    BY <1>4, <1>6 DEF Once, InList
  <1>9. /\ jobs' \in [Threads -> Seq(Work)] /\ OneJob'
        /\ \A x, s : ToDo(x, s)' <=> (ToDo(x, s) /\ ~(x = o /\ s = job.spec))
    BY <1>1, <1>3, WorkGoesOn
  <1>10. ListTypes' /\ OnePerPath'
    BY <1>1, <1>6, <1>9 DEF ListTypes, OnePerPath
  <1>11. InTheList'
    <2> SUFFICES ASSUME NEW x \in Objects, NEW s \in STRING
                 PROVE  InList([obj |-> x, spec |-> s])' <=>
                          /\ s \in Added(x)
                          /\ \/ life[x] = "alive" /\ ~ToDo(x, s)'
                             \/ life[x] = "dead" /\ (s \in Deletes[x] => ToDo(x, s)')
      BY <1>1 DEF InTheList
    <2>1. [obj |-> x, spec |-> s] = new <=> x = o /\ s = job.spec
      BY <1>3 DEF new
    <2> QED BY <1>3, <1>7, <1>9, <2>1 DEF InTheList
  <1>12. EndFound'
    BY <1>1 DEF EndFound, Clash, Other, Threads, ListTypes
  <1> QED BY <1>7, <1>8, <1>9, <1>10, <1>11, <1>12

\* That method alone goes.
LEMMA DelKeeps ==
    ASSUME Listing, NEW th \in Threads, DelMethod(th), ~Clash(th)
    PROVE  /\ Listing' /\ jobs[th] # <<>> /\ jobs[th][1].op = "del"
           /\ \A m : InList(m)' <=> InList(m) /\ m # [obj |-> jobs[th][1].obj, spec |-> jobs[th][1].spec]
  <1> USE DEF Listing
  <1> DEFINE job == jobs[th][1]
             old == [obj |-> job.obj, spec |-> job.spec]
             T == {m \in Listed : ~Gone(m, job.obj, job.spec)}
  <1>1. /\ jobs[th] # <<>> /\ Head(jobs[th]) = job /\ job.op = "del" /\ found' = found /\ life' = life
        /\ jobs' = [jobs EXCEPT ![th] = Tail(@)] /\ methods' = Selected(methods, T)
    BY JobsType DEF DelMethod, Job
  <1>2. PICK o \in Owned(th) : JobOf(th, o)
    BY <1>1 DEF OneJob
  <1>3. /\ o \in Objects /\ job.obj = o /\ life[o] = "dead" /\ job.spec \in Deletes[o] /\ job.spec \in STRING
        /\ \A x \in Objects : Path[x] = Path[o] => life[x] # "alive"
    <2>1. 1 \in DOMAIN jobs[th] /\ job \in Work
      BY <1>1, JobsType
    <2>2. o \in Objects /\ life[o] \in {"unborn", "alive", "dead"}
      BY OscMethodsAssumption DEF Owned, Others, ListTypes
    <2> QED BY <1>1, <1>2, <2>1, <2>2 DEF JobOf, Work
  \* What is at the same address is of another module only if the destructor
  \* has forgotten it.
  <1>4. ASSUME NEW m \in Listed PROVE Gone(m, job.obj, job.spec) <=> m = old
    <2>1. m \in Method /\ InList(m)
      BY MethodsType DEF Listed, InList
    <2>2. PICK x \in Objects, s \in STRING : m = [obj |-> x, spec |-> s]
      BY <2>1 DEF Method
    <2>3. ASSUME Path[x] = Path[o], s = job.spec PROVE x = o
      <3>1. s \in Deletes[x] /\ life[x] # "alive"
        BY <1>3, <2>3, OscMethodsAssumption
      <3>2. ToDo(x, s)
        BY <2>1, <2>2, <3>1 DEF InTheList
      <3>3. PICK t \in Threads : \E n \in DOMAIN jobs[t] : jobs[t][n].obj = x
        BY <3>2 DEF ToDo
      <3>4. x \in Owned(t)
        <4>1. jobs[t] # <<>>
          BY <3>3
        <4> QED BY <3>3, <4>1 DEF OneJob, JobOf
      <3>5. CASE t = th
        BY <1>2, <3>3, <3>5 DEF JobOf
      <3>6. CASE t # th
        BY <2>3, <3>4, <3>6, OscMethodsAssumption DEF Owned, Others, Threads
      <3> QED BY <3>5, <3>6
    <2> QED BY <1>3, <2>2, <2>3 DEF Gone
  <1>5. \A m : InList(m)' <=> InList(m) /\ m # old
    <2>1. \A m : Occurs(m, methods') <=> m \in T /\ Occurs(m, methods)
      <3> HIDE DEF T
      <3>1. methods \in Seq(Method)
        BY MethodsType
      <3> QED BY <1>1, <3>1, SelectedRange
    <2>2. \A m : m \in T <=> m \in Listed /\ m # old
      BY <1>4
    <2>3. \A m : m \in Listed <=> InList(m)
      BY DEF Listed, InList
    <2> HIDE DEF T, old
    <2> QED BY <2>1, <2>2, <2>3 DEF InList, Occurs
  <1>6. methods' \in Seq(Method) /\ Once'
    <2> HIDE DEF T
    <2>1. methods \in Seq(Method)
      BY MethodsType
    <2>2. Selected(methods, T) \in Seq(Method)
      BY <2>1, SelectedType
    <2>3. \A n, k \in DOMAIN Selected(methods, T) : Selected(methods, T)[n] = Selected(methods, T)[k] => n = k
      BY <2>1, SelectedOnce DEF Once
    <2> QED BY <1>1, <2>2, <2>3 DEF Once
  <1>7. /\ jobs' \in [Threads -> Seq(Work)] /\ OneJob'
        /\ \A x, s : ToDo(x, s)' <=> (ToDo(x, s) /\ ~(x = o /\ s = job.spec))
    BY <1>1, <1>3, WorkGoesOn
  <1>8. ListTypes' /\ OnePerPath'
    BY <1>1, <1>6, <1>7 DEF ListTypes, OnePerPath
  <1>9. InTheList'
    <2> SUFFICES ASSUME NEW x \in Objects, NEW s \in STRING
                 PROVE  InList([obj |-> x, spec |-> s])' <=>
                          /\ s \in Added(x)
                          /\ \/ life[x] = "alive" /\ ~ToDo(x, s)'
                             \/ life[x] = "dead" /\ (s \in Deletes[x] => ToDo(x, s)')
      BY <1>1 DEF InTheList
    <2>1. [obj |-> x, spec |-> s] = old <=> x = o /\ s = job.spec
      BY <1>3
    <2> HIDE DEF old, job
    <2> QED BY <1>3, <1>5, <1>7, <2>1 DEF InTheList
  <1>10. EndFound'
    <2>1. \A t \in Threads : found[t] = <<>>
      BY <1>1 DEF EndFound, Clash, Other, Threads
    <2> QED BY <1>1, <2>1 DEF EndFound
  <1> QED BY <1>1, <1>5, <1>6, <1>7, <1>8, <1>9, <1>10

LEMMA OverlapStays == ASSUME [OscMethodsNext]_oscMethodsVars, overlapped PROVE overlapped'
  BY DEF OscMethodsNext, ListStep, MainStep, DispatchStep, FindEnd, LinkMethod, DelMethod, MainMakes, MainDeletes,
         CallHandler, Advance, Leave, Start, Overlaps, oscMethodsVars, methodHistory

\* A module that is dead and has a method in the list that its destructor
\* names is being deleted: by the server, or by the main thread.
LEMMA DeadIsWorkedOn ==
    ASSUME Listing, NEW m \in Method, InList(m), life[m.obj] = "dead", m.spec \in Deletes[m.obj]
    PROVE  jobs["server"] # <<>> \/ \E n \in DOMAIN jobs["main"] : jobs["main"][n].op = "del"
  <1> USE DEF Listing
  <1>1. m.obj \in Objects /\ m.spec \in STRING /\ m = [obj |-> m.obj, spec |-> m.spec]
    BY DEF Method
  <1>2. ToDo(m.obj, m.spec)
    BY <1>1 DEF InTheList
  <1>3. PICK t \in Threads : \E n \in DOMAIN jobs[t] : jobs[t][n].obj = m.obj
    BY <1>2 DEF ToDo
  <1>4. PICK n \in DOMAIN jobs[t] : jobs[t][n].obj = m.obj
    BY <1>3
  <1>5. PICK o \in Owned(t) : JobOf(t, o)
    <2>1. jobs[t] # <<>>
      BY <1>4
    <2> QED BY <2>1 DEF OneJob
  <1>6. jobs[t][n].op = "del" /\ jobs[t] # <<>>
    BY <1>4, <1>5 DEF JobOf
  <1> QED BY <1>6 DEF Threads

LEMMA ListStepKeeps ==
    ASSUME Listing, WalkOn, ListStep, ~overlapped', ~overlapped PROVE Listing' /\ WalkOn'
  <1>0. "main" \in Threads /\ "server" \in Threads /\ jobs \in [Threads -> Seq(Work)] /\ ListTypes
    BY DEF Threads, Listing, ListTypes
  <1>1. ASSUME NEW th \in Threads, FindEnd(th) PROVE Listing' /\ WalkOn'
    <2>1. /\ UNCHANGED <<methods, life, jobs, msg, it>> /\ DOMAIN found' = DOMAIN found
          /\ jobs[th] # <<>> /\ jobs[th][1].op = "add"
          /\ found' = [found EXCEPT ![th] = <<IF methods = <<>> THEN NoMethod ELSE methods[Len(methods)]>>]
      BY <1>0, <1>1, JobsType DEF FindEnd, Job, walkVars
    <2>2. ListTypes' /\ OneJob' /\ InTheList' /\ Once' /\ OnePerPath'
      <3>1. ListTypes'
        BY <2>1 DEF Listing, ListTypes
      <3>2. OneJob'
        BY <2>1 DEF Listing, OneJob, JobOf
      <3>3. InTheList'
        BY <2>1 DEF Listing, InTheList, InList, ToDo
      <3>4. Once' /\ OnePerPath'
        BY <2>1 DEF Listing, Once, OnePerPath
      <3> QED BY <3>1, <3>2, <3>3, <3>4
    <2>3. EndFound'
      BY <2>1 DEF Listing, ListTypes, EndFound
    <2>4. WalkOn'
      BY <2>1 DEF WalkOn, InList
    <2> QED BY <2>2, <2>3, <2>4 DEF Listing
  <1>2. ASSUME NEW th \in Threads, LinkMethod(th) PROVE Listing' /\ WalkOn'
    <2>1. /\ ~Clash(th) /\ UNCHANGED <<msg, it>> /\ jobs[th] # <<>>
          /\ jobs' = [jobs EXCEPT ![th] = Tail(@)]
      BY <1>2 DEF LinkMethod, Overlaps, walkVars, Job
    <2>2. Listing' /\ \A m : InList(m) => InList(m)'
      BY <1>2, <2>1, LinkKeeps
    <2>3. \A t \in Threads : \A n \in DOMAIN jobs'[t] : \E k \in DOMAIN jobs[t] : jobs'[t][n] = jobs[t][k]
      <3> SUFFICES ASSUME NEW t \in Threads, NEW n \in DOMAIN jobs'[t]
                   PROVE  \E k \in DOMAIN jobs[t] : jobs'[t][n] = jobs[t][k]
        OBVIOUS
      <3>1. CASE t = th
        <4>1. n + 1 \in DOMAIN jobs[th] /\ jobs'[th][n] = jobs[th][n + 1]
          BY <1>0, <2>1, <3>1, JobsType
        <4> QED BY <3>1, <4>1
      <3>2. CASE t # th
        BY <1>0, <2>1, <3>2
      <3> QED BY <3>1, <3>2
    <2>4. jobs'["server"] # <<>> => jobs["server"] # <<>>
      BY <1>0, <2>1
    <2> QED BY <1>0, <2>1, <2>2, <2>3, <2>4 DEF WalkOn
  <1>3. ASSUME NEW th \in Threads, DelMethod(th) PROVE Listing' /\ WalkOn'
    <2>1. /\ ~Clash(th) /\ UNCHANGED <<msg, it>> /\ (th = "main" => msg = <<>>)
          /\ jobs' = [jobs EXCEPT ![th] = Tail(@)]
      BY <1>3 DEF DelMethod, Overlaps, walkVars
    <2>2. /\ Listing' /\ jobs[th] # <<>>
          /\ \A m : InList(m)' <=> InList(m) /\ m # [obj |-> jobs[th][1].obj, spec |-> jobs[th][1].spec]
      BY <1>3, <2>1, DelKeeps
    <2>3. CASE th = "main"
      <3>1. msg' = <<>> /\ it' = NoMethod /\ jobs'["server"] = jobs["server"] /\ it = NoMethod
        BY <1>0, <2>1, <2>3 DEF WalkOn
      <3> QED BY <2>2, <3>1 DEF WalkOn
    <2>4. CASE th = "server"
      <3>1. jobs'["main"] = jobs["main"] /\ it # NoMethod /\ it.obj = Controller /\ it \in Method
        BY <1>0, <2>1, <2>2, <2>4 DEF WalkOn
      <3>2. jobs[th][1].obj # Controller
        <4>1. PICK o \in Owned(th) : JobOf(th, o)
          BY <1>0, <2>2 DEF Listing, OneJob
        <4>2. jobs[th][1].obj = o
          BY <1>0, <2>2, <4>1, JobsType DEF JobOf
        <4> QED BY <2>4, <4>2, OscMethodsAssumption DEF Owned, Others
      <3>3. InList(it)'
        BY <2>1, <2>2, <3>1, <3>2 DEF WalkOn
      <3> QED BY <2>1, <2>2, <3>1, <3>3 DEF WalkOn
    <2> QED BY <2>3, <2>4 DEF Threads
  <1> QED BY <1>1, <1>2, <1>3 DEF ListStep

LEMMA MainStepKeeps ==
    ASSUME Listing, WalkOn, MainStep, ~overlapped' PROVE Listing' /\ WalkOn'
  <1>0. /\ "main" \in Threads /\ Owned("main") = MainObjects /\ MainObjects \subseteq Objects
        /\ DOMAIN jobs = Threads
    BY OscMethodsAssumption DEF Threads, Owned, Listing, ListTypes
  <1>1. ASSUME NEW o \in Objects, MainMakes(o) PROVE Listing' /\ WalkOn'
    <2>1. /\ o \in MainObjects /\ jobs["main"] = <<>> /\ Make(o) /\ UNCHANGED <<methods, found, msg, it>>
          /\ jobs' = [jobs EXCEPT !["main"] = Constructs(o)]
      BY <1>1 DEF MainMakes, walkVars
    <2>2. \A x \in Objects : Path[x] = Path[o] => life[x] # "alive"
      BY <2>1, OscMethodsAssumption DEF Make
    <2>3. Listing'
      BY <1>0, <2>1, <2>2, MakeKeeps
    <2>4. jobs'["main"] = Constructs(o) /\ jobs'["server"] = jobs["server"]
      BY <1>0, <2>1 DEF Threads
    <2>5. \A n \in DOMAIN Constructs(o) : Constructs(o)[n].op = "add"
      BY ConstructsIs
    <2> QED BY <2>1, <2>3, <2>4, <2>5 DEF WalkOn, InList
  <1>2. ASSUME NEW o \in Objects, MainDeletes(o) PROVE Listing' /\ WalkOn'
    <2>1. /\ o \in MainObjects /\ jobs["main"] = <<>> /\ Free(o) /\ UNCHANGED <<methods, found, msg, it>>
          /\ jobs' = [jobs EXCEPT !["main"] = Destructs(o)] /\ msg = <<>>
      BY <1>2 DEF MainDeletes, walkVars, Overlaps
    <2>2. Listing'
      BY <1>0, <2>1, FreeKeeps
    <2>3. jobs'["server"] = jobs["server"] /\ it = NoMethod
      BY <1>0, <2>1 DEF Threads, WalkOn
    <2> QED BY <2>1, <2>2, <2>3 DEF WalkOn
  <1> QED BY <1>1, <1>2 DEF MainStep

LEMMA DispatchKeeps ==
    ASSUME Listing, WalkOn, CalledAreForgotten, ~dangling, DispatchStep, ~overlapped'
    PROVE  Listing' /\ WalkOn' /\ CalledAreForgotten' /\ ~dangling'
  <1>0. /\ "server" \in Threads /\ "main" \in Threads /\ Owned("server") = Others
        /\ ListTypes /\ DOMAIN jobs = Threads
    BY DEF Threads, Owned, Listing, ListTypes
  <1>1. ASSUME UNCHANGED listVars PROVE Listing' /\ \A m : InList(m)' <=> InList(m)
    <2>1. ListTypes' /\ OneJob' /\ InTheList' /\ Once'
      BY <1>1 DEF listVars, Listing, ListTypes, OneJob, JobOf, InTheList, InList, ToDo, Once
    <2>2. OnePerPath' /\ EndFound'
      BY <1>1 DEF listVars, Listing, OnePerPath, EndFound
    <2> QED BY <1>1, <2>1, <2>2 DEF listVars, Listing, InList
  <1>2. ASSUME NEW m \in Messages, Start(m) PROVE Listing' /\ WalkOn' /\ CalledAreForgotten' /\ ~dangling'
    <2>1. /\ msg = <<>> /\ msg' = <<m>> /\ UNCHANGED <<listVars, wild, dangling>>
          /\ it' = IF methods = <<>> THEN NoMethod ELSE methods[1]
          /\ ~(\E o \in MainObjects : Job("main", "del"))
      BY <1>2 DEF Start, Overlaps
    <2>2. jobs["server"] = <<>>
      BY <2>1 DEF WalkOn
    <2>3. \A n \in DOMAIN jobs["main"] : jobs["main"][n].op = "add"
      <3> SUFFICES ASSUME NEW n \in DOMAIN jobs["main"] PROVE jobs["main"][n].op = "add"
        OBVIOUS
      <3>1. jobs["main"] # <<>> /\ ~Job("main", "del")
        BY <2>1, OscMethodsAssumption
      <3>2. jobs["main"][1].op # "del" /\ 1 \in DOMAIN jobs["main"]
        BY <1>0, <3>1, JobsType DEF Job
      <3>3. PICK o \in Owned("main") : JobOf("main", o)
        BY <1>0, <3>1 DEF Listing, OneJob
      <3> QED BY <3>2, <3>3 DEF JobOf
    <2>4. it' # NoMethod => it' \in Method /\ InList(it')
      <3> SUFFICES ASSUME methods # <<>> PROVE methods[1] \in Method /\ InList(methods[1])
        BY <2>1
      <3>1. 1 \in DOMAIN methods
        BY <1>0, MethodsType
      <3> QED BY <1>0, <3>1, MethodsType DEF InList
    <2>5. msg'[1].about \in Others
      BY <2>1 DEF Messages
    <2>6. InList(it') => InList(it)'
      BY <2>1 DEF listVars, InList
    <2>7. WalkOn'
      BY <2>1, <2>2, <2>3, <2>4, <2>5, <2>6 DEF WalkOn, listVars
    <2> QED BY <1>1, <2>1, <2>7 DEF CalledAreForgotten
  <1>3. CASE CallHandler
    <2>1. /\ msg # <<>> /\ jobs["server"] = <<>> /\ it # NoMethod /\ UNCHANGED <<methods, found, msg, it, dangling>>
          /\ it \in Method /\ InList(it)
      BY <1>3 DEF CallHandler, Walking, WalkOn
    <2>2. CalledAreForgotten'
      <3>1. /\ it.obj \in Objects /\ it.spec \in STRING /\ it = [obj |-> it.obj, spec |-> it.spec]
            /\ it.spec \in Added(it.obj)
        BY <2>1 DEF Method, Listing, InTheList
      <3>2. ~(life[it.obj] = "dead" /\ it.spec \in Deletes[it.obj])
        BY <2>1, DeadIsWorkedOn DEF WalkOn
      <3>3. wild' = wild \/ wild' = wild \cup {x \in {it} : life[x.obj] = "dead"}
        BY <1>3 DEF CallHandler
      <3> QED BY <3>1, <3>2, <3>3 DEF CalledAreForgotten
    <2>3. CASE UNCHANGED <<life, jobs>>
      <3>1. Listing'
        BY <1>1, <2>1, <2>3 DEF listVars
      <3> QED BY <2>1, <2>2, <2>3, <3>1 DEF WalkOn, InList
    <2>4. CASE ~UNCHANGED <<life, jobs>>
      <3> DEFINE o == msg[1].about
      <3>1. /\ it.obj = Controller
            /\ \/ /\ Make(o) /\ \A x \in Objects : Path[x] = Path[o] => life[x] # "alive"
                  /\ jobs' = [jobs EXCEPT !["server"] = Constructs(o)]
               \/ Free(o) /\ jobs' = [jobs EXCEPT !["server"] = Destructs(o)]
        BY <1>3, <2>4 DEF CallHandler
      <3>2. o \in Owned("server")
        BY <1>0, <2>1 DEF WalkOn
      <3> HIDE DEF o
      <3>3. Listing'
        BY <1>0, <2>1, <3>1, <3>2, MakeKeeps, FreeKeeps
      <3>4. jobs'["main"] = jobs["main"]
        BY <1>0, <3>1 DEF Threads
      <3>5. WalkOn'
        BY <2>1, <3>1, <3>4 DEF WalkOn, InList
      <3> QED BY <2>1, <2>2, <3>3, <3>5
    <2> QED BY <2>3, <2>4
  <1>4. CASE Advance
    <2>1. /\ msg # <<>> /\ jobs["server"] = <<>> /\ InList(it) /\ UNCHANGED <<listVars, methodHistory>>
          /\ \/ msg' = <<>> /\ it' = NoMethod
             \/ msg' = msg /\ it' = NextOf(it)
      BY <1>4 DEF Advance, Walking, EndDispatch
    <2>2. NextOf(it) # NoMethod => NextOf(it) \in Method /\ InList(NextOf(it))
      <3> SUFFICES ASSUME PlaceOf(it) # Len(methods)
                   PROVE  methods[PlaceOf(it) + 1] \in Method /\ InList(methods[PlaceOf(it) + 1])
        BY DEF NextOf
      <3>1. PlaceOf(it) \in DOMAIN methods
        BY <2>1 DEF PlaceOf, InList
      <3>2. PlaceOf(it) + 1 \in DOMAIN methods
        BY <1>0, <3>1, MethodsType
      <3> QED BY <1>0, <3>2, MethodsType DEF InList
    <2>3. \A m : InList(m) => InList(m)'
      BY <1>1, <2>1
    <2>4. CASE msg' = <<>> /\ it' = NoMethod
      BY <1>1, <2>1, <2>4 DEF WalkOn, listVars, methodHistory, CalledAreForgotten
    <2>5. CASE msg' = msg /\ it' = NextOf(it)
      <3>1. it' # NoMethod => it' \in Method /\ InList(it)'
        <4>1. ASSUME NextOf(it) # NoMethod PROVE \E n \in DOMAIN methods : methods[n] = NextOf(it)
          BY <2>2, <4>1 DEF InList
        <4>2. methods' = methods
          BY <2>1 DEF listVars
        <4> QED BY <2>2, <2>5, <4>1, <4>2 DEF InList
      <3>2. WalkOn'
        BY <2>1, <2>5, <3>1 DEF WalkOn, listVars
      <3> QED BY <1>1, <2>1, <3>2 DEF methodHistory, CalledAreForgotten
    <2> QED BY <2>1, <2>4, <2>5
  <1>5. CASE Leave
    <2>1. /\ jobs["server"] = <<>> /\ UNCHANGED <<listVars, wild>> /\ msg' = <<>> /\ it' = NoMethod
          /\ (it = NoMethod \/ ~InList(it)) /\ (dangling' <=> dangling \/ it # NoMethod)
      BY <1>5 DEF Leave, Walking, EndDispatch
    <2>2. it = NoMethod
      BY <2>1 DEF WalkOn
    <2>3. ~dangling'
      BY <1>5, <2>2 DEF Leave
    <2>4. WalkOn'
      BY <2>1 DEF WalkOn, listVars
    <2> QED BY <1>1, <2>1, <2>3, <2>4 DEF CalledAreForgotten
  <1> QED BY <1>2, <1>3, <1>4, <1>5 DEF DispatchStep

LEMMA MethodsKeep == MethodsInv /\ [OscMethodsNext]_oscMethodsVars => MethodsInv'
  <1> SUFFICES ASSUME MethodsInv, [OscMethodsNext]_oscMethodsVars, ~overlapped'
               PROVE  Listing' /\ WalkOn' /\ CalledAreForgotten' /\ ~dangling'
    BY DEF MethodsInv
  <1>1. ~overlapped /\ Listing /\ WalkOn /\ CalledAreForgotten /\ ~dangling
    BY OverlapStays DEF MethodsInv
  <1>2. CASE ListStep
    <2>1. wild' = wild /\ dangling' = dangling
      BY <1>2 DEF ListStep, FindEnd, LinkMethod, DelMethod, methodHistory
    <2> QED BY <1>1, <1>2, <2>1, ListStepKeeps DEF CalledAreForgotten
  <1>3. CASE MainStep
    <2>1. wild' = wild /\ dangling' = dangling
      BY <1>3 DEF MainStep, MainMakes, MainDeletes, methodHistory
    <2> QED BY <1>1, <1>3, <2>1, MainStepKeeps DEF CalledAreForgotten
  <1>4. CASE DispatchStep
    BY <1>1, <1>4, DispatchKeeps
  <1>5. CASE UNCHANGED oscMethodsVars
    <2>1. UNCHANGED <<methods, life, jobs, found, msg, it, wild, dangling>>
      BY <1>5 DEF oscMethodsVars, listVars, walkVars, methodHistory
    <2>2. ListTypes' /\ OneJob' /\ InTheList' /\ Once'
      BY <1>1, <2>1 DEF Listing, ListTypes, OneJob, JobOf, InTheList, InList, ToDo, Once
    <2>3. OnePerPath' /\ EndFound' /\ WalkOn'
      BY <1>1, <2>1 DEF Listing, OnePerPath, EndFound, WalkOn, InList
    <2> QED BY <1>1, <2>1, <2>2, <2>3 DEF Listing, CalledAreForgotten
  <1> QED BY <1>2, <1>3, <1>4, <1>5 DEF OscMethodsNext

(* Handlers that make and delete modules in the middle of a dispatch, with *)
(* any number of modules: as long as the main thread does not edit the     *)
(* list at the same time no freed method is followed, and of a deleted     *)
(* module nothing is called but what its destructor has forgotten.         *)
THEOREM LivingAreCalled == OscMethodsSpec => []CallsReachTheLiving
  <1>1. MethodsInv => CallsReachTheLiving
    BY DEF MethodsInv, CallsReachTheLiving, CalledAreForgotten, OnlyForgotten
  <1> QED BY MethodsBegin, MethodsKeep, <1>1, PTL DEF OscMethodsSpec

(* With destructors that delete all that the constructors add, nothing of  *)
(* a deleted module is called: what DAC's forgets is all that is missing.  *)
THEOREM DeadAreSilent ==
    ASSUME \A o \in Objects : Added(o) \subseteq Deletes[o]
    PROVE  OscMethodsSpec => []NoCallsOfTheDead
  <1>1. MethodsInv => NoCallsOfTheDead
    BY DEF MethodsInv, NoCallsOfTheDead, CalledAreForgotten
  <1> QED BY MethodsBegin, MethodsKeep, <1>1, PTL DEF OscMethodsSpec

(* And when neither is at work, the list is that of the living modules,    *)
(* and of what the destructors of the others have forgotten.               *)
THEOREM LivingAreListed == OscMethodsSpec => []ListIsOfTheLiving
  <1>1. MethodsInv => ListIsOfTheLiving
    <2> DEFINE left(o) == CASE life[o] = "unborn" -> {}
                            [] life[o] = "alive"  -> Added(o)
                            [] life[o] = "dead"   -> Added(o) \ Deletes[o]
    <2> SUFFICES ASSUME Listing, Resting
                 PROVE  /\ Listed = UNION {MethodsOf(o, left(o)) : o \in Objects}
                        /\ Len(methods) = Cardinality(Listed)
      BY DEF MethodsInv, ListIsOfTheLiving
    <2>1. \A o, s : ~ToDo(o, s)
      BY DEF Resting, ToDo
    <2>2. \A m : m \in Listed <=> m \in Method /\ InList(m)
      BY MethodsType DEF Listed, InList, Listing
    <2>3. ASSUME NEW o \in Objects, NEW s
          PROVE  s \in left(o) <=> s \in STRING /\ InList([obj |-> o, spec |-> s])
      <3>1. life[o] \in {"unborn", "alive", "dead"} /\ Added(o) \subseteq STRING
        <4>1. Adds[o] \in Seq(STRING)
          BY OscMethodsAssumption
        <4>2. \A n \in DOMAIN Adds[o] : Adds[o][n] \in STRING
          BY <4>1, LenProperties, ElementOfSeq
        <4> QED BY <4>2 DEF Listing, ListTypes, Added
      <3> QED BY <2>1, <3>1 DEF Listing, InTheList
    <2> HIDE DEF left
    <2>4. Listed = UNION {MethodsOf(o, left(o)) : o \in Objects}
      <3>1. ASSUME NEW m \in Listed PROVE \E o \in Objects : m \in MethodsOf(o, left(o))
        <4>1. m.obj \in Objects /\ m.spec \in STRING /\ m = [obj |-> m.obj, spec |-> m.spec] /\ InList(m)
          BY <2>2 DEF Method
        <4>2. m.spec \in left(m.obj)
          BY <2>3, <4>1
        <4> QED BY <4>1, <4>2 DEF MethodsOf
      <3>2. ASSUME NEW o \in Objects, NEW m \in MethodsOf(o, left(o)) PROVE m \in Listed
        <4>1. PICK s \in left(o) : m = [obj |-> o, spec |-> s]
          BY DEF MethodsOf
        <4> QED BY <2>2, <2>3, <4>1 DEF Method
      <3> QED BY <3>1, <3>2
    <2>5. Len(methods) = Cardinality(Listed)
      <3>1. Len(methods) \in Nat /\ DOMAIN methods = 1 .. Len(methods)
        BY MethodsType DEF Listing
      <3>2. methods \in Bijection(1 .. Len(methods), Listed)
        <4>1. methods \in [1 .. Len(methods) -> Listed]
          BY <3>1, MethodsType, LenProperties DEF Listing, Listed
        <4> QED BY <3>1, <4>1, Fun_IsBij DEF Listing, Once, Listed
      <3>3. PICK n \in Nat : n = Len(methods)
        BY <3>1
      <3>4. ExistsBijection(1 .. n, Listed)
        BY <3>2, <3>3 DEF ExistsBijection
      <3>5. Cardinality(Listed) = n
        BY <3>4, FS_CountingElements
      <3> QED BY <3>3, <3>5
    <2> QED BY <2>4, <2>5
  <1> QED BY MethodsBegin, MethodsKeep, <1>1, PTL DEF OscMethodsSpec

-----------------------------------------------------------------------------
(***************************************************************************)
(* PortAudio's streams                                                     *)
(***************************************************************************)

DevicesTypeOK ==
    /\ alive \subseteq Devices
    /\ paStream \in [Devices -> {"none", "stopped", "running"}]
    /\ initialised \in Nat /\ balance \in [Devices -> Int]
    /\ failed \in BOOLEAN

DevicesInv == DevicesTypeOK /\ LivingDevicesRun

LEMMA DevicesBegin == DevicesInit => DevicesInv
  <1> SUFFICES ASSUME DevicesInit PROVE DevicesInv
    OBVIOUS
  <1>1. DevicesTypeOK
    <2>1. alive \subseteq Devices /\ initialised \in Nat /\ failed \in BOOLEAN
      BY Zenon, 0 \in Nat DEF DevicesInit
    <2>2. paStream \in [Devices -> {"none", "stopped", "running"}] /\ balance \in [Devices -> Int]
      BY DEF DevicesInit
    <2> QED BY <2>1, <2>2 DEF DevicesTypeOK
  <1>2. alive = {} /\ initialised = Cardinality(alive)
    BY FS_EmptySet DEF DevicesInit
  <1> QED BY <1>1, <1>2 DEF DevicesInv, LivingDevicesRun

\* What a module's calls make of PortAudio's count and of the streams.
LEMMA CallsType ==
    ASSUME DevicesTypeOK, NEW m \in Devices, NEW up \in Nat, NEW down \in Nat, NEW from \in Int,
           NEW s \in {"none", "stopped", "running"}, Calls(m, up, s, down, from)
    PROVE  /\ paStream' \in [Devices -> {"none", "stopped", "running"}]
           /\ initialised' \in Nat /\ balance' \in [Devices -> Int]
  BY DEF Calls, DevicesTypeOK

\* A module that comes without a failure adds one to the count.
LEMMA CreateKeeps == ASSUME DevicesInv, NEW m \in Devices, CreateDevice(m) PROVE DevicesInv'
  <1>1. PICK o \in Outcomes(m) :
            /\ Calls(m, o.up, o.stream, o.down, 0)
            /\ failed' = (failed \/ o.at # "nowhere")
    BY DEF CreateDevice
  <1>2. /\ o.up \in Nat /\ o.down \in Nat /\ o.stream \in {"none", "stopped", "running"}
        /\ o.at = "nowhere" => o.up = 1 /\ o.down = 0 /\ o.stream = "running"
        /\ (o.at # "nowhere") \in BOOLEAN
    BY DEF Outcomes
  <1>3. m \notin alive /\ alive' = alive \cup {m}
    BY DEF CreateDevice
  <1>4. DevicesTypeOK'
    <2>1. failed' \in BOOLEAN
      BY <1>1
    <2> QED BY <1>1, <1>2, <1>3, <2>1, CallsType DEF DevicesInv, DevicesTypeOK
  <1>5. ASSUME ~failed' PROVE (\A x \in alive' : paStream'[x] = "running") /\ initialised' = Cardinality(alive')
    <2>1. ~failed /\ o.at = "nowhere"
      BY <1>1, <1>5
    <2>2. initialised' = initialised + 1 /\ paStream' = [paStream EXCEPT ![m] = "running"]
      <3>1. Calls(m, 1, "running", 0, 0)
        BY <1>1, <1>2, <2>1
      <3>2. initialised \in Nat
        BY DEF DevicesInv, DevicesTypeOK
      <3> QED BY <3>1, <3>2 DEF Calls
    <2>3. IsFiniteSet(alive) /\ initialised = Cardinality(alive)
      BY <2>1, AudioDevicesAssumption, FS_Subset DEF DevicesInv, DevicesTypeOK, LivingDevicesRun
    <2>4. Cardinality(alive') = Cardinality(alive) + 1
      BY <1>3, <2>3, FS_AddElement
    <2> QED BY <1>3, <2>1, <2>2, <2>3, <2>4 DEF DevicesInv, DevicesTypeOK, LivingDevicesRun
  <1> QED BY <1>4, <1>5 DEF DevicesInv, LivingDevicesRun

\* A module that goes takes one off, and the others' streams run on.
LEMMA DeleteKeeps == ASSUME DevicesInv, NEW m \in Devices, DeleteDevice(m) PROVE DevicesInv'
  <1>1. /\ m \in alive /\ alive' = alive \ {m} /\ failed' = failed
        /\ Calls(m, 0, "none", 1 + StopTerminates(m), balance[m])
    BY DEF DeleteDevice
  <1>2. DevicesTypeOK'
    <2>1. 1 + StopTerminates(m) \in Nat
      BY DEF StopTerminates
    <2>2. balance[m] \in Int
      BY DEF DevicesInv, DevicesTypeOK
    <2> QED BY <1>1, <2>1, <2>2, CallsType DEF DevicesInv, DevicesTypeOK
  <1>3. ASSUME ~failed' PROVE (\A x \in alive' : paStream'[x] = "running") /\ initialised' = Cardinality(alive')
    <2>1. /\ ~failed /\ paStream[m] = "running" /\ StopTerminates(m) = 0
          /\ \A x \in alive : paStream[x] = "running"
      BY <1>1, <1>3 DEF StopTerminates, DevicesInv, LivingDevicesRun
    <2>2. IsFiniteSet(alive) /\ initialised = Cardinality(alive) /\ initialised \in Nat
      BY <2>1, AudioDevicesAssumption, FS_Subset DEF DevicesInv, DevicesTypeOK, LivingDevicesRun
    <2>3. IsFiniteSet(alive') /\ Cardinality(alive') = Cardinality(alive) - 1 /\ Cardinality(alive') \in Nat
      BY <1>1, <2>2, FS_RemoveElement, FS_CardinalityType
    <2>4. initialised' = initialised - 1
      BY <1>1, <2>1, <2>2, <2>3 DEF Calls
    <2>5. CASE alive' = {}
      BY <2>2, <2>3, <2>4, <2>5
    <2>6. CASE alive' # {}
      <3>1. initialised > 1
        BY <2>2, <2>3, <2>6, FS_EmptySet
      <3>2. paStream' = [paStream EXCEPT ![m] = "none"]
        BY <1>1, <2>1, <2>2, <3>1 DEF Calls
      <3> QED BY <1>1, <2>1, <2>2, <2>3, <2>4, <3>2 DEF DevicesInv, DevicesTypeOK
    <2> QED BY <2>5, <2>6
  <1> QED BY <1>2, <1>3 DEF DevicesInv, LivingDevicesRun

(* Every module that lives has its stream running, and PortAudio counts    *)
(* them, as long as none of its calls has failed.                          *)
THEOREM DevicesRun == DevicesSpec => []LivingDevicesRun
  <1>1. DevicesInv /\ [DevicesNext]_deviceVars => DevicesInv'
    <2> SUFFICES ASSUME DevicesInv, [DevicesNext]_deviceVars PROVE DevicesInv'
      OBVIOUS
    <2>1. CASE UNCHANGED deviceVars
      BY <2>1 DEF deviceVars, DevicesInv, DevicesTypeOK, LivingDevicesRun
    <2> QED BY <2>1, CreateKeeps, DeleteKeeps DEF DevicesNext
  <1>2. DevicesInv => LivingDevicesRun
    BY DEF DevicesInv
  <1> QED BY DevicesBegin, <1>1, <1>2, PTL DEF DevicesSpec

-----------------------------------------------------------------------------
(***************************************************************************)
(* Delay                                                                   *)
(***************************************************************************)

\* Samples taken since cell k was written, if the cursor goes round in 0 .. ps
Age(k) == IF k < dp THEN dp - 1 - k ELSE dp + ps - k

Cells == 0 .. MAXBS - 1

DelayTypeOK ==
    /\ cells \in [Cells -> Nat] /\ dp \in Nat /\ ps \in Cells
    /\ todo \in Nat /\ taken \in Nat /\ echo \in Nat
    /\ since \in Nat /\ cleared \in Nat /\ zeroed \in BOOLEAN

\* The line holds nothing from before the last bypass.
NothingOld ==
    /\ cleared <= taken
    /\ \A k \in Cells : cells[k] = Empty \/ cells[k] > cleared
    /\ since > 0 => (echo = Empty \/ echo > cleared)

\* One sample after a setting the cursor is within the length, and every
\* cell it has passed since holds the sample it was passed with.
GoesRound ==
    /\ ps > 0 /\ dp \in Cells
    /\ since > 0 => dp <= ps
    /\ \A k \in 0 .. ps : Age(k) < since - 1 => cells[k] = taken - Age(k)
    /\ since > ps + 2 => echo = taken - (ps + 1)

DelayInv == DelayTypeOK /\ (~zeroed => NothingOld /\ GoesRound)

LEMMA DelayInitInv == DelayInit => DelayInv
  <1> SUFFICES ASSUME DelayInit PROVE DelayInv
    OBVIOUS
  <1>1. /\ cells = [k \in Cells |-> 0] /\ dp = 0 /\ ps = FirstLength /\ ps \in Cells /\ ps > 0
        /\ todo = 0 /\ taken = 0 /\ echo = 0 /\ since = 0 /\ cleared = 0
    BY DelayAssumption DEF DelayInit, Clear, Cells, Empty
  <1>2. cells \in [Cells -> Nat] /\ \A k \in Cells : cells[k] = 0
    BY <1>1
  <1>3. zeroed \in BOOLEAN
    BY DEF DelayInit
  <1>4. DelayTypeOK
    BY <1>1, <1>2, <1>3 DEF DelayTypeOK
  <1>5. NothingOld
    BY <1>1, <1>2 DEF NothingOld, Empty
  <1>6. GoesRound
    BY <1>1, DelayAssumption DEF GoesRound, Cells, Age
  <1> QED BY <1>4, <1>5, <1>6 DEF DelayInv

\* The cursor after a sample: within the length, wherever it stood before.
LEMMA CursorComesBack ==
    ASSUME ps \in Nat, dp \in Nat, ps > 0
    PROVE  /\ NextCursor \in 0 .. ps
           /\ dp <= ps => NextCursor = IF dp = ps THEN 0 ELSE dp + 1
  BY DEF NextCursor

LEMMA SampleKeeps == ASSUME DelayInv, DelaySample PROVE DelayInv'
  <1>1. /\ todo > 0 /\ todo' = todo - 1 /\ taken' = taken + 1 /\ since' = since + 1
        /\ dp' = NextCursor /\ UNCHANGED <<ps, cleared, zeroed>>
    BY DEF DelaySample
  <1>2. DelayTypeOK
    BY DEF DelayInv
  <1>3. DelayTypeOK'
    <2>1. cells' \in [Cells -> Nat]
      <3>1. taken + 1 \in Nat
        BY <1>2 DEF DelayTypeOK
      <3> QED BY <1>2, <3>1 DEF DelaySample, DelayTypeOK
    <2>2. echo' \in Nat
      BY <1>2, DelayAssumption DEF DelaySample, DelayTypeOK, Cells, Empty
    <2>3. dp' \in Nat
      BY <1>1, <1>2 DEF DelayTypeOK, NextCursor, Cells
    <2>4. todo' \in Nat /\ taken' \in Nat /\ since' \in Nat
      BY <1>1, <1>2 DEF DelayTypeOK
    <2> QED BY <1>1, <1>2, <2>1, <2>2, <2>3, <2>4 DEF DelayTypeOK
  <1>4. ASSUME ~zeroed' PROVE NothingOld' /\ GoesRound'
    <2>1. NothingOld /\ GoesRound
      BY <1>1, <1>4 DEF DelayInv
    <2>2. /\ dp \in Cells /\ ps \in Nat /\ ps > 0 /\ taken \in Nat /\ since \in Nat /\ cleared \in Nat
          /\ cleared <= taken
      BY <1>2, <2>1 DEF GoesRound, NothingOld, DelayTypeOK, Cells
    <2>3. echo' = cells[dp] /\ cells' = [cells EXCEPT ![dp] = taken + 1]
      BY <2>2, DelayAssumption DEF DelaySample, Cells
    <2>4. /\ cells'[dp] = taken + 1 /\ \A k \in Cells : k # dp => cells'[k] = cells[k]
      BY <1>2, <2>2, <2>3 DEF DelayTypeOK
    <2>5. NothingOld'
      BY <1>1, <2>1, <2>2, <2>3, <2>4 DEF NothingOld
    <2>6. dp' \in 0 .. ps /\ (dp <= ps => dp' = IF dp = ps THEN 0 ELSE dp + 1)
      BY <1>1, <2>2, CursorComesBack DEF Cells
    <2>7. dp' \in Cells /\ dp' <= ps' /\ ps' > 0
      BY <1>1, <1>2, <2>2, <2>6, DelayAssumption DEF DelayTypeOK, Cells
    <2>8. ASSUME NEW k \in 0 .. ps', Age(k)' < since' - 1 PROVE cells'[k] = taken' - Age(k)'
      <3>1. since > 0 /\ dp <= ps
        <4>1. Age(k)' >= 0
          BY <1>1, <2>2, <2>6 DEF Age
        <4>2. since > 0
          BY <1>1, <2>2, <2>6, <2>8, <4>1 DEF Age
        <4> QED BY <2>1, <4>2 DEF GoesRound
      <3>2. k \in Cells
        BY <1>1, <1>2, DelayAssumption DEF DelayTypeOK, Cells
      <3>3. CASE k = dp
        <4>1. Age(k)' = 0
          BY <1>1, <2>2, <2>6, <3>1, <3>3 DEF Age
        <4> QED BY <1>1, <2>2, <2>4, <3>3, <4>1
      <3>4. CASE k # dp
        <4>1. Age(k)' = Age(k) + 1 /\ Age(k) \in Int
          BY <1>1, <2>2, <2>6, <3>1, <3>4 DEF Age, Cells
        <4>2. cells[k] = taken - Age(k)
          BY <1>1, <2>1, <2>2, <2>8, <4>1 DEF GoesRound
        <4> QED BY <1>1, <2>2, <2>4, <3>2, <3>4, <4>1, <4>2
      <3> QED BY <3>3, <3>4
    <2>9. ASSUME since' > ps' + 2 PROVE echo' = taken' - (ps' + 1)
      <3>1. since > 0 /\ dp <= ps /\ since >= ps + 2
        BY <1>1, <2>1, <2>2, <2>9 DEF GoesRound
      <3>2. Age(dp) = ps /\ dp \in 0 .. ps
        BY <2>2, <3>1 DEF Age, Cells
      <3>3. cells[dp] = taken - ps
        BY <2>1, <2>2, <3>1, <3>2 DEF GoesRound
      <3> QED BY <1>1, <2>2, <2>3, <3>3
    <2> QED BY <2>5, <2>7, <2>8, <2>9 DEF GoesRound
  <1> QED BY <1>3, <1>4 DEF DelayInv

LEMMA SettingKeeps ==
    ASSUME DelayInv, DelayPacket \/ (\E n \in EchoLengths : setDt(n)) \/ (\E b \in BOOLEAN : Bypass(b))
    PROVE  DelayInv'
  <1>1. CASE DelayPacket
    BY <1>1, DelayAssumption DEF DelayPacket, delayHistory, DelayInv, DelayTypeOK, NothingOld, GoesRound, Age
  <1>2. ASSUME NEW n \in EchoLengths, setDt(n) PROVE DelayInv'
    <2>1. /\ ps' = n /\ since' = 0 /\ zeroed' = (zeroed \/ n = 0)
          /\ UNCHANGED <<cells, dp, todo, taken, echo, cleared>>
      BY <1>2 DEF setDt
    <2>2. n \in Cells
      BY DelayAssumption DEF Cells
    <2>3. DelayTypeOK'
      BY <2>1, <2>2 DEF DelayInv, DelayTypeOK
    <2>4. ASSUME ~zeroed' PROVE NothingOld' /\ GoesRound'
      <3>1. ~zeroed /\ n > 0 /\ NothingOld /\ dp \in Cells
        <4>1. ~zeroed /\ n # 0
          BY <2>1, <2>4, Zenon
        <4>2. n > 0
          BY <2>2, <4>1, DelayAssumption DEF Cells
        <4> QED BY <4>1, <4>2 DEF DelayInv, GoesRound
      <3>2. \A k \in 0 .. n : Age(k)' >= 0
        BY <2>1, <2>2, <3>1, DelayAssumption DEF Age, Cells
      <3> QED BY <2>1, <2>2, <3>1, <3>2, DelayAssumption DEF NothingOld, GoesRound, Cells, Age
    <2> QED BY <2>3, <2>4 DEF DelayInv
  <1>3. ASSUME NEW b \in BOOLEAN, Bypass(b) PROVE DelayInv'
    <2>1. /\ cells' = [k \in Cells |-> 0] /\ since' = 0 /\ cleared' = taken
          /\ UNCHANGED <<dp, ps, todo, taken, echo, zeroed>>
      BY <1>3 DEF Bypass, Clear, Cells, Empty
    <2>2. cells' \in [Cells -> Nat] /\ \A k \in Cells : cells'[k] = 0
      BY <2>1
    <2>3. DelayTypeOK'
      BY <2>1, <2>2 DEF DelayInv, DelayTypeOK
    <2>4. ASSUME ~zeroed' PROVE NothingOld' /\ GoesRound'
      <3>1. GoesRound /\ DelayTypeOK
        BY <2>1, <2>4 DEF DelayInv
      <3>2. NothingOld'
        BY <2>1, <2>2, <3>1 DEF NothingOld, Empty, DelayTypeOK
      <3>3. \A k \in 0 .. ps : Age(k)' >= 0
        BY <2>1, <3>1, DelayAssumption DEF Age, Cells, GoesRound, DelayTypeOK
      <3> QED BY <2>1, <3>1, <3>2, <3>3, DelayAssumption DEF GoesRound, DelayTypeOK, Cells, Age
    <2> QED BY <2>3, <2>4 DEF DelayInv
  <1> QED BY <1>1, <1>2, <1>3

(* Once its settings stay, a Delay of any length repeats what went in      *)
(* exactly ps + 1 samples before, and never what went in before a bypass.  *)
THEOREM DelayIsInTime == DelaySpec => []EchoesInTime
  <1>1. DelayInv /\ [DelayNext]_delayVars => DelayInv'
    <2> SUFFICES ASSUME DelayInv, [DelayNext]_delayVars PROVE DelayInv'
      OBVIOUS
    <2>1. CASE UNCHANGED delayVars
      BY <2>1 DEF delayVars, delayHistory, DelayInv, DelayTypeOK, NothingOld, GoesRound, Age
    <2> QED BY <2>1, SampleKeeps, SettingKeeps DEF DelayNext
  <1>2. DelayInv => EchoesInTime
    BY DEF DelayInv, NothingOld, GoesRound, EchoesInTime
  <1> QED BY DelayInitInv, <1>1, <1>2, PTL DEF DelaySpec

-----------------------------------------------------------------------------
(***************************************************************************)
(* SoundFile: the frames of the file are those that were written, the      *)
(* header and the descriptor count them, and the peaks cover them.         *)
(***************************************************************************)

\* A frame has a sample for each channel, the peak chunk nothing or a peak for each.
Frame(shape) == [1 .. shape.chans -> Int]

PeaksOf(shape) == {<<>>} \cup [1 .. shape.chans -> [val : Nat, pos : Int]]

Disks(shape) ==
    [shape : {shape}, formSize : Int, dataSize : Int, tail : Nat, spoilt : BOOLEAN,
     data : Seq(Frame(shape)), peaks : PeaksOf(shape)]

Handles(shape) ==
    [isRead : BOOLEAN, mode : [clip : BOOLEAN, double : BOOLEAN], nFrames : Nat, cur : Int,
     lastwrite : Nat, pos : Int, lastop : {"read", "write", "sought", "failed"},
     rescale : BOOLEAN, fac : Nat, peaks : PeaksOf(shape)]

SoundFileTypeOK ==
    /\ disk.shape \in Shapes /\ disk \in Disks(disk.shape) /\ sound \in Seq(Frame(disk.shape))
    /\ handle = {} \/ \E h \in handle : handle = {h} /\ h \in Handles(disk.shape)

\* Where a descriptor of a careful program is: the data ends where it counts to, and it
\* writes where its last write or seek ended.
IsAt(h) == Careful =>
    /\ h.nFrames = Len(disk.data)
    /\ ~h.isRead /\ h.lastop \notin {"read", "failed"} => h.lastwrite = h.pos

\* The data, what was written, and the count of the header or of the descriptor agree.
Counted ==
    /\ Len(disk.data) = Len(sound)
    /\ handle = {} =>
         /\ DataFrames(disk) \in Nat
         /\ Careful => DataFrames(disk) = Len(disk.data)
    /\ \A h \in handle : IsAt(h)

\* A word is the sample that was asked for, if no writer stores what it did not clip; only
\* 1.0 cannot be an integer word.
IsKept(shape, w, f) ==
    /\ IsFloat(shape) \/ Magnitude(w) <= FULL
    /\ (\A mode \in WriteModes : mode.clip => mode.double) /\ (IsFloat(shape) \/ f < FULL) => w = f

Contents ==
    \A i \in 1 .. Len(disk.data), c \in 1 .. disk.shape.chans :
        IsKept(disk.shape, disk.data[i][c], sound[i][c])

\* The peaks cover the floats of the file, unless a writer stores what it did not clip.
Covered(peaks) ==
    IsFloat(disk.shape) /\ peaks # <<>> /\ (\A mode \in WriteModes : mode.clip => mode.double) =>
        \A i \in 1 .. Len(disk.data), c \in 1 .. disk.shape.chans :
            Magnitude(disk.data[i][c]) <= peaks[c].val

Loud ==
    /\ handle = {} => Covered(disk.peaks)
    /\ \A h \in handle :
         /\ Covered(h.peaks)
         /\ h.isRead => h.peaks = disk.peaks /\ h.fac = RescaleFactor(disk)
         /\ h.isRead => h.nFrames = DataFrames(disk)
         /\ ~h.isRead => h.mode \in WriteModes

SoundFileInv == SoundFileTypeOK /\ Counted /\ Contents /\ Loud

\* What the code's arithmetic gives: the larger, the smaller, the clipped, the cast.
LEMMA MaxOfTwo ==
    ASSUME NEW a \in Int, NEW b \in Int
    PROVE  Max({a, b}) = IF a >= b THEN a ELSE b
  <1> DEFINE m == IF a >= b THEN a ELSE b
  <1>1. m \in {a, b} /\ \A y \in {a, b} : m >= y
    OBVIOUS
  <1>2. \A x \in {a, b} : (\A y \in {a, b} : x >= y) => x = m
    OBVIOUS
  <1> QED BY <1>1, <1>2 DEF Max

LEMMA MinOfTwo ==
    ASSUME NEW a \in Int, NEW b \in Int
    PROVE  Min({a, b}) = IF a <= b THEN a ELSE b
  <1> DEFINE m == IF a <= b THEN a ELSE b
  <1>1. m \in {a, b} /\ \A y \in {a, b} : m <= y
    OBVIOUS
  <1>2. \A x \in {a, b} : (\A y \in {a, b} : x <= y) => x = m
    OBVIOUS
  <1> QED BY <1>1, <1>2 DEF Min

LEMMA ClippedIs ==
    ASSUME NEW f \in Int
    PROVE  Clipped(f) = IF f > FULL THEN FULL ELSE IF f < -FULL THEN -FULL ELSE f
  <1>1. FULL \in Nat \ {0}
    BY SoundFileAssumption
  <1>2. Max({f, -FULL}) = IF f >= -FULL THEN f ELSE -FULL
    BY <1>1, MaxOfTwo
  <1>3. PICK g \in Int : g = Max({f, -FULL})
    BY <1>1, <1>2
  <1>4. Min({g, FULL}) = IF g <= FULL THEN g ELSE FULL
    BY <1>1, MinOfTwo
  <1> QED BY <1>1, <1>2, <1>3, <1>4 DEF Clipped

LEMMA WordIs ==
    ASSUME NEW f \in Int
    PROVE  /\ AsWord(f) \in Int /\ Magnitude(AsWord(f)) <= FULL
           /\ f >= -FULL /\ f < FULL => AsWord(f) = f
  <1>1. FULL \in Nat \ {0}
    BY SoundFileAssumption
  <1>2. PICK d \in Nat : d = 2 * FULL
    BY <1>1
  <1>3. PICK g \in Int : g = f + FULL
    BY <1>1
  <1>4. g % d \in 0 .. d - 1
    BY <1>1, <1>2
  <1>5. g >= 0 /\ g < d => g % d = g
    BY <1>1, <1>2
  <1>6. AsWord(f) = (g % d) - FULL
    BY <1>2, <1>3 DEF AsWord
  <1> QED BY <1>1, <1>2, <1>3, <1>4, <1>5, <1>6 DEF Magnitude

\* Scaled down by a factor that covers it, a float is within 1.0.
LEMMA ScaledIs ==
    ASSUME NEW w \in Int, NEW fac \in Int, FULL <= fac, Magnitude(w) <= fac
    PROVE  Magnitude((w * FULL) \div fac) <= FULL
  <1>1. FULL \in Nat \ {0}
    BY SoundFileAssumption
  <1>2. PICK q \in Int : q = (w * FULL) \div fac
    BY <1>1
  <1>3. fac * q <= w * FULL /\ w * FULL < fac * (q + 1)
    BY <1>1, <1>2
  <1>4. w <= fac /\ -fac <= w
    BY DEF Magnitude
  <1>5. w * FULL <= fac * FULL /\ fac * (-FULL) <= w * FULL
    BY <1>1, <1>4
  <1>6. q <= FULL
    BY <1>1, <1>3, <1>5
  <1>7. -FULL <= q
    BY <1>1, <1>3, <1>5
  <1> QED BY <1>1, <1>2, <1>6, <1>7 DEF Magnitude

LEMMA FramesOfBytes == ASSUME NEW n \in Nat, NEW b \in Nat \ {0} PROVE (n * b) \div b = n
  OBVIOUS

\* A bounded set of numbers has a greatest.
LEMMA Greatest ==
    ASSUME NEW S \in SUBSET Nat, S # {}, NEW B \in Nat, \A x \in S : x <= B
    PROVE  Max(S) \in S /\ \A x \in S : x <= Max(S)
  <1> DEFINE T == {B - x : x \in S}
  <1>1. T \in SUBSET Nat /\ T # {}
    <2>1. \A x \in S : B - x \in Nat
      OBVIOUS
    <2> QED BY <2>1
  <1>2. PICK m \in T : \A n \in T : m <= n
    BY <1>1, Least
  <1>3. PICK x \in S : m = B - x
    BY <1>2
  <1>4. \A y \in S : y <= x
    <2> SUFFICES ASSUME NEW y \in S PROVE y <= x
      OBVIOUS
    <2>1. B - y \in T
      OBVIOUS
    <2>2. B - x <= B - y
      BY <1>2, <1>3, <2>1
    <2>3. x \in Nat /\ y \in Nat
      OBVIOUS
    <2> QED BY <2>2, <2>3
  <1>5. \E z \in S : \A y \in S : z >= y
    BY <1>3, <1>4
  <1>6. Max(S) \in S /\ \A y \in S : Max(S) >= y
    BY <1>5 DEF Max
  <1> QED BY <1>6

LEMMA PeaksAreBounded ==
    ASSUME NEW shape \in Shapes, NEW peaks \in [1 .. shape.chans -> [val : Nat, pos : Int]]
    PROVE  \E B \in Nat : \A c \in 1 .. shape.chans : peaks[c].val <= B
  <1>0. shape.chans \in Nat
    BY SoundFileAssumption
  <1> DEFINE G == {n \in Nat : n <= shape.chans => \E B \in Nat : \A c \in 1 .. n : peaks[c].val <= B}
  <1>1. 0 \in G
    OBVIOUS
  <1>2. \A n \in 0 .. shape.chans - 1 : n \in G => n + 1 \in G
    <2> SUFFICES ASSUME NEW n \in 0 .. shape.chans - 1, n \in G PROVE n + 1 \in G
      OBVIOUS
    <2>1. PICK B \in Nat : \A c \in 1 .. n : peaks[c].val <= B
      BY <1>0
    <2>2. PICK v \in Nat : v = peaks[n + 1].val
      BY <1>0
    <2>3. PICK D \in Nat : D = B + v
      OBVIOUS
    <2>4. \A c \in 1 .. n + 1 : peaks[c].val \in Nat
      BY <1>0
    <2>5. ASSUME NEW c \in 1 .. n + 1 PROVE peaks[c].val <= D
      <3>1. B <= D /\ v <= D
        BY <2>3
      <3>2. CASE c = n + 1
        BY <2>2, <3>1, <3>2
      <3>3. CASE c # n + 1
        <4>1. c \in 1 .. n
          BY <1>0, <3>3
        <4>2. peaks[c].val \in Nat /\ peaks[c].val <= B
          BY <2>1, <2>4, <4>1
        <4> QED BY <2>3, <3>1, <4>2
      <3> QED BY <3>2, <3>3
    <2>6. n + 1 \in Nat
      OBVIOUS
    <2> QED BY <2>3, <2>5, <2>6
  <1> HIDE DEF G
  <1>3. 0 .. shape.chans \subseteq G
    BY <1>0, <1>1, <1>2, Induct
  <1>4. shape.chans \in 0 .. shape.chans
    BY <1>0
  <1>5. shape.chans \in G
    BY <1>3, <1>4
  <1>6. PICK n \in Nat : n = shape.chans
    BY <1>0
  <1>7. n <= shape.chans => \E B \in Nat : \A c \in 1 .. n : peaks[c].val <= B
    BY <1>5, <1>6 DEF G
  <1> QED BY <1>6, <1>7

\* The factor of a file covers every peak of its header.
LEMMA RescaleFactorIs ==
    ASSUME NEW f, f.shape \in Shapes, f.peaks \in PeaksOf(f.shape)
    PROVE  /\ RescaleFactor(f) \in Nat /\ RescaleFactor(f) >= FULL
           /\ f.peaks # <<>> => \A c \in 1 .. f.shape.chans : f.peaks[c].val <= RescaleFactor(f)
  <1> DEFINE S == {FULL} \cup {f.peaks[c].val : c \in DOMAIN f.peaks}
  <1>0. FULL \in Nat /\ f.shape.chans \in Nat
    BY SoundFileAssumption
  <1>1. CASE f.peaks = <<>>
    <2>1. S = {FULL}
      BY <1>1
    <2>2. Max(S) = FULL
      <3>1. Max({FULL, FULL}) = FULL
        BY <1>0, MaxOfTwo
      <3>2. S = {FULL, FULL}
        BY <2>1
      <3> QED BY <3>1, <3>2
    <2> QED BY <1>0, <1>1, <2>2 DEF RescaleFactor
  <1>2. CASE f.peaks # <<>>
    <2>1. f.peaks \in [1 .. f.shape.chans -> [val : Nat, pos : Int]]
      BY <1>2 DEF PeaksOf
    <2>2. PICK B \in Nat : \A c \in 1 .. f.shape.chans : f.peaks[c].val <= B
      BY <2>1, PeaksAreBounded
    <2>3. PICK D \in Nat : D = B + FULL
      BY <1>0
    <2>4. S \in SUBSET Nat /\ S # {} /\ FULL \in S
      BY <1>0, <2>1
    <2>5. \A x \in S : x <= D
      BY <1>0, <2>1, <2>2, <2>3
    <2>6. Max(S) \in S /\ \A x \in S : x <= Max(S)
      BY <2>4, <2>5, Greatest
    <2> QED BY <1>0, <2>1, <2>4, <2>6 DEF RescaleFactor
  <1> QED BY <1>1, <1>2

\* A frame of a hole
Silent == [c \in 1 .. disk.shape.chans |-> 0]

\* Frames put over a file leave what they do not cover, and lengthen it as far as they reach.
LEMMA OverIs ==
    ASSUME NEW S, Silent \in S, NEW data \in Seq(S), NEW frames \in Seq(S), NEW pos \in Int
    PROVE  /\ Over(data, pos, frames) \in Seq(S)
           /\ Len(Over(data, pos, frames)) =
                IF Len(data) >= pos + Len(frames) THEN Len(data) ELSE pos + Len(frames)
           /\ \A i \in 1 .. Len(Over(data, pos, frames)) :
                Over(data, pos, frames)[i] =
                    IF i \in pos + 1 .. pos + Len(frames) THEN frames[i - pos]
                    ELSE IF i \in 1 .. Len(data) THEN data[i] ELSE Silent
  <1>1. /\ Len(data) \in Nat /\ Len(frames) \in Nat /\ DOMAIN data = 1 .. Len(data)
        /\ \A i \in 1 .. Len(data) : data[i] \in S
        /\ \A i \in 1 .. Len(frames) : frames[i] \in S
    BY LenProperties, ElementOfSeq
  <1>1a. PICK k \in Nat, e \in Int : k = Len(data) /\ e = pos + Len(frames)
    <2>1. pos + Len(frames) \in Int
      BY <1>1
    <2> QED BY <1>1, <2>1
  <1>2. PICK m \in Nat : m = IF k >= e THEN k ELSE e
    BY <1>1a
  <1>3. Max({Len(data), pos + Len(frames)}) = m
    <2>1. Max({k, e}) = IF k >= e THEN k ELSE e
      BY MaxOfTwo
    <2> QED BY <1>1a, <1>2, <2>1
  <1> DEFINE v(i) == IF i \in pos + 1 .. pos + Len(frames) THEN frames[i - pos]
                     ELSE IF i \in 1 .. Len(data) THEN data[i] ELSE Silent
             o == [i \in 1 .. m |-> v(i)]
  <1>4. Over(data, pos, frames) = o
    BY <1>1, <1>3 DEF Over, Silent
  <1>5. \A i \in pos + 1 .. pos + Len(frames) : i - pos \in 1 .. Len(frames)
    BY <1>1
  <1>6. \A i \in 1 .. m : v(i) \in S
    BY <1>1, <1>5
  <1>7. o \in Seq(S) /\ Len(o) = m
    BY <1>6, SeqDef
  <1> QED BY <1>1a, <1>2, <1>4, <1>7


LEMMA SampledIs == ASSUME NEW h, NEW f \in Int PROVE Sampled(h, f) \in Int /\ Magnitude(Sampled(h, f)) \in Nat
  <1>1. FULL \in Nat
    BY SoundFileAssumption
  <1>2. Sampled(h, f) \in Int
    BY <1>1, ClippedIs DEF Sampled
  <1> QED BY <1>2 DEF Magnitude

LEMMA SmallestOf == ASSUME NEW T \in SUBSET Nat, T # {} PROVE Min(T) \in Nat
  <1>1. PICK m \in T : \A n \in T : m <= n
    BY Least
  <1>2. Min(T) \in T
    BY <1>1 DEF Min
  <1> QED BY <1>2

\* A call's peaks are at least those before it, and at least what it writes.
LEMMA NewPeaksAre ==
    ASSUME NEW shape \in Shapes, NEW h, h.peaks # <<>>, h.peaks \in PeaksOf(shape), h.nFrames \in Nat,
           NEW n \in 1 .. 2, NEW frames \in [1 .. n -> [1 .. shape.chans -> Int]]
    PROVE  /\ NewPeaks(h, frames) \in PeaksOf(shape)
           /\ \A c \in 1 .. shape.chans :
                /\ h.peaks[c].val \in Nat /\ NewPeaks(h, frames)[c].val \in Nat
                /\ h.peaks[c].val <= NewPeaks(h, frames)[c].val
                /\ \A i \in 1 .. n :
                     Magnitude(Sampled(h, frames[i][c])) <= NewPeaks(h, frames)[c].val
  <1>0. h.peaks \in [1 .. shape.chans -> [val : Nat, pos : Int]]
    BY DEF PeaksOf
  <1> DEFINE loud(c, i) == Magnitude(Sampled(h, frames[i][c]))
             most(c) == Max({loud(c, i) : i \in DOMAIN frames})
             first(c) == Min({i \in DOMAIN frames : loud(c, i) = most(c)})
             peak(c) == IF most(c) <= h.peaks[c].val THEN h.peaks[c]
                        ELSE [val |-> most(c), pos |-> h.nFrames + first(c) - 1]
  <1>1. NewPeaks(h, frames) = [c \in 1 .. shape.chans |-> peak(c)]
    BY <1>0 DEF NewPeaks
  <1>2. \A c \in 1 .. shape.chans, i \in 1 .. n : loud(c, i) \in Nat
    BY SampledIs
  <1>3. DOMAIN frames = 1 .. n
    OBVIOUS
  <1> HIDE DEF loud
  <1>4. ASSUME NEW c \in 1 .. shape.chans
        PROVE  /\ most(c) \in Nat /\ \A i \in 1 .. n : loud(c, i) <= most(c)
               /\ \E i \in 1 .. n : loud(c, i) = most(c)
    <2>1. CASE n = 1
      <3>1. {loud(c, i) : i \in DOMAIN frames} = {loud(c, 1), loud(c, 1)}
        BY <1>3, <2>1
      <3>2. most(c) = loud(c, 1)
        <4>1. PICK a \in Int : a = loud(c, 1)
          BY <1>2, <2>1
        <4>2. Max({a, a}) = a
          BY MaxOfTwo
        <4> QED BY <3>1, <4>1, <4>2
      <3> HIDE DEF most
      <3>3. loud(c, 1) \in Nat
        BY <1>2, <2>1
      <3>4. \A i \in 1 .. n : i = 1
        BY <2>1
      <3>5. 1 \in 1 .. n
        BY <2>1
      <3> QED BY <3>2, <3>3, <3>4, <3>5
    <2>2. CASE n = 2
      <3>1. {loud(c, i) : i \in DOMAIN frames} = {loud(c, 1), loud(c, 2)}
        BY <1>3, <2>2
      <3>2. loud(c, 1) \in Nat /\ loud(c, 2) \in Nat
        BY <1>2, <2>2
      <3>3. most(c) = IF loud(c, 1) >= loud(c, 2) THEN loud(c, 1) ELSE loud(c, 2)
        <4>1. PICK a \in Int, b \in Int : a = loud(c, 1) /\ b = loud(c, 2)
          BY <3>2
        <4>2. Max({a, b}) = IF a >= b THEN a ELSE b
          BY MaxOfTwo
        <4> QED BY <3>1, <4>1, <4>2
      <3>4. \A i \in 1 .. n : i = 1 \/ i = 2
        BY <2>2
      <3>5. 1 \in 1 .. n /\ 2 \in 1 .. n
        BY <2>2
      <3> HIDE DEF most
      <3>6. most(c) \in Nat /\ loud(c, 1) <= most(c) /\ loud(c, 2) <= most(c)
        BY <3>2, <3>3
      <3>7. most(c) = loud(c, 1) \/ most(c) = loud(c, 2)
        BY <3>3
      <3> QED BY <3>4, <3>5, <3>6, <3>7
    <2>3. n = 1 \/ n = 2
      OBVIOUS
    <2> HIDE DEF most
    <2> QED BY <2>1, <2>2, <2>3
  <1> HIDE DEF most
  <1>5. \A c \in 1 .. shape.chans : first(c) \in Nat
    <2> SUFFICES ASSUME NEW c \in 1 .. shape.chans PROVE first(c) \in Nat
      OBVIOUS
    <2> DEFINE T == {i \in DOMAIN frames : loud(c, i) = most(c)}
    <2>1. PICK i \in 1 .. n : loud(c, i) = most(c)
      BY <1>4
    <2> HIDE DEF most
    <2>2. T \in SUBSET Nat
      BY <1>3
    <2>3. i \in T
      BY <1>3, <2>1
    <2> HIDE DEF T
    <2>4. Min(T) \in Nat
      BY <2>2, <2>3, SmallestOf
    <2> QED BY <2>4 DEF T
  <1> HIDE DEF first
  <1>6. \A c \in 1 .. shape.chans : h.peaks[c] \in [val : Nat, pos : Int]
    BY <1>0
  <1>7. ASSUME NEW c \in 1 .. shape.chans
        PROVE  /\ peak(c) \in [val : Nat, pos : Int] /\ most(c) <= peak(c).val
               /\ h.peaks[c].val <= peak(c).val
    <2>1. most(c) \in Nat /\ first(c) \in Nat /\ h.peaks[c] \in [val : Nat, pos : Int] /\ h.nFrames \in Nat
      BY <1>4, <1>5, <1>6
    <2>2. CASE most(c) <= h.peaks[c].val
      BY <2>1, <2>2
    <2>3. CASE ~(most(c) <= h.peaks[c].val)
      <3>1. peak(c) = [val |-> most(c), pos |-> h.nFrames + first(c) - 1]
        BY <2>3
      <3>2. h.nFrames + first(c) - 1 \in Int
        BY <2>1
      <3> QED BY <2>1, <2>3, <3>1, <3>2
    <2> QED BY <2>2, <2>3
  <1> HIDE DEF peak
  <1>8. NewPeaks(h, frames) \in [1 .. shape.chans -> [val : Nat, pos : Int]]
    BY <1>1, <1>7
  <1>9. ASSUME NEW c \in 1 .. shape.chans
        PROVE  /\ h.peaks[c].val \in Nat /\ NewPeaks(h, frames)[c].val \in Nat
               /\ h.peaks[c].val <= NewPeaks(h, frames)[c].val
               /\ \A i \in 1 .. n : loud(c, i) <= NewPeaks(h, frames)[c].val
    <2>1. NewPeaks(h, frames)[c] = peak(c)
      BY <1>1
    <2>2. \A i \in 1 .. n : loud(c, i) \in Nat /\ loud(c, i) <= most(c)
      BY <1>2, <1>4
    <2>3. peak(c).val \in Nat /\ most(c) \in Nat
      BY <1>4, <1>7
    <2> QED BY <1>6, <1>7, <2>1, <2>2, <2>3
  <1> QED BY <1>8, <1>9 DEF PeaksOf, loud

LEMMA NoPeaks == ASSUME NEW h, NEW frames, h.peaks = <<>> PROVE NewPeaks(h, frames) = <<>>
  BY DEF NewPeaks


\* Blocks are not empty, and headers have a size.
LEMMA SizesAre ==
    ASSUME NEW shape \in Shapes, NEW peaks
    PROVE  BlockAlign(shape) \in Nat \ {0} /\ DataOffset(shape, peaks) \in Nat
  <1>1. shape.chans \in Nat \ {0}
    BY SoundFileAssumption
  <1>2. psf_wordsize(shape.samp) \in {2, 3, 4}
    BY DEF psf_wordsize
  <1>3. PeakChunk(shape, peaks) \in Nat
    BY <1>1 DEF PeakChunk
  <1>4. BlockAlign(shape) \in Nat \ {0}
    BY <1>1, <1>2 DEF BlockAlign
  <1>5. shape.kind \in {"WAVE", "WAVE_EX", "AIFF", "AIFC"}
    BY SoundFileAssumption
  <1>6. DataOffset(shape, peaks) \in Nat
    BY <1>3, <1>5 DEF DataOffset, wavWriteHeader, waveExWriteHeader, aiffWriteHeader, aifcWriteHeader
  <1> QED BY <1>4, <1>6

LEMMA FileBegins == SoundFileInit => SoundFileInv
  <1> SUFFICES ASSUME SoundFileInit PROVE SoundFileInv
    OBVIOUS
  <1>1. PICK shape \in Shapes :
            disk = [WriteHeader(shape, TRUE) EXCEPT !.formSize = DataOffset(shape, <<>>) - 8,
                                                    !.dataSize = IF IsAiff(shape) THEN 8 ELSE 0]
    BY DEF SoundFileInit
  <1>2. handle = {} /\ sound = <<>>
    BY DEF SoundFileInit
  <1>3. /\ disk = [shape |-> shape, formSize |-> DataOffset(shape, <<>>) - 8,
                   dataSize |-> IF IsAiff(shape) THEN 8 ELSE 0, tail |-> 0, data |-> <<>>,
                   spoilt |-> FALSE, peaks |-> <<>>]
    BY <1>1 DEF WriteHeader
  <1>4. <<>> \in Seq(Frame(shape)) /\ Len(<<>>) = 0 /\ 1 .. Len(<<>>) = {}
    BY EmptySeq
  <1>5. <<>> \in PeaksOf(shape)
    BY DEF PeaksOf
  <1>6. DataOffset(shape, <<>>) \in Nat /\ BlockAlign(shape) \in Nat \ {0}
    BY SizesAre
  <1>7. DataFrames(disk) = 0
    <2>1. PICK b \in Nat \ {0} : b = BlockAlign(shape)
      BY <1>6
    <2>2. 0 \div b = 0
      BY <2>1
    <2>3. DataFrames(disk) = 0 \div BlockAlign(shape)
      BY <1>3 DEF DataFrames
    <2> QED BY <2>1, <2>2, <2>3
  <1>8. SoundFileTypeOK
    BY <1>2, <1>3, <1>4, <1>5, <1>6 DEF SoundFileTypeOK, Disks
  <1>9. Counted /\ Contents /\ Loud
    BY <1>2, <1>3, <1>4, <1>7 DEF Counted, Contents, Loud, Covered
  <1> QED BY <1>8, <1>9 DEF SoundFileInv

LEMMA CreateKeepsFile == ASSUME SoundFileInv, psf_sndCreate PROVE SoundFileInv'
  <1>1. PICK shape \in Shapes, mode \in WriteModes, minheader \in BOOLEAN :
            /\ disk' = WriteHeader(shape, minheader)
            /\ handle' = {[isRead |-> FALSE, mode |-> mode, nFrames |-> 0, cur |-> 0, lastwrite |-> 0,
                        pos |-> 0, lastop |-> "write", rescale |-> FALSE, fac |-> FULL,
                        peaks |-> WriteHeader(shape, minheader).peaks]}
    BY DEF psf_sndCreate
  <1>2. sound' = <<>>
    BY DEF psf_sndCreate
  <1>3. PICK peaks : peaks = WriteHeader(shape, minheader).peaks
    OBVIOUS
  <1>4. peaks \in PeaksOf(shape)
    BY <1>3, SoundFileAssumption DEF PeaksOf, WriteHeader
  <1>5. disk' = [shape |-> shape, formSize |-> 0, dataSize |-> 0, tail |-> 0, data |-> <<>>,
                 spoilt |-> FALSE, peaks |-> peaks]
    BY <1>1, <1>3 DEF WriteHeader
  <1>6. <<>> \in Seq(Frame(shape)) /\ Len(<<>>) = 0 /\ 1 .. Len(<<>>) = {}
    BY EmptySeq
  <1>7. FULL \in Nat /\ mode \in [clip : BOOLEAN, double : BOOLEAN]
    BY SoundFileAssumption
  <1> DEFINE g == [isRead |-> FALSE, mode |-> mode, nFrames |-> 0, cur |-> 0, lastwrite |-> 0,
                        pos |-> 0, lastop |-> "write", rescale |-> FALSE, fac |-> FULL,
                        peaks |-> peaks]
  <1>8. handle' = {g}
    BY <1>1, <1>3
  <1>9. g \in Handles(shape)
    BY <1>4, <1>7 DEF Handles
  <1>10. /\ disk'.shape = shape /\ disk' \in Disks(shape) /\ disk'.data = <<>> /\ disk'.peaks = peaks
    BY <1>4, <1>5, <1>6 DEF Disks
  <1>11. /\ g.nFrames = 0 /\ g.pos = 0 /\ g.lastwrite = 0 /\ ~g.isRead /\ g.mode \in WriteModes
         /\ g.peaks = peaks
    OBVIOUS
  <1> HIDE DEF g
  <1>12. SoundFileTypeOK'
    BY <1>2, <1>6, <1>8, <1>9, <1>10 DEF SoundFileTypeOK
  <1>13. Counted'
    BY <1>2, <1>6, <1>8, <1>10, <1>11 DEF Counted, IsAt
  <1>14. Contents' /\ Loud'
    BY <1>6, <1>8, <1>10, <1>11 DEF Contents, Loud, Covered
  <1> QED BY <1>12, <1>13, <1>14 DEF SoundFileInv


\* What every step of an open descriptor starts from.
OpenAt(h) ==
    /\ handle = {h} /\ The = h /\ h \in Handles(disk.shape)
    /\ disk.shape \in Shapes /\ disk \in Disks(disk.shape) /\ sound \in Seq(Frame(disk.shape))
    /\ IsAt(h) /\ Len(disk.data) = Len(sound) /\ Covered(h.peaks)
    /\ h.isRead => h.peaks = disk.peaks /\ h.fac = RescaleFactor(disk)
    /\ h.isRead => h.nFrames = DataFrames(disk)
    /\ ~h.isRead => h.mode \in WriteModes

LEMMA OpenIs == ASSUME SoundFileInv, handle # {} PROVE \E h : OpenAt(h)
  <1>1. PICK h \in handle : handle = {h} /\ h \in Handles(disk.shape)
    BY DEF SoundFileInv, SoundFileTypeOK
  <1>2. The = h
    BY <1>1 DEF The
  <1>3. OpenAt(h)
    BY <1>1, <1>2 DEF OpenAt, SoundFileInv, SoundFileTypeOK, Counted, Loud
  <1> QED BY <1>3

\* A step that moves the descriptor about and leaves the file.
LEMMA MoveKeepsFile ==
    ASSUME SoundFileInv, NEW h, OpenAt(h), NEW g, handle' = {g}, UNCHANGED <<disk, sound>>,
           g \in Handles(disk.shape), IsAt(g), g.peaks = h.peaks, g.isRead = h.isRead,
           g.fac = h.fac, g.mode = h.mode, g.nFrames = h.nFrames
    PROVE  SoundFileInv'
  <1>1. SoundFileTypeOK'
    BY DEF OpenAt, SoundFileTypeOK
  <1>2. Counted'
    BY DEF OpenAt, Counted, IsAt
  <1>3. Contents'
    BY DEF SoundFileInv, Contents
  <1>4. Loud'
    <2>1. Covered(g.peaks)
      BY DEF OpenAt
    <2>2. Covered(g.peaks)'
      BY <2>1 DEF Covered
    <2> QED BY <2>2 DEF OpenAt, Loud, RescaleFactor, DataFrames
  <1> QED BY <1>1, <1>2, <1>3, <1>4 DEF SoundFileInv

LEMMA SeekKeepsFile == ASSUME SoundFileInv, psf_sndSeek PROVE SoundFileInv'
  <1>1. handle # {} /\ UNCHANGED <<disk, sound>>
    BY DEF psf_sndSeek
  <1>2. PICK h : OpenAt(h)
    BY <1>1, OpenIs
  <1>3. h \in Handles(disk.shape) /\ IsAt(h)
    BY <1>2 DEF OpenAt
  <1>4. PICK to \in Int : (to >= 0 /\ SeekInside(h, to)) \/ SeekBefore(h, to)
    BY <1>2 DEF psf_sndSeek, OpenAt
  <1>5. PICK cur \in Int, lw \in Nat, op \in {"sought", "failed"} :
            /\ handle' = {[h EXCEPT !.pos = to, !.cur = cur, !.lastop = op, !.lastwrite = lw]}
            /\ op = "sought" /\ ~h.isRead => lw = to
    <2>1. CASE to >= 0 /\ SeekInside(h, to)
      <3>1. PICK lw \in Nat : lw = IF h.isRead THEN h.lastwrite ELSE to
        BY <1>3, <2>1 DEF Handles
      <3>2. handle' = {[h EXCEPT !.pos = to, !.cur = to, !.lastop = "sought", !.lastwrite = lw]}
        BY <2>1, <3>1 DEF SeekInside
      <3> QED BY <3>1, <3>2
    <2>2. CASE SeekBefore(h, to)
      <3>1. h.cur \in Int /\ h.lastwrite \in Nat
        BY <1>3 DEF Handles
      <3>2. [h EXCEPT !.pos = to, !.lastop = "failed"] =
               [h EXCEPT !.pos = to, !.cur = h.cur, !.lastop = "failed", !.lastwrite = h.lastwrite]
        BY <1>3 DEF Handles
      <3>3. handle' = {[h EXCEPT !.pos = to, !.cur = h.cur, !.lastop = "failed", !.lastwrite = h.lastwrite]}
        BY <2>2, <3>2 DEF SeekBefore
      <3>4. PICK cur \in Int, lw \in Nat : cur = h.cur /\ lw = h.lastwrite
        BY <3>1
      <3> QED BY <3>3, <3>4
    <2> QED BY <1>4, <2>1, <2>2
  <1> DEFINE g == [h EXCEPT !.pos = to, !.cur = cur, !.lastop = op, !.lastwrite = lw]
  <1>6. g \in Handles(disk.shape)
    <2>1. PICK p : p = [h EXCEPT !.pos = to, !.cur = cur]
      OBVIOUS
    <2>2. p \in Handles(disk.shape)
      BY <1>3, <2>1 DEF Handles
    <2>3. g = [p EXCEPT !.lastop = op, !.lastwrite = lw]
      BY <2>1
    <2> HIDE DEF g
    <2> QED BY <2>2, <2>3 DEF Handles
  <1>7. /\ g.pos = to /\ g.lastwrite = lw /\ g.lastop = op /\ g.isRead = h.isRead
        /\ g.nFrames = h.nFrames /\ g.peaks = h.peaks /\ g.fac = h.fac /\ g.mode = h.mode
    BY <1>3 DEF Handles
  <1>8. handle' = {g}
    BY <1>5
  <1> HIDE DEF g
  <1>9. IsAt(g)
    BY <1>3, <1>5, <1>7 DEF IsAt
  <1> QED BY <1>1, <1>2, <1>6, <1>7, <1>8, <1>9, MoveKeepsFile

LEMMA ReadKeepsFile == ASSUME SoundFileInv, ReadFrames PROVE SoundFileInv'
  <1>1. handle # {} /\ UNCHANGED <<disk, sound>>
    BY DEF ReadFrames
  <1>2. PICK h : OpenAt(h)
    BY <1>1, OpenIs
  <1>3. h \in Handles(disk.shape) /\ IsAt(h) /\ Len(disk.data) \in Nat
    BY <1>2, LenProperties DEF OpenAt, Disks
  <1>4. h.pos \in Int /\ h.cur \in Int /\ h.nFrames \in Nat
    BY <1>3 DEF Handles
  <1>5. PICK pos \in Int, cur \in Int, op \in {"read", "failed"} :
            handle' = {[h EXCEPT !.pos = pos, !.cur = cur, !.lastop = op]}
    <2>1. PICK n \in 1 .. 2 :
            \/ handle' = {[h EXCEPT !.pos = h.pos + ToRead(h, n), !.cur = h.cur + ToRead(h, n),
                                    !.lastop = "read"]}
            \/ handle' = {[h EXCEPT !.pos = Max({h.pos, Len(disk.data)}), !.lastop = "failed"]}
      BY <1>2 DEF ReadFrames, OpenAt
    <2>2. PICK got \in Int : got = ToRead(h, n)
      <3>1. PICK left \in Int : left = h.nFrames - h.cur
        BY <1>4
      <3>2. Min({left, n}) = IF left <= n THEN left ELSE n
        BY MinOfTwo
      <3> QED BY <3>1, <3>2 DEF ToRead
    <2>3. PICK end \in Int : end = Max({h.pos, Len(disk.data)})
      <3>1. Max({h.pos, Len(disk.data)}) = IF h.pos >= Len(disk.data) THEN h.pos ELSE Len(disk.data)
        BY <1>3, <1>4, MaxOfTwo
      <3> QED BY <1>3, <1>4, <3>1
    <2>4. [h EXCEPT !.pos = end, !.lastop = "failed"] =
             [h EXCEPT !.pos = end, !.cur = h.cur, !.lastop = "failed"]
      BY <1>3 DEF Handles
    <2>5. PICK to \in Int, cur \in Int : to = h.pos + got /\ cur = h.cur + got
      <3>1. h.pos + got \in Int /\ h.cur + got \in Int
        BY <1>4
      <3> QED BY <3>1
    <2>6. PICK here \in Int : here = h.cur
      BY <1>4
    <2>7. CASE handle' = {[h EXCEPT !.pos = h.pos + ToRead(h, n), !.cur = h.cur + ToRead(h, n),
                                    !.lastop = "read"]}
      <3>1. handle' = {[h EXCEPT !.pos = to, !.cur = cur, !.lastop = "read"]}
        BY <2>2, <2>5, <2>7
      <3> QED BY <3>1
    <2>8. CASE handle' = {[h EXCEPT !.pos = Max({h.pos, Len(disk.data)}), !.lastop = "failed"]}
      <3>1. handle' = {[h EXCEPT !.pos = end, !.cur = here, !.lastop = "failed"]}
        BY <2>3, <2>4, <2>6, <2>8
      <3> QED BY <3>1
    <2> QED BY <2>1, <2>7, <2>8
  <1> DEFINE g == [h EXCEPT !.pos = pos, !.cur = cur, !.lastop = op]
  <1>6. g \in Handles(disk.shape)
    <2>1. PICK p : p = [h EXCEPT !.pos = pos, !.cur = cur]
      OBVIOUS
    <2>2. p \in Handles(disk.shape)
      BY <1>3, <2>1 DEF Handles
    <2>3. g = [p EXCEPT !.lastop = op]
      BY <2>1
    <2> HIDE DEF g
    <2> QED BY <2>2, <2>3 DEF Handles
  <1>7. /\ g.lastwrite = h.lastwrite /\ g.isRead = h.isRead /\ g.lastop = op
        /\ g.nFrames = h.nFrames /\ g.peaks = h.peaks /\ g.fac = h.fac /\ g.mode = h.mode
    BY <1>3 DEF Handles
  <1>8. handle' = {g}
    BY <1>5
  <1> HIDE DEF g
  <1>9. IsAt(g)
    BY <1>3, <1>7 DEF IsAt
  <1> QED BY <1>1, <1>2, <1>6, <1>7, <1>8, <1>9, MoveKeepsFile

LEMMA OpenKeepsFile == ASSUME SoundFileInv, psf_sndOpen PROVE SoundFileInv'
  <1>1. handle = {} /\ UNCHANGED <<disk, sound>>
    BY DEF psf_sndOpen
  <1>2. PICK rescale \in BOOLEAN :
         handle' = {[isRead |-> TRUE, mode |-> [clip |-> TRUE, double |-> FALSE], cur |-> 0,
                     lastwrite |-> 0, pos |-> 0, lastop |-> "read", rescale |-> rescale,
                     nFrames |-> DataFrames(disk), fac |-> RescaleFactor(disk), peaks |-> disk.peaks]}
    BY DEF psf_sndOpen
  <1>0. PICK g : g = [isRead |-> TRUE, mode |-> [clip |-> TRUE, double |-> FALSE], cur |-> 0,
                     lastwrite |-> 0, pos |-> 0, lastop |-> "read", rescale |-> rescale,
                     nFrames |-> DataFrames(disk), fac |-> RescaleFactor(disk), peaks |-> disk.peaks]
    OBVIOUS
  <1>3. /\ disk.shape \in Shapes /\ disk \in Disks(disk.shape) /\ sound \in Seq(Frame(disk.shape))
        /\ Len(disk.data) = Len(sound) /\ Covered(disk.peaks)
        /\ DataFrames(disk) \in Nat
        /\ Careful => DataFrames(disk) = Len(disk.data)
    BY <1>1 DEF SoundFileInv, SoundFileTypeOK, Counted, Loud
  <1>4. disk.peaks \in PeaksOf(disk.shape) /\ Len(disk.data) \in Nat
    BY <1>3, LenProperties DEF Disks
  <1>5. RescaleFactor(disk) \in Nat
    BY <1>3, <1>4, RescaleFactorIs
  <1>6. g \in Handles(disk.shape)
    BY <1>0, <1>3, <1>4, <1>5 DEF Handles
  <1>7. /\ g.isRead /\ g.nFrames = DataFrames(disk) /\ g.pos = 0 /\ g.peaks = disk.peaks
        /\ g.fac = RescaleFactor(disk)
    BY <1>0
  <1>8. handle' = {g}
    BY <1>0, <1>2
  <1>9. IsAt(g)
    BY <1>3, <1>4, <1>7 DEF IsAt
  <1>10. SoundFileTypeOK'
    BY <1>1, <1>3, <1>6, <1>8 DEF SoundFileTypeOK
  <1>11. Counted'
    BY <1>1, <1>3, <1>8, <1>9 DEF Counted, IsAt
  <1>12. Contents'
    BY <1>1 DEF SoundFileInv, Contents
  <1>13. Loud'
    <2>1. Covered(g.peaks)'
      BY <1>1, <1>3, <1>7 DEF Covered
    <2> QED BY <1>1, <1>7, <1>8, <2>1 DEF Loud, RescaleFactor, DataFrames
  <1> QED BY <1>10, <1>11, <1>12, <1>13 DEF SoundFileInv


\* The header that is completed counts as many frames as the descriptor did.
LEMMA CloseKeepsFile == ASSUME SoundFileInv, psf_sndClose PROVE SoundFileInv'
  <1>1. handle # {} /\ handle' = {} /\ UNCHANGED sound
    BY DEF psf_sndClose
  <1>2. PICK h : OpenAt(h)
    BY <1>1, OpenIs
  <1>3. /\ h \in Handles(disk.shape) /\ IsAt(h) /\ disk.shape \in Shapes /\ disk \in Disks(disk.shape)
        /\ sound \in Seq(Frame(disk.shape)) /\ Len(disk.data) = Len(sound) /\ Covered(h.peaks)
        /\ h.isRead => h.peaks = disk.peaks
    BY <1>2 DEF OpenAt
  <1>4. h.nFrames \in Nat /\ h.peaks \in PeaksOf(disk.shape) /\ h.isRead \in BOOLEAN
    BY <1>3 DEF Handles
  <1>5. PICK b \in Nat \ {0}, off \in Nat : b = BlockAlign(disk.shape) /\ off = DataOffset(disk.shape, h.peaks)
    BY <1>3, SizesAre
  <1>6. CASE h.isRead
    <2>1. disk' = disk
      BY <1>2, <1>6 DEF psf_sndClose, OpenAt
    <2>2. SoundFileTypeOK'
      BY <1>1, <1>3, <2>1 DEF SoundFileTypeOK
    <2>3. Counted'
      <3>1. DataFrames(disk) = h.nFrames
        BY <1>2, <1>6 DEF OpenAt
      <3> QED BY <1>1, <1>3, <1>4, <2>1, <3>1 DEF Counted, IsAt
    <2>4. Contents' /\ Loud'
      BY <1>1, <1>3, <1>6, <2>1 DEF SoundFileInv, Contents, Loud, Covered
    <2> QED BY <2>2, <2>3, <2>4 DEF SoundFileInv
  <1>7. CASE ~h.isRead
    <2>1. PICK bytes \in Nat : bytes = h.nFrames * b
      BY <1>4, <1>5
    <2>2. PICK form \in Int, size \in Int, t \in Nat :
            /\ disk' = [disk EXCEPT !.formSize = form, !.dataSize = size, !.peaks = h.peaks, !.tail = t]
            /\ size = IF IsAiff(disk.shape) THEN bytes + 8 ELSE bytes
      <3>1. CASE IsAiff(disk.shape)
        <4>1. disk' = aiffUpdate(h)
          BY <1>2, <1>7, <3>1 DEF psf_sndClose, OpenAt
        <4>2. PICK size \in Nat : size = h.nFrames * BlockAlign(disk.shape) + 8
          BY <1>5, <2>1
        <4>3. PICK form \in Int, t \in Nat :
                 disk' = [disk EXCEPT !.formSize = form, !.dataSize = size, !.peaks = h.peaks, !.tail = t]
          <5>1. disk' = [disk EXCEPT !.formSize = size - 8 + off - 8, !.dataSize = size,
                                     !.peaks = h.peaks,
                                     !.tail = IF (off + size) % 2 = 1 THEN 9 ELSE 0]
            BY <1>5, <4>1, <4>2 DEF aiffUpdate
          <5>2. size - 8 + off - 8 \in Int /\ (IF (off + size) % 2 = 1 THEN 9 ELSE 0) \in Nat
            BY <4>2
          <5> QED BY <5>1, <5>2
        <4>4. size = IF IsAiff(disk.shape) THEN bytes + 8 ELSE bytes
          BY <1>5, <2>1, <3>1, <4>2
        <4>5. form \in Int /\ size \in Int /\ t \in Nat
          OBVIOUS
        <4> QED BY <4>3, <4>4, <4>5
      <3>2. CASE ~IsAiff(disk.shape)
        <4>1. disk' = wavUpdate(h)
          BY <1>2, <1>7, <3>2 DEF psf_sndClose, OpenAt
        <4>2. PICK form \in Int : form = bytes + off - 8
          BY <1>5, <2>1
        <4>3. disk' = [disk EXCEPT !.formSize = form, !.dataSize = bytes, !.peaks = h.peaks]
          BY <1>5, <2>1, <4>1, <4>2 DEF wavUpdate
        <4>4. disk.tail \in Nat
          BY <1>3 DEF Disks
        <4>5. disk' = [disk EXCEPT !.formSize = form, !.dataSize = bytes, !.peaks = h.peaks, !.tail = disk.tail]
          BY <1>3, <4>3 DEF Disks
        <4>6. PICK size \in Int, t \in Nat : size = bytes /\ t = disk.tail
          BY <2>1, <4>4
        <4>7. disk' = [disk EXCEPT !.formSize = form, !.dataSize = size, !.peaks = h.peaks, !.tail = t]
          BY <4>5, <4>6
        <4>8. size = IF IsAiff(disk.shape) THEN bytes + 8 ELSE bytes
          BY <3>2, <4>6
        <4> QED BY <4>7, <4>8
      <3> QED BY <3>1, <3>2
    <2>3. /\ disk'.shape = disk.shape /\ disk'.data = disk.data /\ disk'.peaks = h.peaks
          /\ disk'.dataSize = size
      BY <1>3, <2>2 DEF Disks
    <2>4. disk' \in Disks(disk.shape)
      <3>1. PICK e : e = [disk EXCEPT !.formSize = form, !.dataSize = size]
        OBVIOUS
      <3>2. e \in Disks(disk.shape)
        BY <1>3, <2>2, <3>1 DEF Disks
      <3>3. disk' = [e EXCEPT !.peaks = h.peaks, !.tail = t]
        BY <2>2, <3>1
      <3> QED BY <1>4, <3>2, <3>3 DEF Disks
    <2>5. DataFrames(disk') = h.nFrames
      <3>1. (IF IsAiff(disk.shape) THEN size - 8 ELSE size) = h.nFrames * b
        BY <2>1, <2>2
      <3>2. DataFrames(disk') = (h.nFrames * b) \div b
        BY <1>5, <2>3, <3>1 DEF DataFrames
      <3> QED BY <1>4, <3>2, FramesOfBytes
    <2>6. SoundFileTypeOK'
      BY <1>1, <1>3, <2>3, <2>4 DEF SoundFileTypeOK
    <2>7. Counted'
      BY <1>1, <1>3, <1>4, <2>3, <2>5 DEF Counted, IsAt
    <2>8. Contents' /\ Loud'
      BY <1>1, <1>3, <2>3 DEF SoundFileInv, Contents, Loud, Covered
    <2> QED BY <2>6, <2>7, <2>8 DEF SoundFileInv
  <1> QED BY <1>4, <1>6, <1>7


\* A word that is written keeps what was asked for, and is covered by the sample's peak where
\* the writer takes the peak from what it stores.
LEMMA StoredIs ==
    ASSUME NEW h, h.mode \in WriteModes, NEW f \in Amplitudes
    PROVE  /\ Stored(h, f) \in Int /\ Asked(h, f) \in Int
           /\ IsKept(disk.shape, Stored(h, f), Asked(h, f))
           /\ IsFloat(disk.shape) /\ (h.mode.clip => h.mode.double) => Stored(h, f) = Sampled(h, f)
  <1>0. f \in Int /\ FULL \in Nat \ {0} /\ h.mode \in [clip : BOOLEAN, double : BOOLEAN]
    BY SoundFileAssumption
  <1>1. /\ Sampled(h, f) \in Int /\ (Sampled(h, f) = f \/ Sampled(h, f) = Clipped(f))
        /\ Asked(h, f) = Sampled(h, f)
    BY <1>0, SampledIs DEF Sampled, Asked, Clips
  <1>2. CASE IsFloat(disk.shape)
    <2>1. Stored(h, f) = f \/ Stored(h, f) = Sampled(h, f)
      BY <1>2 DEF Stored, StoredFloat, StoredDouble
    <2>2. h.mode.double => Stored(h, f) = Sampled(h, f)
      BY <1>2 DEF Stored, StoredDouble
    <2>3. ~h.mode.double => Stored(h, f) = f
      BY <1>2 DEF Stored, StoredFloat
    <2>4. ~h.mode.clip => Sampled(h, f) = f
      BY <1>2 DEF Sampled, Clips
    <2> QED BY <1>0, <1>1, <1>2, <2>1, <2>2, <2>3, <2>4 DEF IsKept
  <1>3. CASE ~IsFloat(disk.shape)
    <2>1. Sampled(h, f) = Clipped(f)
      BY <1>3 DEF Sampled, Clips
    <2>2. Stored(h, f) = AsWord(Clipped(f))
      BY <1>3, <2>1 DEF Stored, StoredFloat, StoredDouble
    <2>3. PICK g \in Int : g = Clipped(f)
      BY <1>1, <2>1
    <2>4. AsWord(g) \in Int /\ Magnitude(AsWord(g)) <= FULL /\ (g >= -FULL /\ g < FULL => AsWord(g) = g)
      BY WordIs
    <2>5. g >= -FULL
      BY <1>0, <2>3, ClippedIs
    <2> QED BY <1>1, <1>3, <2>1, <2>2, <2>3, <2>4, <2>5 DEF IsKept
  <1> QED BY <1>2, <1>3

\* What a call writes at the descriptor's position.
WritesAt(h, n, frames) ==
    /\ disk' = [disk EXCEPT !.data = Over(disk.data, h.pos,
                  [i \in 1 .. n |-> [c \in 1 .. disk.shape.chans |-> Stored(h, frames[i][c])]]),
                             !.spoilt = disk.spoilt \/ h.pos < 0]
    /\ sound' = Over(sound, h.pos,
                  [i \in 1 .. n |-> [c \in 1 .. disk.shape.chans |-> Asked(h, frames[i][c])]])
    /\ handle' = {[h EXCEPT !.peaks = NewPeaks(h, frames), !.lastop = "write",
                            !.pos = h.pos + n, !.lastwrite = h.lastwrite + n,
                            !.cur = h.lastwrite + n,
                            !.nFrames = Max({h.nFrames, h.lastwrite + n})]}

LEMMA WriteKeepsFile == ASSUME SoundFileInv, WriteFrames PROVE SoundFileInv'
  <1>1. handle # {}
    BY DEF WriteFrames
  <1>2. PICK h : OpenAt(h)
    BY <1>1, OpenIs
  <1>3. ~h.isRead /\ (Careful => h.lastop \notin {"read", "failed"})
    BY <1>2 DEF WriteFrames, OpenAt, Reading, The
  <1>4. PICK n \in 1 .. 2 : \E frames \in [1 .. n -> [1 .. disk.shape.chans -> Amplitudes]] :
          WritesAt(h, n, frames)
    <2>1. \E n \in 1 .. 2 : \E frames \in [1 .. n -> [1 .. disk.shape.chans -> Amplitudes]] :
              WritesAt(The, n, frames)
      BY Zenon DEF WriteFrames, WritesAt
    <2>2. The = h
      BY <1>2 DEF OpenAt
    <2> QED BY <2>1, <2>2
  <1>4a. PICK frames \in [1 .. n -> [1 .. disk.shape.chans -> Amplitudes]] : WritesAt(h, n, frames)
    BY <1>4
  <1>5. PICK shape \in Shapes : shape = disk.shape
    BY <1>2 DEF OpenAt
  <1>6. PICK words, asked :
            /\ words = [i \in 1 .. n |-> [c \in 1 .. shape.chans |-> Stored(h, frames[i][c])]]
            /\ asked = [i \in 1 .. n |-> [c \in 1 .. shape.chans |-> Asked(h, frames[i][c])]]
    OBVIOUS
  <1>7. /\ h \in Handles(shape) /\ IsAt(h) /\ disk \in Disks(shape) /\ sound \in Seq(Frame(shape))
        /\ Len(disk.data) = Len(sound) /\ Covered(h.peaks) /\ h.mode \in WriteModes
    BY <1>2, <1>3, <1>5 DEF OpenAt
  <1>8. /\ disk.data \in Seq(Frame(shape)) /\ Len(disk.data) \in Nat /\ h.pos \in Int /\ h.nFrames \in Nat
        /\ h.lastwrite \in Nat /\ h.peaks \in PeaksOf(shape)
    BY <1>7, LenProperties DEF Disks, Handles
  <1>9. /\ frames \in [1 .. n -> [1 .. shape.chans -> Int]] /\ n \in Nat
        /\ \A i \in 1 .. n, c \in 1 .. shape.chans : frames[i][c] \in Amplitudes
    <2>1. Amplitudes \subseteq Int
      BY SoundFileAssumption
    <2>2. \A i \in 1 .. n : frames[i] \in [1 .. shape.chans -> Amplitudes]
      BY <1>4a, <1>5
    <2>3. \A i \in 1 .. n : frames[i] \in [1 .. shape.chans -> Int]
      BY <2>1, <2>2
    <2>4. DOMAIN frames = 1 .. n /\ frames = [i \in 1 .. n |-> frames[i]]
      BY <1>4a
    <2>5. frames \in [1 .. n -> [1 .. shape.chans -> Int]]
      BY <2>3, <2>4, Zenon
    <2>6. \A i \in 1 .. n, c \in 1 .. shape.chans : frames[i][c] \in Amplitudes
      BY <2>2
    <2> QED BY <2>5, <2>6
  <1>10. words \in Seq(Frame(shape)) /\ Len(words) = n
    <2>1. \A i \in 1 .. n, c \in 1 .. shape.chans : Stored(h, frames[i][c]) \in Int
      BY <1>7, <1>9, StoredIs
    <2>2. words \in [1 .. n -> Frame(shape)]
      BY <1>6, <2>1 DEF Frame
    <2> QED BY <1>9, <2>2, SeqDef
  <1>11. asked \in Seq(Frame(shape)) /\ Len(asked) = n
    <2>1. \A i \in 1 .. n, c \in 1 .. shape.chans : Asked(h, frames[i][c]) \in Int
      BY <1>7, <1>9, StoredIs
    <2>2. asked \in [1 .. n -> Frame(shape)]
      BY <1>6, <2>1 DEF Frame
    <2> QED BY <1>9, <2>2, SeqDef
  <1>12. PICK data, heard : data = Over(disk.data, h.pos, words) /\ heard = Over(sound, h.pos, asked)
    OBVIOUS
  <1>13. PICK m \in Nat : m = IF Len(disk.data) >= h.pos + n THEN Len(disk.data) ELSE h.pos + n
    BY <1>8, <1>9
  <1>14. Silent \in Frame(shape) /\ \A c \in 1 .. shape.chans : Silent[c] = 0
    BY <1>5 DEF Silent, Frame
  <1>15. /\ data \in Seq(Frame(shape)) /\ Len(data) = m
         /\ \A i \in 1 .. m : data[i] = IF i \in h.pos + 1 .. h.pos + n THEN words[i - h.pos]
                                        ELSE IF i \in 1 .. Len(disk.data) THEN disk.data[i] ELSE Silent
    <2>0. PICK old \in Seq(Frame(shape)), new \in Seq(Frame(shape)), at \in Int :
            old = disk.data /\ new = words /\ at = h.pos
      BY <1>8, <1>10
    <2>0a. /\ Over(old, at, new) \in Seq(Frame(shape))
           /\ Len(Over(old, at, new)) =
                IF Len(old) >= at + Len(new) THEN Len(old) ELSE at + Len(new)
           /\ \A i \in 1 .. Len(Over(old, at, new)) :
                Over(old, at, new)[i] =
                    IF i \in at + 1 .. at + Len(new) THEN new[i - at]
                    ELSE IF i \in 1 .. Len(old) THEN old[i] ELSE Silent
      BY <1>14, OverIs, Zenon
    <2>1. /\ data \in Seq(Frame(shape))
          /\ Len(data) = IF Len(disk.data) >= h.pos + Len(words) THEN Len(disk.data) ELSE h.pos + Len(words)
          /\ \A i \in 1 .. Len(data) :
                data[i] = IF i \in h.pos + 1 .. h.pos + Len(words) THEN words[i - h.pos]
                          ELSE IF i \in 1 .. Len(disk.data) THEN disk.data[i] ELSE Silent
      BY <1>12, <2>0, <2>0a
    <2> QED BY <1>8, <1>10, <1>13, <2>1
  <1>16. /\ heard \in Seq(Frame(shape)) /\ Len(heard) = m
         /\ \A i \in 1 .. m : heard[i] = IF i \in h.pos + 1 .. h.pos + n THEN asked[i - h.pos]
                                         ELSE IF i \in 1 .. Len(disk.data) THEN sound[i] ELSE Silent
    <2>0. PICK old \in Seq(Frame(shape)), new \in Seq(Frame(shape)), at \in Int :
            old = sound /\ new = asked /\ at = h.pos
      BY <1>7, <1>8, <1>11
    <2>0a. /\ Over(old, at, new) \in Seq(Frame(shape))
           /\ Len(Over(old, at, new)) =
                IF Len(old) >= at + Len(new) THEN Len(old) ELSE at + Len(new)
           /\ \A i \in 1 .. Len(Over(old, at, new)) :
                Over(old, at, new)[i] =
                    IF i \in at + 1 .. at + Len(new) THEN new[i - at]
                    ELSE IF i \in 1 .. Len(old) THEN old[i] ELSE Silent
      BY <1>14, OverIs, Zenon
    <2>1. /\ heard \in Seq(Frame(shape))
          /\ Len(heard) = IF Len(sound) >= h.pos + Len(asked) THEN Len(sound) ELSE h.pos + Len(asked)
          /\ \A i \in 1 .. Len(heard) :
                heard[i] = IF i \in h.pos + 1 .. h.pos + Len(asked) THEN asked[i - h.pos]
                           ELSE IF i \in 1 .. Len(sound) THEN sound[i] ELSE Silent
      BY <1>12, <2>0, <2>0a
    <2> QED BY <1>7, <1>8, <1>11, <1>13, <2>1
  <1>17. \A i \in h.pos + 1 .. h.pos + n : i - h.pos \in 1 .. n
    BY <1>8, <1>9
  <1>18. /\ disk'.shape = shape /\ disk'.data = data /\ disk' \in Disks(shape) /\ sound' = heard
    <2>1. PICK t \in BOOLEAN : t = (disk.spoilt \/ h.pos < 0)
      OBVIOUS
    <2>2. disk' = [disk EXCEPT !.data = data, !.spoilt = t] /\ sound' = heard
      BY <1>4a, <1>5, <1>6, <1>12, <2>1 DEF WritesAt
    <2> QED BY <1>7, <1>15, <2>2 DEF Disks
  <1>19. PICK peaks : peaks = NewPeaks(h, frames)
    OBVIOUS
  <1>20. /\ peaks \in PeaksOf(shape) /\ (peaks # <<>> => h.peaks # <<>>)
         /\ peaks # <<>> => \A c \in 1 .. shape.chans :
                /\ h.peaks[c].val \in Nat /\ peaks[c].val \in Nat
                /\ h.peaks[c].val <= peaks[c].val
                /\ \A i \in 1 .. n : Magnitude(Sampled(h, frames[i][c])) <= peaks[c].val
    BY <1>8, <1>9, <1>19, NewPeaksAre, NoPeaks DEF PeaksOf
  <1>21. PICK last \in Nat : last = h.lastwrite + n
    BY <1>8, <1>9
  <1>22. PICK top \in Nat : top = IF h.nFrames >= last THEN h.nFrames ELSE last
    BY <1>8
  <1>23. PICK g : handle' = {g} /\ g = [h EXCEPT !.peaks = peaks, !.lastop = "write",
                       !.pos = h.pos + n, !.lastwrite = last, !.cur = last, !.nFrames = top]
    <2>1. Max({h.nFrames, last}) = top
      BY <1>8, <1>22, MaxOfTwo
    <2> QED BY <1>4a, <1>19, <1>21, <2>1 DEF WritesAt
  <1>24. g \in Handles(shape)
    <2>1. PICK p : p = [h EXCEPT !.peaks = peaks, !.lastop = "write"]
      OBVIOUS
    <2>2. p \in Handles(shape)
      BY <1>7, <1>20, <2>1 DEF Handles
    <2>3. PICK q : q = [p EXCEPT !.pos = h.pos + n, !.lastwrite = last]
      OBVIOUS
    <2>4. h.pos + n \in Int
      BY <1>7, <1>8, <1>9 DEF Handles
    <2>5. q \in Handles(shape)
      BY <2>2, <2>3, <2>4 DEF Handles
    <2>6. g = [q EXCEPT !.cur = last, !.nFrames = top]
      BY <1>23, <2>1, <2>3
    <2>7. last \in Int
      OBVIOUS
    <2> QED BY <2>5, <2>6, <2>7 DEF Handles
  <1>25. /\ g.peaks = peaks /\ g.lastop = "write" /\ g.pos = h.pos + n /\ g.lastwrite = last
         /\ g.nFrames = top /\ g.isRead = h.isRead /\ g.mode = h.mode
    BY <1>7, <1>23 DEF Handles
  <1>26. SoundFileTypeOK'
    BY <1>16, <1>18, <1>23, <1>24 DEF SoundFileTypeOK
  <1>27. Counted'
    <2>1. IsAt(g)'
      <3>1. Careful => h.nFrames = Len(disk.data) /\ h.lastwrite = h.pos
        BY <1>3, <1>7 DEF IsAt
      <3>2. Careful => top = m /\ last = h.pos + n
        BY <1>8, <1>9, <1>13, <1>21, <1>22, <3>1
      <3> QED BY <1>15, <1>18, <1>25, <3>2 DEF IsAt
    <2> QED BY <1>15, <1>16, <1>18, <1>23, <2>1 DEF Counted
  <1>28. Contents'
    <2> SUFFICES ASSUME NEW i \in 1 .. m, NEW c \in 1 .. shape.chans
                 PROVE  IsKept(shape, data[i][c], heard[i][c])
      <3>1. /\ (Len(disk.data) = m)' /\ (disk.shape = shape)' /\ (disk.data = data)' /\ (sound = heard)'
        BY <1>15, <1>18
      <3> QED BY <3>1 DEF Contents, IsKept
    <2>1. CASE i \in h.pos + 1 .. h.pos + n
      <3>1. PICK k \in 1 .. n : k = i - h.pos
        BY <1>17, <2>1
      <3>2. data[i] = words[k] /\ heard[i] = asked[k]
        BY <1>15, <1>16, <2>1, <3>1
      <3>3. words[k][c] = Stored(h, frames[k][c]) /\ asked[k][c] = Asked(h, frames[k][c])
        BY <1>6
      <3> QED BY <1>5, <1>7, <1>9, <3>2, <3>3, StoredIs
    <2>2. CASE i \notin h.pos + 1 .. h.pos + n /\ i \in 1 .. Len(disk.data)
      BY <1>5, <1>15, <1>16, <2>2 DEF SoundFileInv, Contents
    <2>3. CASE i \notin h.pos + 1 .. h.pos + n /\ i \notin 1 .. Len(disk.data)
      <3>1. data[i][c] = 0 /\ heard[i][c] = 0
        BY <1>14, <1>15, <1>16, <2>3
      <3>2. Magnitude(0) = 0 /\ FULL >= 0
        BY SoundFileAssumption DEF Magnitude
      <3> QED BY <3>1, <3>2 DEF IsKept
    <2> QED BY <2>1, <2>2, <2>3
  <1>29. Covered(peaks)'
    <2> SUFFICES ASSUME IsFloat(shape), peaks # <<>>, \A mode \in WriteModes : mode.clip => mode.double,
                        NEW i \in 1 .. m, NEW c \in 1 .. shape.chans
                 PROVE  Magnitude(data[i][c]) <= peaks[c].val
      BY <1>15, <1>18 DEF Covered
    <2>1. CASE i \in h.pos + 1 .. h.pos + n
      <3>1. i - h.pos \in 1 .. n
        BY <1>17, <2>1
      <3>2. data[i][c] = Stored(h, frames[i - h.pos][c])
        <4>1. PICK k \in 1 .. n : k = i - h.pos
          BY <3>1
        <4>2. words[k][c] = Stored(h, frames[k][c])
          BY <1>6
        <4> QED BY <1>15, <2>1, <4>1, <4>2
      <3>3. Stored(h, frames[i - h.pos][c]) = Sampled(h, frames[i - h.pos][c])
        BY <1>5, <1>7, <1>9, <3>1, StoredIs
      <3> QED BY <1>20, <3>1, <3>2, <3>3
    <2>2. CASE i \notin h.pos + 1 .. h.pos + n /\ i \notin 1 .. Len(disk.data)
      <3>1. data[i][c] = 0
        BY <1>14, <1>15, <2>2
      <3>2. Magnitude(0) = 0 /\ peaks[c].val \in Nat
        BY <1>20 DEF Magnitude
      <3> QED BY <3>1, <3>2
    <2>3. CASE i \notin h.pos + 1 .. h.pos + n /\ i \in 1 .. Len(disk.data)
      <3>1. i \in 1 .. Len(disk.data) /\ data[i] = disk.data[i] /\ h.peaks # <<>>
        BY <1>15, <1>20, <2>3
      <3>2. Magnitude(disk.data[i][c]) <= h.peaks[c].val
        BY <1>5, <1>7, <3>1 DEF Covered
      <3>3. disk.data[i] \in Frame(shape)
        BY <1>8, <3>1, ElementOfSeq
      <3>4. disk.data[i][c] \in Int
        BY <3>3 DEF Frame
      <3>5. Magnitude(disk.data[i][c]) \in Nat
        BY <3>4 DEF Magnitude
      <3>6. h.peaks[c].val \in Nat /\ peaks[c].val \in Nat /\ h.peaks[c].val <= peaks[c].val
        BY <1>20
      <3> QED BY <3>1, <3>2, <3>5, <3>6
    <2> QED BY <2>1, <2>2, <2>3
  <1>30. Loud'
    BY <1>3, <1>7, <1>23, <1>25, <1>29 DEF Loud
  <1> QED BY <1>26, <1>27, <1>28, <1>30 DEF SoundFileInv


LEMMA FileKeeps == SoundFileInv /\ [SoundFileNext]_soundFileVars => SoundFileInv'
  <1> SUFFICES ASSUME SoundFileInv, [SoundFileNext]_soundFileVars PROVE SoundFileInv'
    OBVIOUS
  <1>1. CASE psf_sndCreate
    BY <1>1, CreateKeepsFile
  <1>2. CASE WriteFrames
    BY <1>2, WriteKeepsFile
  <1>3. CASE psf_sndSeek
    BY <1>3, SeekKeepsFile
  <1>4. CASE ReadFrames
    BY <1>4, ReadKeepsFile
  <1>5. CASE psf_sndClose
    BY <1>5, CloseKeepsFile
  <1>6. CASE psf_sndOpen
    BY <1>6, OpenKeepsFile
  <1>7. CASE UNCHANGED soundFileVars
    <2>1. handle' = handle /\ disk' = disk /\ sound' = sound
      BY <1>7 DEF soundFileVars
    <2>2. SoundFileTypeOK'
      BY <2>1 DEF SoundFileInv, SoundFileTypeOK
    <2>3. Counted'
      BY <2>1 DEF SoundFileInv, Counted, IsAt, DataFrames
    <2>4. Contents'
      BY <2>1 DEF SoundFileInv, Contents
    <2>5. Loud'
      BY <2>1 DEF SoundFileInv, Loud, Covered, DataFrames, RescaleFactor
    <2> QED BY <2>2, <2>3, <2>4, <2>5 DEF SoundFileInv
  <1> QED BY <1>1, <1>2, <1>3, <1>4, <1>5, <1>6, <1>7 DEF SoundFileNext

\* Between a read and a write, and after an error, a program seeks, and none clips floats with
\* the writer that stores them as they came: then a reader finds what was asked for, frame by
\* frame, but for samples of 1.0 in a file of integers.
THEOREM SoundsAreKept ==
    ASSUME Careful, \A mode \in WriteModes : mode.clip => mode.double
    PROVE  SoundFileSpec => []SoundsComeBack
  <1>1. SoundFileInv => SoundsComeBack
    <2> SUFFICES ASSUME SoundFileInv, Reading PROVE SoundsComeBack
      BY DEF SoundsComeBack
    <2>1. handle # {}
      BY DEF Reading
    <2>2. PICK h : OpenAt(h)
      BY <2>1, OpenIs
    <2>3. The = h /\ h.nFrames = Len(sound) /\ Len(disk.data) = Len(sound) /\ disk.shape \in Shapes
          /\ DOMAIN sound = 1 .. Len(disk.data)
      BY <2>2, LenProperties DEF OpenAt, IsAt
    <2>4. \A i \in 1 .. Len(disk.data), c \in 1 .. disk.shape.chans :
             IsKept(disk.shape, disk.data[i][c], sound[i][c])
      BY DEF SoundFileInv, Contents
    <2> QED BY <2>3, <2>4 DEF SoundsComeBack, IsKept
  <1> QED BY <1>1, FileBegins, FileKeeps, PTL DEF SoundFileSpec

\* Where a writer takes a peak from what it stores (the one of floats with clipping stores what
\* it did not clip), floats read with rescaling come out within 1.0, of any file, of any calls.
THEOREM RescaledStays ==
    ASSUME \A mode \in WriteModes : mode.clip => mode.double
    PROVE  SoundFileSpec => []RescaledIsInRange
  <1>1. SoundFileInv => RescaledIsInRange
    <2> SUFFICES ASSUME SoundFileInv, Reading, The.rescale, disk.peaks # <<>>,
                        NEW i \in DOMAIN disk.data, NEW c \in 1 .. disk.shape.chans
                 PROVE  Magnitude(Returned(The, disk.data[i][c])) <= FULL
      BY DEF RescaledIsInRange
    <2>1. handle # {}
      BY DEF Reading
    <2>2. PICK h : OpenAt(h)
      BY <2>1, OpenIs
    <2>3. The = h /\ h.isRead /\ disk.shape \in Shapes /\ disk \in Disks(disk.shape)
      BY <2>2 DEF OpenAt, Reading, The
    <2>4. disk.data \in Seq(Frame(disk.shape)) /\ disk.peaks \in PeaksOf(disk.shape)
      BY <2>3 DEF Disks
    <2>5. i \in 1 .. Len(disk.data)
      BY <2>4, LenProperties
    <2>6. disk.data[i][c] \in Int
      <3>1. disk.data[i] \in Frame(disk.shape)
        BY <2>4, <2>5, ElementOfSeq
      <3> QED BY <3>1 DEF Frame
    <2>7. CASE IsFloat(disk.shape)
      <3>1. h.fac = RescaleFactor(disk) /\ h.peaks = disk.peaks /\ Covered(h.peaks)
        BY <2>2, <2>3 DEF OpenAt
      <3>2. /\ RescaleFactor(disk) \in Nat /\ RescaleFactor(disk) >= FULL
            /\ disk.peaks[c].val <= RescaleFactor(disk)
        BY <2>3, <2>4, RescaleFactorIs
      <3>3. disk.peaks[c].val \in Nat
        BY <2>4 DEF PeaksOf
      <3>4. Magnitude(disk.data[i][c]) <= disk.peaks[c].val
        BY <2>5, <2>7, <3>1 DEF Covered
      <3>5. PICK w \in Int, fac \in Nat : w = disk.data[i][c] /\ fac = h.fac
        BY <2>6, <3>1, <3>2
      <3>6. Magnitude(w) \in Nat
        BY DEF Magnitude
      <3>7. Magnitude(w) <= fac /\ FULL <= fac
        BY <3>1, <3>2, <3>3, <3>4, <3>5, <3>6, SoundFileAssumption
      <3>8. Magnitude((w * FULL) \div fac) <= FULL
        BY <3>7, ScaledIs
      <3> QED BY <2>3, <2>7, <3>5, <3>8 DEF Returned
    <2>8. CASE ~IsFloat(disk.shape)
      <3>1. IsKept(disk.shape, disk.data[i][c], sound[i][c])
        BY <2>5 DEF SoundFileInv, Contents
      <3> QED BY <2>3, <2>8, <3>1 DEF IsKept, Returned
    <2> QED BY <2>7, <2>8
  <1> QED BY <1>1, FileBegins, FileKeeps, PTL DEF SoundFileSpec

=============================================================================
