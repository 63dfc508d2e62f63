----------------------------- MODULE OscSockets -----------------------------
(***************************************************************************)
(* liblo's sockets over UDP: servers that bind a port, addresses that open *)
(* a socket of their own only when no server has one to send from, and the *)
(* system's descriptors, which are given out again after a close.          *)
(***************************************************************************)
EXTENDS Integers, FiniteSets

CONSTANTS Descriptors,  \* the descriptors a process can have: 0 .. n
          Ports,        \* UDP ports
          Servers, Addresses,
          MAX_TRIES     \* binds that lo_server_new tries, 17

ASSUME SocketsAssumption ==
    /\ Descriptors \subseteq Nat /\ MAX_TRIES \in Nat \ {0}
    /\ Servers \cap Addresses = {}

VARIABLES
    open,       \* the owner of each open descriptor: a server, an address, or "nobody"
    bound,      \* the port each descriptor is bound to
    portsTaken, \* ports that other programs have
    server,     \* the descriptor of each server, or -1 for a server there is not
    clientUdp,  \* lo_client_sockets.udp
    address,    \* the socket of each address, -1 if it has none, -2 if there is no address
    sent        \* the last datagram: who sent it, and who had the descriptor it went out on

socketVars == <<open, bound, portsTaken, server, clientUdp, address, sent>>

NoSocket == -1

NoAddress == -2

SocketsInit ==
    /\ open = <<>> /\ bound = <<>>
    /\ portsTaken \in SUBSET Ports
    /\ server = [s \in Servers |-> NoSocket]
    /\ clientUdp = NoSocket
    /\ address = [a \in Addresses |-> NoAddress]
    /\ sent = {}

Without(f, S) == [x \in DOMAIN f \ S |-> f[x]]

With(f, x, v) == [y \in DOMAIN f \cup {x} |-> IF y = x THEN v ELSE f[y]]

\* The descriptors fds opened, and nobody's yet.
Opened(fds) == [d \in DOMAIN open \cup fds |-> IF d \in DOMAIN open THEN open[d] ELSE "nobody"]

FreeDescriptors == Descriptors \ DOMAIN open

\* socket() gives the lowest free descriptors, one after another.
Lowest(n) == {d \in FreeDescriptors : Cardinality({e \in FreeDescriptors : e < d}) < n}

Busy(p) == p \in portsTaken \/ \E d \in DOMAIN bound : bound[d] = p

\* lo_server_new_with_proto on a port of its own choice or a given one, with `tries` binds of
\* which the last may have worked.  Each try opens a socket, and only the last is remembered.
ServerNew(s) ==
    /\ server[s] = NoSocket
    /\ \E p \in Ports, tries \in 1..MAX_TRIES :
         /\ tries <= Cardinality(FreeDescriptors)
         /\ LET fds == Lowest(tries)
            IN  \E last \in fds :
                /\ \A d \in fds : d <= last
                /\ \/ /\ ~Busy(p)                      \* the last bind worked
                      /\ tries > 1 => \E q \in Ports : Busy(q)
                      /\ open' = With(Opened(fds), last, s)
                      /\ bound' = With(bound, last, p)
                      /\ server' = [server EXCEPT ![s] = last]
                      /\ clientUdp' = last
                   \/ /\ Busy(p) /\ tries = MAX_TRIES  \* none did: the last socket is closed
                      /\ open' = Without(Opened(fds), {last})
                      /\ UNCHANGED <<bound, server, clientUdp>>
    /\ UNCHANGED <<portsTaken, address, sent>>

\* A slip to be caught: what the clients send from is left alone.
ForgottenKeeping(d) == clientUdp

Forgotten(d) == IF d = clientUdp THEN NoSocket ELSE clientUdp

ServerFree(s) ==
    /\ server[s] # NoSocket
    /\ clientUdp' = Forgotten(server[s])
    /\ open' = Without(open, {server[s]}) /\ bound' = Without(bound, {server[s]})
    /\ server' = [server EXCEPT ![s] = NoSocket]
    /\ UNCHANGED <<portsTaken, address, sent>>

AddressNew(a) ==
    /\ address[a] = NoAddress
    /\ address' = [address EXCEPT ![a] = NoSocket]
    /\ UNCHANGED <<open, bound, portsTaken, server, clientUdp, sent>>

AddressFree(a) ==
    /\ address[a] # NoAddress
    /\ open' = Without(open, {address[a]})
    /\ address' = [address EXCEPT ![a] = NoAddress]
    /\ UNCHANGED <<bound, portsTaken, server, clientUdp, sent>>

Sends(a, d) ==
    sent' = {[by |-> a, owner |-> IF d \in DOMAIN open' THEN open'[d] ELSE "nobody"]}

\* send_data: from a server's socket if there is one, else from the address's own, which
\* create_socket makes the first time.
SendData(a) ==
    /\ address[a] # NoAddress
    /\ \/ /\ clientUdp # NoSocket
          /\ UNCHANGED <<open, address>>
          /\ Sends(a, clientUdp)
       \/ /\ clientUdp = NoSocket /\ address[a] # NoSocket
          /\ UNCHANGED <<open, address>>
          /\ Sends(a, address[a])
       \/ /\ clientUdp = NoSocket /\ address[a] = NoSocket
          /\ \E d \in Lowest(1) :
               /\ open' = With(open, d, a)
               /\ address' = [address EXCEPT ![a] = d]
               /\ Sends(a, d)
    /\ UNCHANGED <<bound, portsTaken, server, clientUdp>>

SocketsNext ==
    \/ \E s \in Servers : ServerNew(s) \/ ServerFree(s)
    \/ \E a \in Addresses : AddressNew(a) \/ AddressFree(a) \/ SendData(a)

SocketsSpec == SocketsInit /\ [][SocketsNext]_socketVars

----------------------------------------------------------------------------
\* A datagram leaves from a server's open socket or from the sender's own: never from a
\* descriptor that was closed, or that has become somebody else's since.
SentFromItsOwn == \A m \in sent : m.owner \in Servers \cup {m.by}

=============================================================================
