--------------------------- MODULE ToeAcceptProofs ---------------------------
(* Proofs about ToeSockets: when tasks switch at yields and do not share    *)
(* descriptors, a connection keeps its hardware socket, the layer           *)
(* implements BSD accept() (BsdAccept), no client is on a socket nobody     *)
(* owns and no listener is forgotten.  They stand on the ownership of       *)
(* sockets, OwnInv, which ToeSocketsProofs shows.                           *)
EXTENDS ToeSocketsProofs

(* The states in which the chip has a client's connection on a socket *)
Carrying == {"SYNRECV", "ESTABLISHED", "CLOSE_WAIT", "CLOSING"}

(* A socket has a client's connection only in those states, and only of a  *)
(* client that called; no two sockets have the same client's.              *)
ChipHolds ==
    /\ \A s \in Socks : client[s] # NoClient =>
           client[s] \in Clients /\ syn[client[s]] = "sent" /\ sr[s] \in Carrying
    /\ \A s, r \in Socks :
           s # r /\ client[s] # NoClient => client[s] # client[r]

(* A descriptor accept() returned is an opened one with a socket, its       *)
(* connection is on that socket until it is closed, and nowhere else, and   *)
(* no other descriptor was returned for it.                                 *)
Mine(fd) ==
    /\ fd \in opened /\ fd \notin listening
    /\ sn[fd] \in Socks
    /\ peer[fd] \in Clients /\ syn[peer[fd]] = "sent"
    /\ client[sn[fd]] = peer[fd] \/ sr[sn[fd]] = "CLOSED"
    /\ \A s \in Socks : s # sn[fd] => client[s] # peer[fd]
    /\ \A g \in Descs : g # fd => peer[g] # peer[fd]

Held == {fd \in Descs : peer[fd] # NoClient}

AccState == ChipHolds /\ \A fd \in Held : Mine(fd)

(* close() has closed the socket of a connection before it gives it up. *)
ClosedFirst ==
    \A t \in Tasks :
        task[t].pc = "release" /\ task[t].call = "close"
        /\ task[t].fd \in Held
        => sr[task[t].sn] = "CLOSED"

AcceptInv == OwnInv /\ AccState /\ ClosedFirst

(* The abstract view of a step *)
Maps == [B!Next]_(B!vars)

-----------------------------------------------------------------------------
(* Four kinds of steps.  In each, tables of descriptors that hold a        *)
(* connection are left alone.                                              *)

KeepsHeld ==
    \A fd \in Held : sn'[fd] = sn[fd] /\ fd \in opened' /\ fd \notin listening'

(* A step that touches neither the chip nor a connection *)
LEMMA TableStep ==
    ASSUME TypeOK, AccState, UNCHANGED <<chipVars, syn, peer>>, KeepsHeld
    PROVE  AccState' /\ Maps
<1>1. AccState'
  BY DEF AccState, ChipHolds, Mine, Held, KeepsHeld, chipVars
<1>2. UNCHANGED B!vars
  BY DEF B!vars, Delivered, chipVars
<1> QED BY <1>1, <1>2 DEF Maps

(* A step that moves a chip's socket without ending a connection *)
LEMMA StatusStep ==
    ASSUME TypeOK, AccState, UNCHANGED <<client, syn, peer>>, KeepsHeld,
           NEW s \in Socks, NEW x,
           sr' = [sr EXCEPT ![s] = x], sr[s] # "CLOSED",
           client[s] # NoClient => x \in Carrying
    PROVE  AccState' /\ Maps
<1>1. \A r \in Socks : sr'[r] = IF r = s THEN x ELSE sr[r]
  BY DEF TypeOK
<1>2. ChipHolds'
  BY <1>1 DEF AccState, ChipHolds
<1>3. \A fd \in Held : Mine(fd)'
  BY <1>1 DEF AccState, Mine, Held, KeepsHeld
<1>4. Held' = Held
  BY DEF Held
<1>5. UNCHANGED B!vars
  BY DEF B!vars, Delivered
<1> QED BY <1>2, <1>3, <1>4, <1>5 DEF Maps, AccState

(* A step that closes or re-opens a chip's socket: a client that waited     *)
(* there gives up.  A connection of a descriptor may be closed this way,    *)
(* but only to SOCK_CLOSED.                                                *)
LEMMA DropStep ==
    ASSUME TypeOK, AccState, UNCHANGED <<syn, peer>>, KeepsHeld,
           NEW s \in Socks, NEW x,
           sr' = [sr EXCEPT ![s] = x],
           client' = [client EXCEPT ![s] = NoClient],
           x = "CLOSED" \/ \A fd \in Held : sn[fd] # s
    PROVE  AccState' /\ Maps
<1>1. /\ \A r \in Socks : sr'[r] = IF r = s THEN x ELSE sr[r]
      /\ \A r \in Socks : client'[r] = IF r = s THEN NoClient ELSE client[r]
      /\ Held' = Held /\ NoClient \notin Clients
  BY ClientAssumption DEF TypeOK, Held
<1>2. ChipHolds'
  BY <1>1 DEF AccState, ChipHolds
<1>3. ASSUME NEW fd \in Held PROVE Mine(fd)'
  BY <1>1 DEF AccState, Mine, Held, KeepsHeld
<1>4. Delivered' = Delivered
  BY DEF Delivered
<1> DEFINE Waits == {client[r] : r \in Socks} \ (Delivered \cup {NoClient})
<1>5. B!vars = <<{c \in Clients : syn[c] = "none"}, Waits, peer>>
  BY DEF B!vars
<1>6. CASE client[s] \in Delivered \cup {NoClient}
  <2>1. ASSUME NEW c, c \notin Delivered \cup {NoClient}
        PROVE  c \in {client[r] : r \in Socks}
               <=> c \in {client'[r] : r \in Socks}
    BY <1>1, <1>6, <2>1
  <2>2. Waits' = Waits
    BY <2>1, <1>4
  <2> QED BY <2>2, <1>2, <1>3, <1>1, <1>4 DEF Maps, B!vars, AccState
<1>7. CASE client[s] \notin Delivered \cup {NoClient}
  <2>1. PICK c \in Clients : c = client[s] /\ c \in Waits
    BY <1>7 DEF AccState, ChipHolds
  <2>2. \A r \in Socks : r # s => client[r] # c
    BY <1>7, <2>1 DEF AccState, ChipHolds
  <2>3. ASSUME NEW d PROVE d \in Waits' <=> d \in Waits \ {c}
    BY <1>1, <1>4, <2>1, <2>2
  <2>4. Waits' = Waits \ {c}
    BY <2>3
  <2>5. B!GiveUp(c)
    BY <2>1, <2>4 DEF B!GiveUp
  <2>6. B!Next
    BY <2>5 DEF B!Next
  <2> QED BY <2>6, <1>1, <1>2, <1>3 DEF Maps, AccState
<1> QED BY <1>6, <1>7
(* A client calls: it waits on the listener's socket s, or it is refused    *)
(* and that socket, in SOCK_INIT, is closed.                                *)
LEMMA CallStep ==
    ASSUME TypeOK, AccState, UNCHANGED peer, KeepsHeld,
           NEW c \in Clients, syn[c] = "none", NEW s \in Socks,
           \/ /\ syn' = [syn EXCEPT ![c] = "sent"]
              /\ sr[s] = "LISTEN" /\ sr' = [sr EXCEPT ![s] = "SYNRECV"]
              /\ client' = [client EXCEPT ![s] = c]
           \/ /\ syn' = [syn EXCEPT ![c] = "lost"]
              /\ sr[s] = "INIT" /\ ChipSet(s, "CLOSED")
    PROVE  AccState' /\ Maps
<1>0. Held' = Held /\ Delivered' = Delivered /\ NoClient \notin Clients
  BY ClientAssumption DEF Held, Delivered
<1>1. client[s] = NoClient /\ c \notin Delivered
  BY <1>0 DEF AccState, ChipHolds, Carrying, Mine, Held, Delivered
<1>2. \A r \in Socks : client[r] # c
  BY <1>0 DEF AccState, ChipHolds
<1> DEFINE Waits == {client[r] : r \in Socks} \ (Delivered \cup {NoClient})
           Fresh == {d \in Clients : syn[d] = "none"}
<1>3. B!vars = <<Fresh, Waits, peer>> /\ B!vars' = <<Fresh', Waits', peer'>>
  BY DEF B!vars
<1>4. c \in Fresh /\ Fresh' = Fresh \ {c}
  BY DEF TypeOK
<1>5. CASE syn' = [syn EXCEPT ![c] = "sent"]
  <2>1. /\ \A r \in Socks : client'[r] = IF r = s THEN c ELSE client[r]
        /\ \A r \in Socks : sr'[r] = IF r = s THEN "SYNRECV" ELSE sr[r]
        /\ \A d \in Clients : syn'[d] = IF d = c THEN "sent" ELSE syn[d]
    BY <1>5 DEF TypeOK
  <2>2. ChipHolds'
    BY <1>2, <2>1 DEF AccState, ChipHolds, Carrying
  <2>3. ASSUME NEW fd \in Held PROVE Mine(fd)'
    <3>1. peer[fd] # c /\ sn[fd] # s
      BY <1>0, <1>1, <1>5 DEF AccState, Mine, Held, Delivered
    <3> QED BY <1>0, <2>1, <3>1 DEF AccState, Mine, Held, KeepsHeld
  <2>4. ASSUME NEW d PROVE d \in Waits' <=> d \in Waits \cup {c}
    BY <1>0, <1>1, <2>1
  <2>5. Waits' = Waits \cup {c}
    BY <2>4
  <2>6. B!Call(c)
    BY <1>4, <2>5 DEF B!Call
  <2> QED BY <1>0, <2>2, <2>3, <2>6 DEF B!Next, Maps, AccState
<1>6. CASE ~(syn' = [syn EXCEPT ![c] = "sent"])
  <2>1. syn' = [syn EXCEPT ![c] = "lost"] /\ sr[s] = "INIT" /\ ChipSet(s, "CLOSED")
    BY <1>6
  <2>2. /\ client' = client
        /\ \A r \in Socks : sr'[r] = IF r = s THEN "CLOSED" ELSE sr[r]
        /\ \A d \in Clients : syn'[d] = IF d = c THEN "lost" ELSE syn[d]
    BY <1>1, <2>1 DEF TypeOK, ChipSet
  <2>3. ChipHolds'
    BY <1>1, <1>2, <2>2 DEF AccState, ChipHolds, Carrying
  <2>4. ASSUME NEW fd \in Held PROVE Mine(fd)'
    <3>1. peer[fd] # c
      BY <1>0, <1>1 DEF Held, Delivered
    <3> QED BY <1>0, <2>2, <3>1 DEF AccState, Mine, Held, KeepsHeld
  <2>5. Waits' = Waits
    BY <1>0, <2>2
  <2>6. B!Call(c)
    BY <1>4, <2>5 DEF B!Call
  <2> QED BY <1>0, <2>3, <2>4, <2>6 DEF B!Next, Maps, AccState
<1> QED BY <1>5, <1>6

(* accept() returns cfd for the connection on the listener's socket s. *)
LEMMA AcceptStep ==
    ASSUME TypeOK, AccState, UNCHANGED <<chipVars, syn>>, KeepsHeld,
           NEW s \in Socks, \A g \in Held : sn[g] # s,
           NEW cfd \in Descs, cfd \notin Held,
           peer' = [peer EXCEPT ![cfd] = client[s]],
           sn'[cfd] = s, cfd \in opened', cfd \notin listening'
    PROVE  AccState' /\ Maps
<1>0. /\ \A g \in Descs : peer'[g] = IF g = cfd THEN client[s] ELSE peer[g]
      /\ NoClient \notin Clients /\ peer[cfd] = NoClient
      /\ client' = client /\ sr' = sr /\ syn' = syn
  BY ClientAssumption DEF TypeOK, Held, chipVars
<1>1. CASE client[s] = NoClient
  <2>1. peer' = peer
    BY <1>0, <1>1 DEF TypeOK
  <2> QED BY <2>1, TableStep
<1>2. CASE client[s] # NoClient
  <2>1. PICK c \in Clients : c = client[s] /\ syn[c] = "sent" /\ c # NoClient
    BY <1>0, <1>2 DEF AccState, ChipHolds
  <2>2. \A r \in Socks : r # s => client[r] # c
    BY <2>1 DEF AccState, ChipHolds
  <2>3. \A g \in Descs : peer[g] # c
    BY <2>1 DEF AccState, Mine, Held
  <2>4. Mine(cfd)'
    BY <1>0, <2>1, <2>2, <2>3 DEF Mine
  <2>5. ASSUME NEW fd \in Held PROVE Mine(fd)'
    <3>1. fd # cfd /\ fd \in Descs /\ peer'[fd] = peer[fd] /\ peer[fd] # c
      BY <1>0, <2>3 DEF Held
    <3> QED BY <1>0, <2>1, <3>1 DEF AccState, Mine, Held, KeepsHeld
  <2>6. Held' = Held \cup {cfd}
    BY <1>0, <2>1 DEF Held
  <2>7. AccState'
    BY <1>0, <2>4, <2>5, <2>6 DEF AccState, ChipHolds
  <2> DEFINE Waits == {client[r] : r \in Socks} \ (Delivered \cup {NoClient})
  <2>8. c \in Waits
    BY <2>1, <2>3 DEF Delivered
  <2>9. ASSUME NEW d PROVE d \in Waits' <=> d \in Waits \ {c}
    <3>1. d \in Delivered' /\ d # NoClient
            <=> (d \in Delivered \/ d = c) /\ d # NoClient
      BY <1>0, <2>1 DEF Delivered
    <3> QED BY <1>0, <3>1, <2>1
  <2>10. Waits' = Waits \ {c}
    BY <2>9
  <2>11. B!Accept(c, cfd)
    BY <1>0, <2>1, <2>8, <2>10 DEF B!Accept
  <2> QED BY <2>7, <2>11 DEF B!Next, Maps
<1> QED BY <1>1, <1>2

(* close() gives fd up; its connection, if it has one, has been closed. *)
LEMMA CloseStep ==
    ASSUME TypeOK, AccState, UNCHANGED <<chipVars, syn>>,
           NEW fd \in Descs,
           fd \in Held => sr[sn[fd]] = "CLOSED",
           peer' = [peer EXCEPT ![fd] = NoClient],
           \A g \in Held \ {fd} :
               sn'[g] = sn[g] /\ g \in opened' /\ g \notin listening'
    PROVE  AccState' /\ Maps
<1>0. /\ \A g \in Descs : peer'[g] = IF g = fd THEN NoClient ELSE peer[g]
      /\ NoClient \notin Clients /\ Held' = Held \ {fd}
      /\ client' = client /\ sr' = sr /\ syn' = syn
  BY ClientAssumption DEF TypeOK, Held, chipVars
<1>1. ASSUME NEW g \in Held' PROVE Mine(g)'
  BY <1>0, <1>1 DEF AccState, Mine, Held
<1>2. AccState'
  BY <1>0, <1>1 DEF AccState, ChipHolds
<1>3. CASE fd \notin Held
  <2>1. peer' = peer
    BY <1>0, <1>3 DEF TypeOK, Held
  <2> QED BY <1>0, <1>2, <2>1 DEF Maps, B!vars, Delivered
<1>4. CASE fd \in Held
  <2>1. \A r \in Socks : client[r] # peer[fd]
    BY <1>4, <1>0 DEF AccState, ChipHolds, Mine, Held, Carrying
  <2> DEFINE Waits == {client[r] : r \in Socks} \ (Delivered \cup {NoClient})
  <2>2. ASSUME NEW d PROVE d \in Waits' <=> d \in Waits
    <3>1. d \in Delivered /\ d # peer[fd] /\ d # NoClient
            <=> d \in Delivered' /\ d # peer[fd] /\ d # NoClient
      BY <1>0 DEF Delivered
    <3> QED BY <1>0, <2>1, <3>1
  <2>3. Waits' = Waits
    BY <2>2
  <2>4. B!Close(fd)
    BY <1>0, <1>4, <2>3 DEF B!Close, Held
  <2> QED BY <1>2, <2>4 DEF B!Next, Maps
<1> QED BY <1>3, <1>4
-----------------------------------------------------------------------------
(* Every step is of one of these kinds. *)

(* A listener's socket, and a reserved one, has no accepted connection. *)
LEMMA NotHeld ==
    ASSUME OwnInv, AccState, NEW s \in Socks,
           owner[s] \in Descs => owner[s] \notin Held
    PROVE  \A g \in Held : sn[g] # s
BY Constants DEF OwnInv, Ownership, AccState, Mine, Held

(* What a step of toe_listener_reopen(), accept() or the re-arming knows:   *)
(* its descriptor listens, and has the socket the step works on.            *)
LEMMA Works ==
    ASSUME OwnInv, AccState, NEW t \in Tasks
    PROVE  /\ task[t].pc \in {"poll", "established", "open", "listen"} =>
                 task[t].fd \in Descs \ Held /\ task[t].fd \in used \cap listening
           /\ task[t].pc \in {"established", "open", "listen"} =>
                 /\ sn[task[t].fd] = task[t].sn /\ task[t].sn \in Socks
                 /\ \A g \in Held : sn[g] # task[t].sn
           /\ task[t].pc \in {"close", "release"} /\ task[t].call # "raw" =>
                 /\ task[t].fd \in Descs /\ task[t].fd \in used
                 /\ sn[task[t].fd] = task[t].sn /\ task[t].sn \in Socks
           /\ task[t].call = "raw" =>
                 /\ task[t].sn \in Socks
                 /\ \A g \in Held : sn[g] # task[t].sn
           /\ task[t].pc \in {"close", "release"} => task[t].call \in {"close", "raw"}
<1>1. Fits(task[t], used, listening, sn, owner) /\ used \subseteq Descs
  BY DEF OwnInv, TypeInv, TypeOK
<1>2. task[t].call = "raw" => owner[task[t].sn] \notin Descs
  BY <1>1, Constants DEF Fits
<1>3. \A fd \in listening : fd \notin Held
  BY DEF AccState, Mine
<1>4. \A fd \in Descs : sn[fd] # NONE => owner[sn[fd]] = fd
  BY DEF OwnInv, Ownership
<1>5. task[t].pc \in {"established", "open", "listen"} =>
        owner[task[t].sn] = task[t].fd
  BY <1>1, <1>4, Constants DEF Fits
<1> QED BY <1>1, <1>2, <1>3, <1>5, NotHeld DEF Fits

(* A descriptor that holds a connection is in use, and not Plain. *)
LEMMA HeldInUse ==
    ASSUME OwnInv, AccState, NEW fd \in Held
    PROVE  fd \in used /\ ~Plain(fd) /\ fd \in Descs /\ sn[fd] \in Socks
           /\ owner[sn[fd]] = fd /\ fd \notin listening
BY Constants DEF OwnInv, Ownership, AccState, Mine, Held, Plain

(* The first steps of the calls *)
LEMMA AccNewCall ==
    ASSUME OwnInv, AccState, NEW t \in Tasks, NewCall(t)
    PROVE  AccState' /\ Maps
<1>0. TypeOK
  BY DEF OwnInv, TypeInv
<1>1. ASSUME NEW isUdp \in BOOLEAN, Socket(t, isUdp) PROVE AccState' /\ Maps
  <2>1. PICK fd \in Descs : Lowest(fd, Unused)
          /\ \/ \E s \in Socks :
                /\ sn' = [sn EXCEPT ![fd] = s]
                /\ opened' = opened \ {fd}
                /\ listening' = listening \ {fd}
                /\ peer' = [peer EXCEPT ![fd] = NoClient]
             \/ DescClear(fd)
    BY <1>1 DEF Socket
  <2>2. fd \notin Held
    BY <2>1, HeldInUse DEF Lowest, Unused
  <2>3. peer' = peer
    BY <1>0, <2>1, <2>2 DEF DescClear, TypeOK, Held
  <2>4. KeepsHeld
    BY <1>0, <2>1, <2>2, HeldInUse DEF DescClear, TypeOK, KeepsHeld, AccState, Mine
  <2> QED BY <1>0, <1>1, <2>3, <2>4, TableStep DEF Socket
<1>2. ASSUME NEW fd \in Descs, Bind(t, fd) PROVE AccState' /\ Maps
  <2>1. fd \notin Held /\ sn[fd] \in Socks
    BY <1>0, <1>2, HeldInUse DEF Bind, Plain, Ready, TypeOK
  <2>2. \A g \in Held : sn[g] # sn[fd]
    BY <1>2, <2>1, HeldInUse, Constants DEF OwnInv, Ownership
  <2>3. KeepsHeld
    BY <1>2 DEF Bind, KeepsHeld, AccState, Mine
  <2> QED BY <1>0, <1>2, <2>1, <2>2, <2>3, DropStep DEF Bind, ChipSet
<1>3. ASSUME NEW fd \in Descs, Listen(t, fd) PROVE AccState' /\ Maps
  <2>1. fd \notin Held
    BY <1>3, HeldInUse DEF Listen
  <2>2. KeepsHeld
    BY <1>3, <2>1 DEF Listen, KeepsHeld, AccState, Mine
  <2> QED BY <1>0, <1>3, <2>2, TableStep DEF Listen
<1>4. ASSUME NEW fd \in Descs, Accept(t, fd) PROVE AccState' /\ Maps
  BY <1>0, <1>4, TableStep DEF Accept, descVars, KeepsHeld, AccState, Mine
<1>5. ASSUME NEW fd \in Descs, Connect(t, fd) PROVE AccState' /\ Maps
  <2>1. fd \notin Held /\ sn[fd] \in Socks
    BY <1>0, <1>5, HeldInUse DEF Connect, Plain, Ready, TypeOK
  <2>2. \A g \in Held : sn[g] # sn[fd]
    BY <1>5, <2>1, HeldInUse, Constants DEF OwnInv, Ownership
  <2>3. KeepsHeld
    BY <1>5 DEF Connect, KeepsHeld, AccState, Mine
  <2> QED BY <1>0, <1>5, <2>1, <2>2, <2>3, DropStep DEF Connect, ChipSet
<1>6. ASSUME NEW fd \in Descs, NEW call, NEW next, Disconnect(t, fd, call, next),
             sn[fd] \in Socks, UNCHANGED <<descVars, client, syn, peer>>
      PROVE  AccState' /\ Maps
  <2>1. KeepsHeld
    BY <1>6 DEF KeepsHeld, descVars, AccState, Mine
  <2>2. CASE sr' = sr
    BY <1>0, <1>6, <2>1, <2>2, TableStep DEF chipVars
  <2>3. CASE sr' # sr
    <3>1. sr[sn[fd]] \in Connected /\ sr' = [sr EXCEPT ![sn[fd]] = "CLOSING"]
      BY <1>6, <2>3 DEF Disconnect
    <3> QED BY <1>0, <1>6, <2>1, <3>1, StatusStep DEF Connected, Carrying
  <2> QED BY <2>2, <2>3
<1>7. ASSUME NEW fd \in Descs, Shutdown(t, fd) PROVE AccState' /\ Maps
  BY <1>0, <1>6, <1>7 DEF Shutdown, Ready, TypeOK
<1>8. ASSUME NEW fd \in Descs, Close(t, fd) PROVE AccState' /\ Maps
  <2>1. CASE sn[fd] = NONE
    <3>1. DescClear(fd) /\ UNCHANGED <<sr, client, syn>>
      BY <1>8, <2>1 DEF Close
    <3>2. fd \notin Held
      BY <2>1, HeldInUse, Constants
    <3>3. \A g \in Held \ {fd} :
              sn'[g] = sn[g] /\ g \in opened' /\ g \notin listening'
      BY <1>0, <3>1, HeldInUse DEF DescClear, TypeOK, AccState, Mine
    <3> QED BY <1>0, <3>1, <3>2, <3>3, CloseStep DEF DescClear, chipVars
  <2>2. CASE sn[fd] # NONE /\ fd \in udp
    BY <1>0, <1>8, <2>2, TableStep
       DEF Close, KeepsHeld, descVars, chipVars, AccState, Mine
  <2>3. CASE sn[fd] # NONE /\ fd \notin udp
    <3>1. sn[fd] \in Socks
      BY <1>0, <2>3 DEF TypeOK
    <3> QED BY <1>6, <1>8, <2>3, <3>1 DEF Close
  <2> QED BY <2>1, <2>2, <2>3
<1>9. CASE Reserve(t)
  BY <1>0, <1>9, TableStep DEF Reserve, descVars, KeepsHeld, AccState, Mine
<1>10. ASSUME NEW s \in Socks, ReleaseRaw(t, s) PROVE AccState' /\ Maps
  BY <1>0, <1>10, TableStep DEF ReleaseRaw, descVars, KeepsHeld, AccState, Mine
<1> QED BY <1>1, <1>2, <1>3, <1>4, <1>5, <1>7, <1>8, <1>9, <1>10 DEF NewCall
(* The rest of a call, but for the hand-over and the giving up of a socket *)
LEMMA AccQuietStep ==
    ASSUME OwnInv, AccState, NEW t \in Tasks, Step(t),
           ~Established(t), ~Release(t)
    PROVE  AccState' /\ Maps
<1>0. TypeOK
  BY DEF OwnInv, TypeInv
<1>l. \A fd \in Held : fd \in opened /\ fd \notin listening
  BY DEF AccState, Mine
<1>1. CASE Open(t)
  <2>1. /\ task[t].fd \notin Held /\ task[t].sn \in Socks
        /\ \A g \in Held : sn[g] # task[t].sn
    BY <1>1, Works DEF Open, At
  <2>2. KeepsHeld
    BY <1>1, <1>l, <2>1 DEF Open, KeepsHeld
  <2>3. CASE UNCHANGED chipVars
    BY <1>0, <1>1, <2>2, <2>3, TableStep DEF Open
  <2>4. CASE ~UNCHANGED chipVars
    <3>1. ChipSet(task[t].sn, "INIT")
      BY <1>1, <2>4 DEF Open
    <3> QED BY <1>0, <1>1, <2>1, <2>2, <3>1, DropStep DEF Open, ChipSet
  <2> QED BY <2>3, <2>4
<1>2. CASE ListenOk(t)
  <2>1. task[t].sn \in Socks
    BY <1>2, Works DEF ListenOk, At
  <2>2. client[task[t].sn] = NoClient
    BY <1>2, <2>1 DEF ListenOk, AccState, ChipHolds, Carrying
  <2>3. KeepsHeld
    BY <1>2, <1>l DEF ListenOk, KeepsHeld, descVars
  <2> QED BY <1>0, <1>2, <2>1, <2>2, <2>3, StatusStep DEF ListenOk
<1>3. CASE ListenFail(t)
  <2>1. task[t].fd \notin Held /\ task[t].sn \in Socks /\ task[t].fd \in Descs
    BY <1>3, Works DEF ListenFail, At
  <2>2. KeepsHeld
    BY <1>0, <1>3, <1>l, <2>1 DEF ListenFail, Disarm, KeepsHeld, TypeOK
  <2>3. CASE UNCHANGED <<chipVars, syn>>
    BY <1>0, <1>3, <2>2, <2>3, TableStep DEF ListenFail
  <2>4. CASE ~UNCHANGED <<chipVars, syn>>
    <3>1. /\ sr[task[t].sn] = "INIT" /\ ChipSet(task[t].sn, "CLOSED")
          /\ \E c \in Clients :
               syn[c] = "none" /\ syn' = [syn EXCEPT ![c] = "lost"]
      BY <1>3, <2>4 DEF ListenFail
    <3> QED BY <1>0, <1>3, <2>1, <2>2, <3>1, CallStep DEF ListenFail
  <2> QED BY <2>3, <2>4
<1>4. ASSUME NEW fd \in Descs \ Held, NEW call, NEW todo,
             Rearm(t, fd, call, todo),
             UNCHANGED <<opened, listening, chipVars, syn, peer>>
      PROVE  AccState' /\ Maps
  <2>1. KeepsHeld
    BY <1>0, <1>4, <1>l DEF Rearm, KeepsHeld, TypeOK, Held
  <2> QED BY <1>0, <1>4, <2>1, TableStep
<1>5. CASE PollUnarmed(t)
  <2>1. task[t].fd \in Descs \ Held
    BY <1>5, Works DEF PollUnarmed, At
  <2>2. CASE UNCHANGED sn
    BY <1>0, <1>5, <1>l, <2>2, TableStep DEF PollUnarmed, KeepsHeld
  <2> QED BY <1>4, <1>5, <2>1, <2>2 DEF PollUnarmed
<1>6. CASE \/ PollArmed(t) \/ EstablishedNoDesc(t) \/ ConnectReturns(t)
           \/ DisconnectReturns(t) \/ RearmDone(t)
  <2>1. UNCHANGED <<descVars, chipVars, syn, peer>>
    BY <1>6 DEF PollArmed, EstablishedNoDesc, ConnectReturns,
                DisconnectReturns, RearmDone
  <2> QED BY <1>0, <1>l, <2>1, TableStep DEF descVars, KeepsHeld
<1>7. CASE CloseChip(t)
  <2>1. KeepsHeld
    BY <1>7, <1>l DEF CloseChip, KeepsHeld, descVars
  <2>2. CASE UNCHANGED chipVars
    BY <1>0, <1>7, <2>1, <2>2, TableStep DEF CloseChip
  <2>3. CASE ~UNCHANGED chipVars
    <3>1. ChipSet(task[t].sn, "CLOSED") /\ task[t].sn \in Socks
      BY <1>7, <2>3, Works DEF CloseChip, At
    <3> QED BY <1>0, <1>7, <2>1, <3>1, DropStep DEF CloseChip, ChipSet
  <2> QED BY <2>2, <2>3
<1>8. CASE RearmNext(t)
  <2>1. PICK fd \in Descs :
          /\ Lowest(fd, Pending(task[t].todo))
          /\ Rearm(t, fd, "rearm", {d \in task[t].todo : d > fd})
    BY <1>8 DEF RearmNext
  <2>2. fd \notin Held
    BY <1>l, <2>1 DEF Lowest, Pending
  <2> QED BY <1>4, <1>8, <2>1, <2>2 DEF RearmNext
<1> QED BY <1>1, <1>2, <1>3, <1>5, <1>6, <1>7, <1>8 DEF Step

(* accept() hands its listener's connection over, close() gives its socket  *)
(* up: the two steps the application sees.                                  *)
LEMMA AccVisibleStep ==
    ASSUME OwnInv, AccState, ClosedFirst, NEW t \in Tasks,
           Established(t) \/ Release(t)
    PROVE  AccState' /\ Maps
<1>0. TypeOK
  BY DEF OwnInv, TypeInv
<1>l. \A fd \in Held : fd \in opened /\ fd \notin listening
  BY DEF AccState, Mine
<1>1. CASE Established(t)
  <2> DEFINE fd == task[t].fd
             s == task[t].sn
  <2>1. /\ fd \in Descs \ Held /\ s \in Socks /\ sn[fd] = s /\ s # NONE
        /\ \A g \in Held : sn[g] # s
    <3>1. task[t].pc = "established"
      BY <1>1 DEF Established, At
    <3> QED BY <3>1, Works, Constants
  <2>2. PICK cfd \in Descs :
            /\ Lowest(cfd, Unused)
            /\ opened' = (opened \cup {cfd}) \ {fd}
            /\ listening' = listening \ {cfd}
            /\ peer' = [peer EXCEPT ![cfd] = client[s]]
            /\ \/ sn' = HandOver(fd, cfd)
               \/ \E n \in Socks : sn' = [HandOver(fd, cfd) EXCEPT ![fd] = n]
    <3>1. sn[fd] = s /\ s # NONE
      BY <2>1
    <3> HIDE DEF s
    <3> QED BY <1>1, <3>1 DEF Established
  <2>3. cfd \notin Held /\ cfd # fd
    <3>1. cfd \notin used
      BY <2>2 DEF Lowest, Unused
    <3>2. task[t].pc = "established"
      BY <1>1 DEF Established, At
    <3>3. fd \in used
      BY <3>2, Works
    <3> QED BY <3>1, <3>3, HeldInUse
  <2>4. /\ sn'[cfd] = s
        /\ \A g \in Descs : g # cfd /\ g # fd => sn'[g] = sn[g]
    BY <1>0, <2>1, <2>2, <2>3 DEF HandOver, TypeOK
  <2>5. KeepsHeld
    BY <1>l, <2>1, <2>2, <2>3, <2>4 DEF KeepsHeld, Held
  <2>6. UNCHANGED <<chipVars, syn>>
    BY <1>1 DEF Established
  <2>7. cfd \in opened' /\ cfd \notin listening'
    BY <2>2, <2>3
  <2> HIDE DEF fd, s
  <2> QED BY <1>0, <2>1, <2>2, <2>3, <2>4, <2>5, <2>6, <2>7, AcceptStep
<1>2. CASE Release(t)
  <2>1. UNCHANGED <<chipVars, syn>>
    BY <1>2 DEF Release
  <2>2. CASE task[t].call = "raw"
    <3>1. UNCHANGED <<sn, opened, listening, peer>>
      BY <1>2, <2>2 DEF Release
    <3> QED BY <1>0, <1>l, <2>1, <3>1, TableStep DEF KeepsHeld
  <2>3. CASE task[t].call # "raw"
    <3>1. /\ task[t].fd \in Descs /\ sn[task[t].fd] = task[t].sn
          /\ task[t].call = "close" /\ task[t].pc = "release"
      BY <1>2, <2>3, Works DEF Release, At
    <3>2. DescClear(task[t].fd)
      BY <1>2, <2>3 DEF Release
    <3>3. task[t].fd \in Held => sr[sn[task[t].fd]] = "CLOSED"
      BY <3>1 DEF ClosedFirst
    <3>4. \A g \in Held \ {task[t].fd} :
              sn'[g] = sn[g] /\ g \in opened' /\ g \notin listening'
      BY <1>0, <1>l, <3>2 DEF DescClear, TypeOK, Held
    <3> QED BY <1>0, <2>1, <3>1, <3>2, <3>3, <3>4, CloseStep DEF DescClear
  <2> QED BY <2>2, <2>3
<1> QED BY <1>1, <1>2

(* The chip and the network *)
LEMMA AccChip ==
    ASSUME OwnInv, AccState, (\E s \in Socks : Chip(s)) \/ AddressChange
    PROVE  AccState' /\ Maps
<1>0. TypeOK
  BY DEF OwnInv, TypeInv
<1>l. UNCHANGED <<descVars, peer>> /\ KeepsHeld
  <2>1. UNCHANGED <<descVars, peer>>
    BY DEF Chip, SynArrives, HandshakeDone, HandshakeFails, PeerFin, PeerReset,
           ClosingDone, Becomes, AddressChange
  <2> QED BY <2>1 DEF descVars, KeepsHeld, AccState, Mine
<1>1. ASSUME NEW s \in Socks, NEW c \in Clients, SynArrives(c, s)
      PROVE  AccState' /\ Maps
  BY <1>0, <1>l, <1>1, CallStep DEF SynArrives
<1>2. ASSUME NEW s \in Socks, NEW before, NEW after, Becomes(s, before, after),
             "CLOSED" \notin before, after \in {"CLOSED"} \cup Carrying
      PROVE  AccState' /\ Maps
  <2>1. CASE after = "CLOSED"
    BY <1>0, <1>l, <1>2, <2>1, DropStep DEF Becomes
  <2>2. CASE after # "CLOSED"
    <3>1. client' = client
      BY <1>0, <1>2, <2>2 DEF Becomes, TypeOK
    <3>2. sr[s] # "CLOSED" /\ sr' = [sr EXCEPT ![s] = after] /\ syn' = syn
      BY <1>2 DEF Becomes
    <3> QED BY <1>0, <1>l, <1>2, <2>2, <3>1, <3>2, StatusStep
  <2> QED BY <2>1, <2>2
<1>3. CASE AddressChange
  BY <1>0, <1>l, <1>3, TableStep DEF AddressChange
<1> QED BY <1>1, <1>2, <1>3
    DEF Chip, HandshakeDone, HandshakeFails, PeerFin, PeerReset, ClosingDone,
        Carrying
-----------------------------------------------------------------------------
(* Only CloseChip brings a task to the point where it gives a socket up. *)
LEMMA ComesTo ==
    ASSUME Serial, OwnInv, NEW t \in Tasks, NewCall(t) \/ Step(t),
           ~CloseChip(t)
    PROVE  \A u \in Tasks : task'[u].pc # "release"
<1>0. TypeOK /\ \A u \in Tasks : Fits(task[u], used, listening, sn, owner)
  BY DEF OwnInv, TypeInv
<1>1. MayRun(t)
  BY DEF NewCall, Step, Socket, Bind, Listen, Accept, Connect, Shutdown, Close,
         Reserve, ReleaseRaw, CanCall, Open, ListenOk, ListenFail, PollUnarmed,
         PollArmed, EstablishedNoDesc, Established, ConnectReturns,
         DisconnectReturns, Release, RearmNext, RearmDone, At
<1>2. \A u \in Tasks \ {t} : task[u].pc # "release"
  BY <1>1, OthersYield DEF YieldPoints
<1>3. ASSUME NEW k, k.pc # "release", Goto(t, k)
      PROVE  \A u \in Tasks : task'[u].pc # "release"
  BY <1>0, <1>2, <1>3 DEF Goto, TypeOK
<1>4. ASSUME NEW pc, NEW call, NEW fd, NEW s
      PROVE  In(pc, call, fd, s).pc = pc
  BY DEF In
<1>5. Idle.pc = "idle" /\ RearmAll.pc = "rearm"
  BY DEF Idle, RearmAll, In
<1>6. task[t] \in Place
  BY <1>0 DEF TypeOK, Place
<1>7. \A place : [task[t] EXCEPT !.pc = place].pc = place
  BY <1>6 DEF Place
<1>8. \A k \in AfterTurn(t) : k.pc # "release"
  BY <1>4, <1>5 DEF AfterTurn
<1>9. \A k \in AfterReopen(t) : k.pc # "release"
  <2>1. CASE task[t].call \in Accepting
    BY <1>8, <2>1 DEF AfterReopen, Accepting
  <2>2. CASE task[t].call = "rearm"
    BY <1>7, <2>2 DEF AfterReopen, Accepting
  <2>3. CASE task[t].call \notin Accepting \cup {"rearm"}
    BY <1>5, <2>3 DEF AfterReopen
  <2> QED BY <2>1, <2>2, <2>3
<1>10. ASSUME NEW places, \A k \in places : k.pc # "release", Resume(t, places)
       PROVE  \A u \in Tasks : task'[u].pc # "release"
  BY <1>3, <1>10 DEF Resume
<1>11. CASE NewCall(t)
  <2>1. CASE task' = task
    BY <1>2, <1>11, <2>1, <1>5
       DEF NewCall, Socket, Bind, Listen, Accept, Connect, Shutdown, Close,
           Reserve, ReleaseRaw, CanCall
  <2>2. ASSUME NEW fd \in Descs, NEW call, NEW next, next.pc # "release",
               Disconnect(t, fd, call, next)
        PROVE  \A u \in Tasks : task'[u].pc # "release"
    BY <1>3, <1>4, <2>2 DEF Disconnect
  <2>3. ASSUME NEW fd \in Descs, Shutdown(t, fd) \/ Close(t, fd)
        PROVE  \A u \in Tasks : task'[u].pc # "release"
    BY <1>3, <1>4, <1>5, <2>2, <2>3 DEF Shutdown, Close
  <2>4. ASSUME NEW fd \in Descs, Listen(t, fd) \/ Accept(t, fd) \/ Connect(t, fd)
        PROVE  \A u \in Tasks : task'[u].pc # "release"
    BY <1>3, <1>4, <2>4 DEF Listen, Accept, Connect
  <2>5. ASSUME NEW s \in Socks, ReleaseRaw(t, s)
        PROVE  \A u \in Tasks : task'[u].pc # "release"
    BY <1>3, <1>4, <2>5 DEF ReleaseRaw
  <2> QED BY <1>11, <2>1, <2>3, <2>4, <2>5 DEF NewCall, Socket, Bind, Reserve
<1>12. CASE Step(t)
  <2>1. CASE Open(t) \/ ListenOk(t) \/ ListenFail(t)
    BY <1>3, <1>7, <1>9, <1>10, <2>1 DEF Open, ListenOk, ListenFail
  <2>2. ASSUME NEW fd, NEW call, NEW todo, Rearm(t, fd, call, todo)
        PROVE  \A u \in Tasks : task'[u].pc # "release"
    <3>1. PICK s \in Socks :
            Goto(t, [In("open", call, fd, s) EXCEPT !.todo = todo])
      BY <2>2 DEF Rearm
    <3>2. [In("open", call, fd, s) EXCEPT !.todo = todo].pc = "open"
      BY DEF In
    <3> QED BY <1>3, <3>1, <3>2
  <2>3. CASE PollUnarmed(t) \/ PollArmed(t)
    BY <1>3, <1>4, <1>8, <1>10, <2>2, <2>3 DEF PollUnarmed, PollArmed
  <2>4. CASE EstablishedNoDesc(t) \/ Established(t)
    <3>1. \/ Goto(t, Idle)
          \/ \E s, call, fd : Goto(t, In("open", call, fd, s))
      BY <2>4 DEF EstablishedNoDesc, Established
    <3> QED BY <1>3, <1>4, <1>5, <3>1
  <2>5. CASE ConnectReturns(t) \/ DisconnectReturns(t)
    BY <1>3, <1>5, <1>7, <2>5 DEF ConnectReturns, DisconnectReturns
  <2>6. CASE Release(t) \/ RearmNext(t) \/ RearmDone(t)
    BY <1>3, <1>5, <2>2, <2>6 DEF Release, RearmNext, RearmDone
  <2> QED BY <1>12, <2>1, <2>3, <2>4, <2>5, <2>6 DEF Step
<1> QED BY <1>11, <1>12

(* A connection is closed before its socket is given up. *)
LEMMA ClosedFirstStep ==
    ASSUME Serial, AcceptInv, Next
    PROVE  ClosedFirst'
<1>0. TypeOK /\ OwnInv /\ AccState /\ ClosedFirst
  BY DEF AcceptInv, OwnInv, TypeInv
<1>1. ASSUME NEW t \in Tasks, NewCall(t) \/ Step(t), ~CloseChip(t)
      PROVE  ClosedFirst'
  BY <1>0, <1>1, ComesTo DEF ClosedFirst
<1>2. ASSUME NEW t \in Tasks, CloseChip(t) PROVE ClosedFirst'
  <2>1. \A u \in Tasks \ {t} : task[u].pc # "release"
    BY <1>0, <1>2, OthersYield DEF CloseChip, At, YieldPoints
  <2>2. task[t] \in Place
    BY <1>0 DEF TypeOK, Place
  <2>3. /\ \A u \in Tasks \ {t} : task'[u] = task[u]
        /\ task'[t].fd = task[t].fd /\ task'[t].sn = task[t].sn
        /\ task'[t].call = task[t].call /\ Held' = Held
    BY <1>0, <1>2, <2>2 DEF CloseChip, Goto, TypeOK, Place, Held, descVars
  <2>4. CASE task[t].call = "close" /\ task[t].fd \in Held
    <3>1. task[t].fd \in opened /\ task[t].sn \in Socks
      BY <1>0, <1>2, <2>4, Works DEF CloseChip, At, AccState, Mine
    <3>2. sr'[task[t].sn] = "CLOSED"
      BY <1>0, <1>2, <3>1 DEF CloseChip, MustClose, ChipSet, TypeOK
    <3> QED BY <2>1, <2>3, <3>2 DEF ClosedFirst
  <2> QED BY <2>1, <2>3, <2>4 DEF ClosedFirst
<1>3. CASE (\E s \in Socks : Chip(s)) \/ AddressChange
  <2>1. UNCHANGED <<task, peer>>
    BY <1>3 DEF Chip, SynArrives, HandshakeDone, HandshakeFails, PeerFin,
                PeerReset, ClosingDone, Becomes, AddressChange
  <2>2. \A r \in Socks : sr[r] = "CLOSED" => sr'[r] = "CLOSED"
    BY <1>0, <1>3 DEF Chip, SynArrives, HandshakeDone, HandshakeFails, PeerFin,
                PeerReset, ClosingDone, Becomes, AddressChange, TypeOK, chipVars
  <2>3. \A t \in Tasks : task[t].pc = "release" => task[t].sn \in Socks
    BY <1>0, Works
  <2> QED BY <1>0, <2>1, <2>2, <2>3 DEF ClosedFirst, Held
<1> QED BY <1>1, <1>2, <1>3 DEF Next

(* Every step keeps the invariant, and is a step of BSD accept() or none.   *)
LEMMA AcceptNext ==
    ASSUME Serial, AcceptInv, [Next]_vars
    PROVE  AcceptInv' /\ Maps
<1>1. CASE UNCHANGED vars
  BY <1>1 DEF vars, AcceptInv, OwnInv, TypeInv, TypeOK, Ownership, AccState,
     ChipHolds, Mine, Held, ClosedFirst, Maps, B!vars, Delivered
<1>2. CASE Next
  <2>1. OwnInv'
    BY <1>2, OwnNewCall, OwnStep, OwnChip DEF Next, AcceptInv
  <2>2. AccState' /\ Maps
    BY <1>2, AccNewCall, AccQuietStep, AccVisibleStep, AccChip
       DEF Next, AcceptInv
  <2> QED BY <1>2, <2>1, <2>2, ClosedFirstStep DEF AcceptInv
<1> QED BY <1>1, <1>2

(* At boot no socket has a client and nobody has connected. *)
LEMMA AcceptInit ==
    ASSUME Init
    PROVE  AcceptInv /\ B!Init
<1>1. TypeInv
  <2>1. task \in [Tasks -> Place] /\ \A t \in Tasks : Named(task[t])
    BY IdleType DEF Init
  <2> QED BY <2>1 DEF Init, TypeInv, TypeOK, Place, Status
<1>2. Ownership
  BY Constants DEF Init, Ownership
<1>3. \A t \in Tasks : task[t] = Idle
  BY DEF Init
<1>4. OwnInv
  BY <1>1, <1>2, <1>3 DEF OwnInv, Fits, Apart, OneRuns, Idle, Accepting, YieldPoints
<1>5. AccState /\ ClosedFirst
  BY <1>3 DEF Init, AccState, ChipHolds, Held, ClosedFirst, Idle
<1>6. B!Init
  BY DEF Init, B!Init, Delivered
<1> QED BY <1>4, <1>5, <1>6 DEF AcceptInv

(* When tasks switch at yields only and do not share a descriptor, a        *)
(* connection keeps the hardware socket it was established on until it is   *)
(* closed, whatever the number of sockets, descriptors, tasks and clients:  *)
(* accept()'s descriptor never comes to stand for another client's.        *)
THEOREM ConnectionIsKept ==
    ASSUME Serial
    PROVE  Spec => []ConnectionKept
<1>1. Init => AcceptInv
  BY AcceptInit
<1>2. AcceptInv /\ [Next]_vars => AcceptInv'
  BY AcceptNext
<1>3. AcceptInv => ConnectionKept
  BY Constants DEF AcceptInv, AccState, Mine, Held, ConnectionKept
<1> QED BY <1>1, <1>2, <1>3, PTL DEF Spec

(* Under the same conditions the layer implements BSD listen() and          *)
(* accept(): on a chip without a backlog, with a listener that changes its  *)
(* hardware socket with every client, each client that gets through is      *)
(* handed out once, and stays behind its descriptor until close().          *)
THEOREM ImplementsBsdAccept ==
    ASSUME Serial
    PROVE  Spec => Accepts
<1>1. Init => AcceptInv /\ B!Init
  BY AcceptInit
<1>2. AcceptInv /\ [Next]_vars => AcceptInv' /\ [B!Next]_(B!vars)
  BY AcceptNext DEF Maps
<1> QED BY <1>1, <1>2, PTL DEF Spec, Accepts, B!Spec

-----------------------------------------------------------------------------
(* Sockets nobody owns and listeners nobody re-arms.                        *)

(* No client on a socket nobody owns: the chip's socket of a descriptor is  *)
(* live only while the descriptor counts as opened, so whatever skips the   *)
(* chip's close (close() of one that is not opened, disarm) finds it dead.  *)
Live == CanAccept \cup {"SYNSENT", "INIT"}
LiveOwned ==
    /\ \A s \in Socks : sr[s] \in Live => owner[s] \in opened
    /\ \A fd \in listening : sn[fd] # NONE => sr[sn[fd]] # "SYNSENT"

(* What a task in the middle of a call knows of its socket's status S *)
Knows(k, S) ==
    /\ k.pc = "open" => S[k.sn] \notin Live
    /\ k.pc = "listen" => S[k.sn] = "INIT"
    /\ k.pc = "release" => S[k.sn] \notin Live

(* A listener without a socket means no socket is free, or that a task is   *)
(* on its way through toe_rearm_pending_listeners() and has it ahead.       *)
Unarmed == {fd \in used \cap listening : sn[fd] = NONE}
Rearms(k, pending) ==
    /\ k.call = "rearm" /\ k.pc \in {"rearm", "open", "listen"}
    /\ pending \subseteq k.todo
Refused == \E c \in Clients : syn[c] = "lost"
Repaired ==
    Refused \/ FreeSocks = {} \/ Unarmed = {} \/ \E t \in Tasks : Rearms(task[t], Unarmed)

SockInv ==
    /\ OwnInv
    /\ LiveOwned
    /\ \A t \in Tasks : Knows(task[t], sr)
    /\ Repaired

-----------------------------------------------------------------------------
(* What a step of task t to place k must show: of its own place only, since *)
(* every other task is at a yield and knows nothing of a status.            *)
LEMMA KnowsFrame ==
    ASSUME Serial, OwnInv, NEW t \in Tasks, MayRun(t), NEW k, Goto(t, k),
           Knows(k, sr')
    PROVE  \A u \in Tasks : Knows(task'[u], sr')
<1>1. \A u \in Tasks : task'[u] = IF u = t THEN k ELSE task[u]
  BY DEF Goto, OwnInv, TypeInv, TypeOK
<1>2. \A u \in Tasks \ {t} : task[u].pc \in YieldPoints
  BY OthersYield
<1> QED BY <1>1, <1>2 DEF Knows, YieldPoints

(* A task that runs and is not re-arming is alone in having nothing to      *)
(* repair.                                                                  *)
LEMMA NothingPends ==
    ASSUME Serial, SockInv, NEW t \in Tasks, MayRun(t),
           \/ task[t].call # "rearm"
           \/ task[t].pc \notin {"rearm", "open", "listen"}
    PROVE  Refused \/ FreeSocks = {} \/ Unarmed = {}
<1>1. \A u \in Tasks \ {t} : task[u].call # "rearm"
  BY OthersYield DEF SockInv
<1> QED BY <1>1 DEF SockInv, Repaired, Rearms

(* Fewer sockets free, fewer listeners without one: nothing new to repair.  *)
LEMMA StillRepaired ==
    ASSUME Refused \/ FreeSocks = {} \/ Unarmed = {},
           Refused => Refused', FreeSocks' \subseteq FreeSocks,
           Unarmed' \subseteq Unarmed
    PROVE  Repaired'
BY DEF Repaired

(* Where a call goes on after toe_listener_reopen() *)
LEMMA Returns ==
    ASSUME OwnInv, NEW t \in Tasks
    PROVE  /\ \A k \in AfterTurn(t) : k.pc \in {"poll", "idle"}
           /\ \A k \in AfterReopen(t) :
                 /\ k.pc \in {"poll", "idle", "rearm"}
                 /\ task[t].call = "rearm" =>
                       k.pc = "rearm" /\ k.call = "rearm" /\ k.todo = task[t].todo
<1>0. task[t] \in Place
  BY DEF OwnInv, TypeInv, TypeOK, Place
<1>1. \A k \in AfterTurn(t) : k.pc \in {"poll", "idle"}
  BY DEF AfterTurn, In, Idle
<1>2. ASSUME NEW k \in AfterReopen(t)
      PROVE  /\ k.pc \in {"poll", "idle", "rearm"}
             /\ task[t].call = "rearm" =>
                   k.pc = "rearm" /\ k.call = "rearm" /\ k.todo = task[t].todo
  <2>1. CASE task[t].call \in Accepting
    BY <1>1, <1>2, <2>1 DEF AfterReopen, Accepting
  <2>2. CASE task[t].call = "rearm"
    <3>1. k = [task[t] EXCEPT !.pc = "rearm"]
      BY <1>2, <2>2 DEF AfterReopen, Accepting
    <3> QED BY <1>0, <2>2, <3>1 DEF Place
  <2>3. CASE task[t].call \notin Accepting \cup {"rearm"}
    BY <1>2, <2>3 DEF AfterReopen, Idle
  <2> QED BY <2>1, <2>2, <2>3
<1> QED BY <1>1, <1>2

-----------------------------------------------------------------------------
(* The first steps of the calls *)
LEMMA LiveNewCall ==
    ASSUME Serial, SockInv, NEW t \in Tasks, NewCall(t)
    PROVE  LiveOwned' /\ (\A u \in Tasks : Knows(task'[u], sr')) /\ Repaired'
<1>0. /\ OwnInv /\ TypeOK /\ Ownership /\ LiveOwned
      /\ \A u \in Tasks : Knows(task[u], sr)
  BY DEF SockInv, OwnInv, TypeInv
<1>1. MayRun(t) /\ task[t] = Idle /\ task[t].call # "rearm"
  <2>1. CanCall(t)
    BY DEF NewCall, Socket, Bind, Listen, Accept, Connect, Shutdown, Close,
           Reserve, ReleaseRaw
  <2> QED BY <2>1 DEF CanCall, Idle
<1>2. Refused \/ FreeSocks = {} \/ Unarmed = {}
  BY <1>1, NothingPends
<1>3. UNCHANGED syn
  BY DEF NewCall, Socket, Bind, Listen, Accept, Connect, Shutdown, Close,
         Reserve, ReleaseRaw
<1>4. \A s \in Socks : sr[s] \in Live => owner[s] \in Descs /\ sn[owner[s]] = s
  BY <1>0 DEF LiveOwned, TypeOK, Ownership
<1>k. ASSUME NEW k, Goto(t, k), Knows(k, sr')
      PROVE  \A u \in Tasks : Knows(task'[u], sr')
  BY <1>0, <1>1, <1>k, KnowsFrame
<1>i. ASSUME task' = task PROVE Goto(t, Idle) /\ Knows(Idle, sr')
  BY <1>0, <1>1, <1>i DEF Goto, TypeOK, Knows, Idle
<1>s. ASSUME UNCHANGED <<used, sn, listening, owner>> PROVE Repaired'
  BY <1>2, <1>3, <1>s, StillRepaired DEF FreeSocks, Unarmed, Refused
(* Sockets that change status belong to opened descriptors, and are a       *)
(* client's call only for a descriptor that does not listen.                *)
<1>o. ASSUME NEW fd \in Descs, NEW x, Ready(fd), UNCHANGED <<sn, listening, owner>>,
             sr' = [sr EXCEPT ![sn[fd]] = x],
             \/ opened' = opened \cup {fd}
             \/ x \notin Live /\ opened' = opened,
             x # "SYNSENT" \/ fd \notin listening
      PROVE  LiveOwned'
  <2>1. sn[fd] \in Socks /\ owner[sn[fd]] = fd
    BY <1>0, <1>o DEF Ready, TypeOK, Ownership
  <2>2. \A s \in Socks : sr'[s] = IF s = sn[fd] THEN x ELSE sr[s]
    BY <1>0, <1>o DEF TypeOK
  <2>3. \A g \in listening : sn[g] # NONE => sn[g] \in Socks
    BY <1>0 DEF TypeOK
  <2>4. \A g \in listening : sn[g] = sn[fd] => g = fd
    BY <1>0, <1>o, <2>1, <2>3 DEF Ownership, TypeOK, Ready
  <2> QED BY <1>0, <1>o, <2>1, <2>2, <2>3, <2>4 DEF LiveOwned
<1>d. ASSUME NEW fd \in Descs, NEW call, NEW next, Ready(fd),
             next.pc \notin {"open", "listen", "release"},
             Disconnect(t, fd, call, next), UNCHANGED <<descVars, owner>>
      PROVE  LiveOwned' /\ (\A u \in Tasks : Knows(task'[u], sr'))
  <2>1. CASE Goto(t, next) /\ UNCHANGED sr
    BY <1>0, <1>d, <1>k, <2>1 DEF Knows, LiveOwned, descVars
  <2>2. CASE /\ sr' = [sr EXCEPT ![sn[fd]] = "CLOSING"]
             /\ Goto(t, In("discon", call, fd, sn[fd]))
    BY <1>d, <1>k, <1>o, <2>2 DEF Knows, In, Live, CanAccept, descVars
  <2> QED BY <1>d, <2>1, <2>2 DEF Disconnect
<1>5. ASSUME NEW isUdp \in BOOLEAN, Socket(t, isUdp)
      PROVE  LiveOwned' /\ (\A u \in Tasks : Knows(task'[u], sr')) /\ Repaired'
  <2>1. \A u \in Tasks : Knows(task'[u], sr')
    BY <1>5, <1>i, <1>k DEF Socket
  <2>2. PICK fd \in Descs \ used :
          \/ \E s \in FreeSocks :
                /\ owner' = [owner EXCEPT ![s] = fd]
                /\ used' = used \cup {fd}
                /\ sn' = [sn EXCEPT ![fd] = s]
                /\ opened' = opened \ {fd}
                /\ listening' = listening \ {fd}
          \/ DescClear(fd) /\ UNCHANGED owner
    BY <1>5 DEF Socket, Lowest, Unused
  <2>3. sr' = sr
    BY <1>5 DEF Socket, chipVars
  <2>4. sn[fd] = NONE /\ \A s \in Socks : owner[s] # fd
    BY <1>0, <2>2, Constants DEF Ownership
  <2>5. CASE DescClear(fd) /\ UNCHANGED owner
    <3>1. sn' = sn
      BY <1>0, <2>4, <2>5 DEF DescClear, TypeOK
    <3>2. LiveOwned'
      BY <1>0, <2>3, <2>4, <2>5, <3>1 DEF DescClear, LiveOwned
    <3>3. Unarmed' \subseteq Unarmed /\ FreeSocks' = FreeSocks
      BY <2>5, <3>1 DEF DescClear, Unarmed, FreeSocks
    <3> QED BY <1>2, <1>3, <2>1, <3>2, <3>3, StillRepaired DEF Refused
  <2>6. ASSUME NEW s \in FreeSocks,
               owner' = [owner EXCEPT ![s] = fd],
               used' = used \cup {fd}, sn' = [sn EXCEPT ![fd] = s],
               opened' = opened \ {fd}, listening' = listening \ {fd}
        PROVE  LiveOwned' /\ Repaired'
    <3>1. /\ s \in Socks /\ sr[s] \notin Live
          /\ \A r \in Socks : owner'[r] = IF r = s THEN fd ELSE owner[r]
          /\ \A g \in Descs : sn'[g] = IF g = fd THEN s ELSE sn[g]
      BY <1>0, <1>4, <2>6, Constants DEF FreeSocks, TypeOK
    <3>2. LiveOwned'
      BY <1>0, <2>3, <2>4, <2>6, <3>1 DEF LiveOwned, TypeOK
    <3>3. FreeSocks' \subseteq FreeSocks
      BY <3>1, Constants DEF FreeSocks
    <3>4. Unarmed' \subseteq Unarmed
      BY <1>0, <2>6, <3>1 DEF Unarmed, TypeOK
    <3> QED BY <1>2, <1>3, <3>2, <3>3, <3>4, StillRepaired DEF Refused
  <2> QED BY <2>1, <2>2, <2>5, <2>6
<1>6. ASSUME NEW fd \in Descs, Bind(t, fd) \/ Connect(t, fd)
      PROVE  LiveOwned' /\ (\A u \in Tasks : Knows(task'[u], sr')) /\ Repaired'
  <2>1. /\ Ready(fd) /\ fd \notin listening /\ opened' = opened \cup {fd}
        /\ UNCHANGED <<used, sn, listening, owner>>
        /\ \E x \in {"UDP", "SYNSENT"} : sr' = [sr EXCEPT ![sn[fd]] = x]
    BY <1>6 DEF Bind, Connect, Plain, ChipSet
  <2>2. LiveOwned'
    BY <1>o, <2>1
  <2>3. task' = task \/ Goto(t, In("connecting", "connect", fd, sn[fd]))
    BY <1>6 DEF Bind, Connect
  <2>4. Knows(In("connecting", "connect", fd, sn[fd]), sr')
    BY DEF Knows, In
  <2> QED BY <1>i, <1>k, <1>s, <2>1, <2>2, <2>3, <2>4
<1>7. ASSUME NEW fd \in Descs, Listen(t, fd)
      PROVE  LiveOwned' /\ (\A u \in Tasks : Knows(task'[u], sr')) /\ Repaired'
  <2>1. /\ sn[fd] \in Socks /\ owner[sn[fd]] = fd /\ fd \notin opened
        /\ listening' = listening \cup {fd}
        /\ UNCHANGED <<used, sn, opened, owner, sr>>
    BY <1>0, <1>7 DEF Listen, Plain, Ready, TypeOK, Ownership, chipVars
  <2>2. sr[sn[fd]] \notin Live
    BY <1>0, <2>1 DEF LiveOwned
  <2>3. LiveOwned'
    BY <1>0, <2>1, <2>2 DEF LiveOwned, Live
  <2>4. Knows(In("open", "listen", fd, sn[fd]), sr')
    BY <2>1, <2>2 DEF Knows, In
  <2>5. Unarmed' \subseteq Unarmed /\ FreeSocks' = FreeSocks
    BY <2>1, Constants DEF Unarmed, FreeSocks
  <2> QED BY <1>2, <1>3, <1>7, <1>k, <2>3, <2>4, <2>5, StillRepaired
          DEF Listen, Refused
<1>8. ASSUME NEW fd \in Descs, Accept(t, fd)
      PROVE  LiveOwned' /\ (\A u \in Tasks : Knows(task'[u], sr')) /\ Repaired'
  <2>1. PICK call \in Accepting : Goto(t, In("poll", call, fd, NONE))
    BY <1>8 DEF Accept
  <2>2. Knows(In("poll", call, fd, NONE), sr')
    BY DEF Knows, In
  <2> QED BY <1>0, <1>8, <1>k, <1>s, <2>1, <2>2
          DEF Accept, descVars, chipVars, LiveOwned
<1>9. ASSUME NEW fd \in Descs, Shutdown(t, fd)
      PROVE  LiveOwned' /\ (\A u \in Tasks : Knows(task'[u], sr')) /\ Repaired'
  BY <1>9, <1>d, <1>s DEF Shutdown, Idle, descVars
<1>10. ASSUME NEW fd \in Descs, Close(t, fd)
       PROVE  LiveOwned' /\ (\A u \in Tasks : Knows(task'[u], sr')) /\ Repaired'
  <2> DEFINE next == In("close", "close", fd, sn[fd])
  <2>1. next.pc = "close" /\ Knows(next, sr') /\ Knows(RearmAll, sr')
    BY DEF In, Knows, RearmAll
  <2>2. CASE sn[fd] = NONE
    <3>1. DescClear(fd) /\ UNCHANGED <<owner, sr>> /\ Goto(t, RearmAll)
      BY <1>10, <2>2 DEF Close
    <3>2. sn' = sn /\ \A s \in Socks : owner[s] # fd
      BY <1>0, <2>2, <3>1, Constants DEF DescClear, TypeOK, Ownership
    <3>3. LiveOwned'
      BY <1>0, <3>1, <3>2 DEF DescClear, LiveOwned
    <3>4. Unarmed' \subseteq Unarmed /\ FreeSocks' = FreeSocks
      BY <3>1, <3>2 DEF DescClear, Unarmed, FreeSocks
    <3> QED BY <1>2, <1>3, <1>k, <2>1, <3>1, <3>3, <3>4, StillRepaired
            DEF Refused
  <2>3. CASE sn[fd] # NONE
    <3>1. Ready(fd) /\ UNCHANGED <<descVars, owner>>
          /\ \/ Goto(t, next) /\ UNCHANGED sr
             \/ Disconnect(t, fd, "close", next)
      BY <1>10, <2>3 DEF Close, Ready
    <3>2. LiveOwned' /\ \A u \in Tasks : Knows(task'[u], sr')
      BY <1>0, <1>d, <1>k, <2>1, <3>1 DEF LiveOwned, descVars
    <3> QED BY <1>s, <3>1, <3>2 DEF descVars
  <2> QED BY <2>2, <2>3
<1>11. ASSUME Reserve(t)
       PROVE  LiveOwned' /\ (\A u \in Tasks : Knows(task'[u], sr')) /\ Repaired'
  <2>1. PICK s \in FreeSocks : owner' = [owner EXCEPT ![s] = TOE_SN_RAW]
    BY <1>11 DEF Reserve, Lowest
  <2>2. UNCHANGED <<used, sn, opened, listening, sr, task>>
    BY <1>11 DEF Reserve, descVars, chipVars
  <2>3. /\ s \in Socks /\ owner[s] = TOE_SN_FREE
        /\ \A r \in Socks : owner'[r] = IF r = s THEN TOE_SN_RAW ELSE owner[r]
    BY <1>0, <2>1 DEF FreeSocks, TypeOK
  <2>4. LiveOwned'
    BY <1>0, <1>4, <2>2, <2>3, Constants DEF LiveOwned
  <2>5. FreeSocks' \subseteq FreeSocks /\ Unarmed' = Unarmed
    BY <2>2, <2>3, Constants DEF FreeSocks, Unarmed
  <2> QED BY <1>2, <1>3, <1>i, <1>k, <2>2, <2>4, <2>5, StillRepaired DEF Refused
<1>12. ASSUME NEW s \in Socks, ReleaseRaw(t, s)
       PROVE  LiveOwned' /\ (\A u \in Tasks : Knows(task'[u], sr')) /\ Repaired'
  <2>1. Knows(In("close", "raw", NONE, s), sr')
    BY DEF Knows, In
  <2> QED BY <1>0, <1>12, <1>k, <1>s, <2>1
          DEF ReleaseRaw, descVars, chipVars, LiveOwned
<1> QED BY <1>5, <1>6, <1>7, <1>8, <1>9, <1>10, <1>11, <1>12 DEF NewCall

(* A step of the call task t is in *)
LEMMA LiveStep ==
    ASSUME Serial, SockInv, NEW t \in Tasks, Step(t)
    PROVE  LiveOwned' /\ (\A u \in Tasks : Knows(task'[u], sr')) /\ Repaired'
<1>0. /\ OwnInv /\ TypeOK /\ Ownership /\ LiveOwned
      /\ Knows(task[t], sr) /\ task[t] \in Place
      /\ Fits(task[t], used, listening, sn, owner)
  BY DEF SockInv, OwnInv, TypeInv, TypeOK, Place
<1>1. MayRun(t)
  BY DEF Step, Open, ListenOk, ListenFail, PollUnarmed, PollArmed,
         EstablishedNoDesc, Established, ConnectReturns, DisconnectReturns,
         CloseChip, Release, RearmNext, RearmDone, At
<1>2. task[t].call # "rearm" => Refused \/ FreeSocks = {} \/ Unarmed = {}
  BY <1>1, NothingPends
<1>3. Refused => Refused'
  <2>1. UNCHANGED syn \/ \E c \in Clients : syn' = [syn EXCEPT ![c] = "lost"]
    BY DEF Step, Open, ListenOk, ListenFail, PollUnarmed, PollArmed,
           EstablishedNoDesc, Established, ConnectReturns, DisconnectReturns,
           CloseChip, Release, RearmNext, RearmDone
  <2> QED BY <1>0, <2>1 DEF Refused, TypeOK
<1>4. \A s \in Socks : sr[s] \in Live => owner[s] \in Descs /\ sn[owner[s]] = s
  BY <1>0 DEF LiveOwned, TypeOK, Ownership
<1>k. ASSUME NEW k, Goto(t, k), Knows(k, sr')
      PROVE  \A u \in Tasks : Knows(task'[u], sr')
  BY <1>0, <1>1, <1>k, KnowsFrame
<1>q. ASSUME NEW k, Goto(t, k), k.pc \notin {"open", "listen", "release"}
      PROVE  \A u \in Tasks : Knows(task'[u], sr')
  BY <1>k, <1>q DEF Knows
<1>s. ASSUME UNCHANGED <<used, sn, listening, owner>>, task[t].call # "rearm"
      PROVE  Repaired'
  BY <1>2, <1>3, <1>s, StillRepaired DEF FreeSocks, Unarmed
(* A re-arming that goes on, or has nothing left to do, with the tables as  *)
(* they are                                                                *)
<1>r. ASSUME UNCHANGED <<used, sn, listening, owner>>,
             NEW k, Goto(t, k), k.call = "rearm",
             k.pc \in {"rearm", "open", "listen"}, k.todo = task[t].todo,
             task[t].call = "rearm", task[t].pc \in {"rearm", "open", "listen"}
      PROVE  Repaired'
  <2>1. /\ Unarmed' = Unarmed /\ FreeSocks' = FreeSocks
        /\ \A u \in Tasks : task'[u] = IF u = t THEN k ELSE task[u]
    BY <1>0, <1>r DEF Unarmed, FreeSocks, Goto, TypeOK
  <2>2. \A u \in Tasks : Rearms(task[u], Unarmed) => Rearms(task'[u], Unarmed')
    BY <1>r, <2>1 DEF Rearms
  <2> QED BY <1>3, <2>1, <2>2 DEF SockInv, Repaired
<1>c. UNCHANGED <<sn, opened, listening, owner, sr>> => LiveOwned'
  BY <1>0 DEF LiveOwned
(* A return from toe_listener_reopen() *)
<1>p. ASSUME UNCHANGED <<used, sn, listening, owner>>,
             task[t].pc \in {"open", "listen"}, Resume(t, AfterReopen(t))
      PROVE  (\A u \in Tasks : Knows(task'[u], sr')) /\ Repaired'
  <2>1. PICK place \in AfterReopen(t) : Goto(t, place)
    BY <1>p DEF Resume
  <2>2. /\ place.pc \in {"poll", "idle", "rearm"}
        /\ task[t].call = "rearm" => place.pc = "rearm" /\ place.call = "rearm"
                                     /\ place.todo = task[t].todo
    BY <1>0, Returns
  <2>3. \A u \in Tasks : Knows(task'[u], sr')
    BY <1>q, <2>1, <2>2
  <2>4. CASE task[t].call = "rearm"
    BY <1>p, <1>r, <2>1, <2>2, <2>3, <2>4
  <2>5. CASE task[t].call # "rearm"
    BY <1>p, <1>s, <2>3, <2>5
  <2> QED BY <2>4, <2>5
(* toe_listener_rearm() with a free socket, which no client can be on *)
<1>m. ASSUME NEW fd \in Descs, NEW call, NEW todo, Rearm(t, fd, call, todo),
             sn[fd] = NONE, UNCHANGED <<opened, listening, sr>>
      PROVE  /\ LiveOwned' /\ (\A u \in Tasks : Knows(task'[u], sr'))
             /\ FreeSocks # {}
             /\ \A g \in Descs : g # fd => sn'[g] = sn[g]
             /\ sn'[fd] # NONE
             /\ Goto(t, [In("open", call, fd, sn'[fd]) EXCEPT !.todo = todo])
  <2>1. PICK s \in FreeSocks :
          /\ owner' = [owner EXCEPT ![s] = fd] /\ sn' = [sn EXCEPT ![fd] = s]
          /\ Goto(t, [In("open", call, fd, s) EXCEPT !.todo = todo])
    BY <1>m DEF Rearm, Lowest
  <2>2. /\ s \in Socks /\ sr[s] \notin Live
        /\ \A r \in Socks : owner'[r] = IF r = s THEN fd ELSE owner[r]
        /\ \A g \in Descs : sn'[g] = IF g = fd THEN s ELSE sn[g]
    BY <1>0, <1>4, <2>1, Constants DEF FreeSocks, TypeOK
  <2>3. LiveOwned'
    BY <1>0, <1>m, <2>2 DEF LiveOwned, Live, TypeOK
  <2> DEFINE k == [In("open", call, fd, s) EXCEPT !.todo = todo]
  <2>4. k.pc = "open" /\ k.sn = s
    BY DEF In
  <2>5. Knows(k, sr')
    BY <1>m, <2>2, <2>4 DEF Knows
  <2>6. sn'[fd] = s /\ s # NONE
    BY <2>2, Constants
  <2> QED BY <1>k, <2>1, <2>2, <2>3, <2>5, <2>6
<1>5. ASSUME Open(t)
      PROVE  LiveOwned' /\ (\A u \in Tasks : Knows(task'[u], sr')) /\ Repaired'
  <2> DEFINE fd == task[t].fd
             s  == task[t].sn
             k  == [task[t] EXCEPT !.pc = "listen"]
  <2>1. /\ fd \in used \cap listening /\ fd \in Descs /\ s \in Socks /\ sn[fd] = s
        /\ owner[s] = fd /\ sr[s] \notin Live
        /\ UNCHANGED <<used, sn, listening, owner>>
    <3>1. /\ fd \in used \cap listening /\ fd \in Descs /\ s \in Socks
          /\ sn[fd] = s /\ sr[s] \notin Live
      BY <1>0, <1>5 DEF Open, At, Fits, Knows, TypeOK
    <3> QED BY <1>0, <1>5, <3>1, Constants DEF Open, Ownership
  <2>2. /\ k.pc = "listen" /\ k.sn = s /\ k.call = task[t].call
        /\ k.todo = task[t].todo
    BY <1>0 DEF Place
  <2>3. CASE opened' = opened \ {fd} /\ UNCHANGED sr /\ Resume(t, AfterReopen(t))
    <3>1. LiveOwned'
      BY <1>0, <1>4, <2>1, <2>3 DEF LiveOwned
    <3> QED BY <1>5, <1>p, <2>1, <2>3, <3>1 DEF Open, At
  <2>4. CASE ChipSet(s, "INIT") /\ opened' = opened \cup {fd} /\ Goto(t, k)
    <3>1. \A r \in Socks : sr'[r] = IF r = s THEN "INIT" ELSE sr[r]
      BY <1>0, <2>4 DEF ChipSet, TypeOK
    <3>2. LiveOwned'
      BY <1>0, <2>1, <2>4, <3>1 DEF LiveOwned, TypeOK
    <3>3. \A u \in Tasks : Knows(task'[u], sr')
      BY <1>k, <2>1, <2>2, <2>4, <3>1 DEF Knows
    <3>4. Repaired'
      BY <1>r, <1>s, <1>5, <2>1, <2>2, <2>4 DEF Open, At
    <3> QED BY <3>2, <3>3, <3>4
  <2> QED BY <1>5, <2>3, <2>4 DEF Open, chipVars
<1>6. ASSUME ListenOk(t)
      PROVE  LiveOwned' /\ (\A u \in Tasks : Knows(task'[u], sr')) /\ Repaired'
  <2> DEFINE s == task[t].sn
  <2>1. s \in Socks /\ sr[s] = "INIT" /\ task[t].pc = "listen"
    BY <1>0, <1>6 DEF ListenOk, At, Fits
  <2>2. UNCHANGED <<used, sn, listening, owner, opened>>
        /\ Resume(t, AfterReopen(t))
    BY <1>6 DEF ListenOk, descVars
  <2>3. \A r \in Socks : sr'[r] = IF r = s THEN "LISTEN" ELSE sr[r]
    BY <1>0, <1>6 DEF ListenOk, TypeOK
  <2>4. LiveOwned'
    BY <1>0, <2>1, <2>2, <2>3 DEF LiveOwned, Live, TypeOK
  <2> QED BY <1>p, <2>1, <2>2, <2>4
<1>7. ASSUME ListenFail(t)
      PROVE  LiveOwned' /\ (\A u \in Tasks : Knows(task'[u], sr')) /\ Repaired'
  <2> DEFINE fd == task[t].fd
             s  == task[t].sn
  <2>1. /\ fd \in Descs /\ s \in Socks /\ sr[s] = "INIT" /\ sn[fd] = s
        /\ task[t].pc = "listen"
    BY <1>0, <1>7 DEF ListenFail, At, Fits, Knows, TypeOK
  <2>2. /\ ChipSet(s, "CLOSED") /\ Resume(t, AfterReopen(t))
        /\ \E c \in Clients : syn' = [syn EXCEPT ![c] = "lost"]
        /\ \/ listening' = listening \ {fd} /\ UNCHANGED <<owner, sn, opened>>
           \/ Disarm(fd) /\ UNCHANGED listening
    BY <1>7, <2>1 DEF ListenFail
  <2>3. Repaired'
    BY <1>0, <2>2 DEF Repaired, Refused, TypeOK
  <2>4. \A r \in Socks : sr'[r] = IF r = s THEN "CLOSED" ELSE sr[r]
    BY <1>0, <2>2 DEF ChipSet, TypeOK
  <2>5. PICK place \in AfterReopen(t) : Goto(t, place)
    BY <2>2 DEF Resume
  <2>6. \A u \in Tasks : Knows(task'[u], sr')
    BY <1>0, <1>q, <2>5, Returns
  <2>7. CASE listening' = listening \ {fd} /\ UNCHANGED <<owner, sn, opened>>
    BY <1>0, <2>3, <2>4, <2>6, <2>7 DEF LiveOwned, Live, CanAccept, TypeOK
  <2>8. CASE Disarm(fd) /\ UNCHANGED listening
    <3>1. /\ \A r \in Socks \ {s} : owner'[r] = owner[r]
          /\ \A g \in Descs : sn'[g] = IF g = fd THEN NONE ELSE sn[g]
          /\ opened' = opened \ {fd}
      BY <1>0, <2>1, <2>8 DEF Disarm, TypeOK
    <3>2. \A r \in Socks \ {s} : sr[r] \in Live => owner[r] \in opened \ {fd}
      BY <1>0, <1>4, <2>1 DEF LiveOwned
    <3>3. LiveOwned'
      BY <1>0, <2>1, <2>4, <2>8, <3>1, <3>2
         DEF LiveOwned, Live, CanAccept, TypeOK
    <3> QED BY <2>3, <2>6, <3>3
  <2> QED BY <2>2, <2>7, <2>8
<1>8. ASSUME PollUnarmed(t)
      PROVE  LiveOwned' /\ (\A u \in Tasks : Knows(task'[u], sr')) /\ Repaired'
  <2> DEFINE fd == task[t].fd
  <2>1. /\ fd \in Descs /\ fd \in used \cap listening /\ sn[fd] = NONE
        /\ task[t].call # "rearm"
        /\ UNCHANGED <<used, opened, listening, sr>>
    BY <1>0, <1>8 DEF PollUnarmed, At, Fits, TypeOK, Accepting, chipVars
  <2>2. CASE Rearm(t, fd, task[t].call, {})
    <3>1. LiveOwned' /\ (\A u \in Tasks : Knows(task'[u], sr')) /\ FreeSocks # {}
      BY <1>m, <2>1, <2>2
    <3>2. Repaired'
      BY <1>2, <1>3, <2>1, <3>1 DEF Unarmed, Repaired
    <3> QED BY <3>1, <3>2
  <2>3. CASE Resume(t, AfterTurn(t)) /\ UNCHANGED <<owner, sn>>
    <3>1. PICK place \in AfterTurn(t) : Goto(t, place)
      BY <2>3 DEF Resume
    <3>2. place.pc \in {"poll", "idle"}
      BY <1>0, Returns
    <3> QED BY <1>c, <1>q, <1>s, <2>1, <2>3, <3>1, <3>2
  <2> QED BY <1>8, <2>2, <2>3 DEF PollUnarmed
<1>9. ASSUME PollArmed(t)
      PROVE  LiveOwned' /\ (\A u \in Tasks : Knows(task'[u], sr')) /\ Repaired'
  <2> DEFINE fd == task[t].fd
             s  == sn[fd]
  <2>1. /\ fd \in Descs /\ fd \in listening /\ s # NONE
        /\ task[t].call # "rearm"
        /\ UNCHANGED <<used, sn, opened, listening, owner, sr>>
    BY <1>0, <1>9 DEF PollArmed, At, Fits, TypeOK, Accepting, chipVars, descVars
  <2>2. LiveOwned' /\ Repaired'
    BY <1>c, <1>s, <2>1
  <2>3. sr[s] \notin Connected \cup Armed \cup {"INIT"} => sr[s] \notin Live
    BY <1>0, <2>1 DEF LiveOwned, Live, CanAccept, Connected, Armed
  <2>4. PICK k : /\ Goto(t, k)
                 /\ \/ k = In("established", task[t].call, fd, s)
                    \/ k \in AfterTurn(t)
                    \/ k = In("listen", task[t].call, fd, s) /\ sr[s] = "INIT"
                    \/ k = In("open", task[t].call, fd, s) /\ sr[s] \notin Live
    BY <1>9, <2>3 DEF PollArmed, Resume
  <2>5. Knows(k, sr')
    BY <1>0, <2>1, <2>4, Returns DEF Knows, In
  <2> QED BY <1>k, <2>2, <2>4, <2>5
<1>10. ASSUME EstablishedNoDesc(t) \/ ConnectReturns(t) \/ DisconnectReturns(t)
       PROVE  LiveOwned' /\ (\A u \in Tasks : Knows(task'[u], sr')) /\ Repaired'
  <2>1. UNCHANGED <<used, sn, opened, listening, owner, sr>>
        /\ task[t].pc \in {"established", "connecting", "discon"}
    BY <1>10 DEF EstablishedNoDesc, ConnectReturns, DisconnectReturns, At,
                 descVars, chipVars
  <2>2. Goto(t, Idle) \/ Goto(t, [task[t] EXCEPT !.pc = "close"])
    BY <1>10 DEF EstablishedNoDesc, ConnectReturns, DisconnectReturns
  <2>3. Idle.pc = "idle" /\ [task[t] EXCEPT !.pc = "close"].pc = "close"
    BY <1>0 DEF Idle, Place
  <2>4. Refused \/ FreeSocks = {} \/ Unarmed = {}
    BY <1>1, <2>1, NothingPends
  <2>5. Repaired'
    BY <1>3, <2>1, <2>4, StillRepaired DEF FreeSocks, Unarmed
  <2> QED BY <1>c, <1>q, <2>1, <2>2, <2>3, <2>5
<1>11. ASSUME Established(t)
       PROVE  LiveOwned' /\ (\A u \in Tasks : Knows(task'[u], sr')) /\ Repaired'
  <2> DEFINE fd == task[t].fd
             s  == sn[fd]
  <2>1. /\ fd \in Descs /\ fd \in used \cap listening /\ s \in Socks
        /\ owner[s] = fd /\ task[t].call # "rearm"
    <3>1. /\ fd \in Descs /\ fd \in used \cap listening /\ s \in Socks
          /\ task[t].call # "rearm"
      BY <1>0, <1>11 DEF Established, At, Fits, TypeOK, Accepting
    <3> QED BY <1>0, <3>1, Constants DEF Ownership
  <2>2. s # NONE /\ s \notin FreeSocks /\ FreeSocks \ {s} = FreeSocks
    BY <2>1, Constants DEF FreeSocks
  <2>3. PICK cfd \in Descs \ used :
          /\ used' = used \cup {cfd} /\ listening' = listening \ {cfd}
          /\ opened' = (opened \cup {cfd}) \ {fd} /\ UNCHANGED sr
          /\ \/ /\ FreeSocks = {} /\ owner' = [owner EXCEPT ![s] = cfd]
                /\ sn' = HandOver(fd, cfd) /\ Goto(t, Idle)
             \/ \E n \in FreeSocks :
                  /\ owner' = [[owner EXCEPT ![s] = cfd] EXCEPT ![n] = fd]
                  /\ sn' = [HandOver(fd, cfd) EXCEPT ![fd] = n]
                  /\ Goto(t, In("open", "accepted", fd, n))
    <3>1. PICK cfd \in Descs :
            /\ Lowest(cfd, Unused)
            /\ used' = used \cup {cfd} /\ listening' = listening \ {cfd}
            /\ opened' = (opened \cup {cfd}) \ {fd}
            /\ \/ /\ FreeSocks \ {s} = {} /\ owner' = [owner EXCEPT ![s] = cfd]
                  /\ sn' = HandOver(fd, cfd) /\ Goto(t, Idle)
               \/ \E n \in Socks :
                    /\ Lowest(n, FreeSocks \ {s})
                    /\ owner' = [[owner EXCEPT ![s] = cfd] EXCEPT ![n] = fd]
                    /\ sn' = [HandOver(fd, cfd) EXCEPT ![fd] = n]
                    /\ Goto(t, In("open", "accepted", fd, n))
      BY <1>11, <2>2 DEF Established
    <3>2. cfd \in Descs \ used /\ UNCHANGED sr
      BY <1>11, <3>1 DEF Established, Lowest, Unused, chipVars
    <3> QED BY <2>2, <3>1, <3>2 DEF Lowest
  <2>4. cfd # fd /\ sn[cfd] = NONE
    BY <1>0, <2>1, <2>3 DEF Ownership
  <2>5. \A r \in Socks \ {s} : sr[r] \in Live => owner[r] \in opened \ {fd}
    BY <1>0, <1>4, <2>1 DEF LiveOwned
  <2>6. CASE /\ FreeSocks = {} /\ owner' = [owner EXCEPT ![s] = cfd]
             /\ sn' = HandOver(fd, cfd) /\ Goto(t, Idle)
    <3>1. /\ \A r \in Socks : owner'[r] = IF r = s THEN cfd ELSE owner[r]
          /\ \A g \in Descs : sn'[g] = IF g = fd THEN NONE
                                       ELSE IF g = cfd THEN s ELSE sn[g]
      BY <1>0, <2>1, <2>4, <2>6 DEF HandOver, TypeOK
    <3>2. LiveOwned'
      BY <1>0, <2>3, <2>4, <2>5, <3>1 DEF LiveOwned, TypeOK
    <3>3. FreeSocks' = {}
      BY <2>3, <2>6, <3>1, Constants DEF FreeSocks
    <3>4. Idle.pc = "idle"
      BY DEF Idle
    <3>5. \A u \in Tasks : Knows(task'[u], sr')
      BY <1>q, <2>6, <3>4
    <3> QED BY <3>2, <3>3, <3>5 DEF Repaired
  <2>7. ASSUME NEW n \in FreeSocks,
               owner' = [[owner EXCEPT ![s] = cfd] EXCEPT ![n] = fd],
               sn' = [HandOver(fd, cfd) EXCEPT ![fd] = n],
               Goto(t, In("open", "accepted", fd, n))
        PROVE  LiveOwned' /\ (\A u \in Tasks : Knows(task'[u], sr')) /\ Repaired'
    <3>1. n \in Socks /\ n # s /\ sr[n] \notin Live
      BY <1>4, <2>2, Constants DEF FreeSocks
    <3>2. /\ \A r \in Socks : owner'[r] = IF r = n THEN fd
                                          ELSE IF r = s THEN cfd ELSE owner[r]
          /\ \A g \in Descs : sn'[g] = IF g = fd THEN n
                                       ELSE IF g = cfd THEN s ELSE sn[g]
      BY <1>0, <2>1, <2>4, <2>7, <3>1 DEF HandOver, TypeOK
    <3>3. LiveOwned'
      <4>1. ASSUME NEW r \in Socks, sr'[r] \in Live PROVE owner'[r] \in opened'
        BY <2>3, <2>4, <2>5, <3>1, <3>2, <4>1
      <4>2. ASSUME NEW g \in listening', sn'[g] # NONE
            PROVE  sr'[sn'[g]] # "SYNSENT"
        <5>1. g \in listening /\ g # cfd /\ g \in Descs
          BY <1>0, <2>3 DEF TypeOK
        <5>2. sr[n] # "SYNSENT"
          BY <3>1 DEF Live
        <5> QED BY <1>0, <2>3, <3>2, <4>2, <5>1, <5>2 DEF LiveOwned
      <4> QED BY <4>1, <4>2 DEF LiveOwned
    <3>4. Knows(In("open", "accepted", fd, n), sr')
      BY <2>3, <3>1 DEF Knows, In
    <3>5. Unarmed' \subseteq Unarmed
      <4> SUFFICES ASSUME NEW g \in Unarmed' PROVE g \in Unarmed
        OBVIOUS
      <4>1. /\ g \in (used \cup {cfd}) \cap (listening \ {cfd}) /\ g \in Descs
            /\ sn'[g] = NONE
        BY <1>0, <2>3 DEF Unarmed, TypeOK
      <4>2. g # fd
        BY <3>1, <3>2, <4>1, Constants
      <4> QED BY <3>2, <4>1, <4>2 DEF Unarmed
    <3>6. FreeSocks' \subseteq FreeSocks
      <4> SUFFICES ASSUME NEW r \in Socks, owner'[r] = TOE_SN_FREE
                   PROVE  owner[r] = TOE_SN_FREE
        BY DEF FreeSocks
      <4> QED BY <2>1, <2>3, <3>2, Constants
    <3>7. Repaired'
      BY <1>2, <1>3, <2>1, <3>5, <3>6, StillRepaired
    <3>8. \A u \in Tasks : Knows(task'[u], sr')
      BY <1>k, <2>7, <3>4
    <3> QED BY <3>3, <3>7, <3>8
  <2> QED BY <2>3, <2>6, <2>7
<1>12. ASSUME CloseChip(t)
       PROVE  LiveOwned' /\ (\A u \in Tasks : Knows(task'[u], sr')) /\ Repaired'
  <2> DEFINE fd == task[t].fd
             s  == task[t].sn
             k  == [task[t] EXCEPT !.pc = "release"]
  <2>1. /\ s \in Socks /\ task[t].call \in {"close", "raw"}
        /\ task[t].call = "close" => fd \in Descs /\ sn[fd] = s
    BY <1>0, <1>12 DEF CloseChip, At, Fits, TypeOK
  <2>2. /\ UNCHANGED <<used, sn, opened, listening, owner>>
        /\ Goto(t, k) /\ k.pc = "release" /\ k.sn = s
    BY <1>0, <1>12 DEF CloseChip, descVars, Place
  <2>3. CASE MustClose(t)
    <3>1. \A r \in Socks : sr'[r] = IF r = s THEN "CLOSED" ELSE sr[r]
      BY <1>0, <1>12, <2>3 DEF CloseChip, ChipSet, TypeOK
    <3>2. LiveOwned'
      BY <1>0, <2>2, <3>1 DEF LiveOwned, Live, CanAccept, TypeOK
    <3>3. Knows(k, sr')
      BY <2>1, <2>2, <3>1 DEF Knows, Live, CanAccept
    <3> QED BY <1>k, <1>s, <2>1, <2>2, <3>2, <3>3
  <2>4. CASE ~MustClose(t)
    <3>1. UNCHANGED sr /\ fd \notin opened /\ fd \in Descs /\ sn[fd] = s
      BY <1>12, <2>1, <2>4 DEF CloseChip, MustClose, chipVars
    <3>2. owner[s] = fd
      BY <1>0, <2>1, <3>1, Constants DEF Ownership
    <3>3. Knows(k, sr')
      BY <1>0, <2>1, <2>2, <3>1, <3>2 DEF Knows, LiveOwned
    <3> QED BY <1>c, <1>k, <1>s, <2>1, <2>2, <3>1, <3>3
  <2> QED BY <2>3, <2>4
<1>13. ASSUME Release(t)
       PROVE  LiveOwned' /\ (\A u \in Tasks : Knows(task'[u], sr')) /\ Repaired'
  <2> DEFINE fd == task[t].fd
             s  == task[t].sn
  <2>1. /\ s \in Socks /\ s # NONE /\ sr[s] \notin Live
        /\ task[t].call # "raw" => fd \in Descs /\ sn[fd] = s
    BY <1>0, <1>13, Constants DEF Release, At, Fits, Knows, TypeOK
  <2>2. /\ \A r \in Socks : owner'[r] = IF r = s THEN TOE_SN_FREE ELSE owner[r]
        /\ Goto(t, RearmAll) /\ UNCHANGED sr
    BY <1>0, <1>13, <2>1 DEF Release, TypeOK, chipVars
  <2>3. RearmAll.pc = "rearm" /\ RearmAll.call = "rearm" /\ RearmAll.todo = Descs
    BY DEF RearmAll, In
  <2>4. \A u \in Tasks : Knows(task'[u], sr')
    BY <1>q, <2>2, <2>3
  <2>5. used' \subseteq Descs /\ task'[t] = RearmAll
    BY <1>0, <1>13, <2>2 DEF Release, DescClear, TypeOK, Goto
  <2>6. Repaired'
    <3>1. Unarmed' \subseteq Descs
      BY <2>5 DEF Unarmed
    <3> QED BY <2>3, <2>5, <3>1 DEF Repaired, Rearms
  <2>7. CASE task[t].call = "raw"
    <3>1. UNCHANGED <<sn, opened, listening>>
      BY <1>13, <2>7 DEF Release
    <3>2. LiveOwned'
      BY <1>0, <2>1, <2>2, <3>1 DEF LiveOwned
    <3> QED BY <2>4, <2>6, <3>2
  <2>8. CASE task[t].call # "raw"
    <3>1. /\ \A g \in Descs : sn'[g] = IF g = fd THEN NONE ELSE sn[g]
          /\ opened' = opened \ {fd} /\ listening' = listening \ {fd}
      BY <1>0, <1>13, <2>1, <2>8 DEF Release, DescClear, TypeOK
    <3>2. \A r \in Socks \ {s} : sr[r] \in Live => owner[r] \in opened \ {fd}
      BY <1>0, <1>4, <2>1, <2>8 DEF LiveOwned
    <3>3. LiveOwned'
      BY <1>0, <2>1, <2>2, <3>1, <3>2 DEF LiveOwned, TypeOK
    <3> QED BY <2>4, <2>6, <3>3
  <2> QED BY <2>7, <2>8
(* What is pending is ahead of the task that re-arms. *)
<1>h. ASSUME task[t].pc = "rearm"
      PROVE  Refused \/ FreeSocks = {} \/ Unarmed \subseteq Pending(task[t].todo)
  <2>1. \A u \in Tasks \ {t} : task[u].call # "rearm"
    BY <1>0, <1>1, OthersYield
  <2>2. Refused \/ FreeSocks = {} \/ Unarmed = {} \/ Rearms(task[t], Unarmed)
    BY <2>1 DEF SockInv, Repaired, Rearms
  <2> QED BY <2>2 DEF Rearms, Unarmed, Pending
<1>14. ASSUME RearmNext(t)
       PROVE  LiveOwned' /\ (\A u \in Tasks : Knows(task'[u], sr')) /\ Repaired'
  <2>1. PICK fd \in Descs : /\ Lowest(fd, Pending(task[t].todo))
                            /\ Rearm(t, fd, "rearm", {d \in task[t].todo : d > fd})
    BY <1>14 DEF RearmNext
  <2> DEFINE later == {d \in task[t].todo : d > fd}
             k == [In("open", "rearm", fd, sn'[fd]) EXCEPT !.todo = later]
  <2>2. sn[fd] = NONE /\ UNCHANGED <<used, opened, listening, sr>>
        /\ task[t].pc = "rearm"
    BY <1>14, <2>1 DEF RearmNext, Lowest, Pending, chipVars, At
  <2>3. /\ LiveOwned' /\ (\A u \in Tasks : Knows(task'[u], sr'))
        /\ FreeSocks # {} /\ (\A g \in Descs : g # fd => sn'[g] = sn[g])
        /\ sn'[fd] # NONE /\ Goto(t, k)
    BY <1>m, <2>1, <2>2
  <2>4. Refused \/ Unarmed \subseteq Pending(task[t].todo)
    BY <1>h, <2>2, <2>3
  <2>5. Unarmed' \subseteq Unarmed \ {fd}
    BY <1>0, <2>2, <2>3 DEF Unarmed, TypeOK
  <2>6. \A g \in Pending(task[t].todo) : g # fd => g \in later
    <3> SUFFICES ASSUME NEW g \in Pending(task[t].todo), g # fd PROVE g \in later
      OBVIOUS
    <3>1. fd <= g /\ g \in task[t].todo /\ g \in Nat /\ fd \in Nat
      BY <1>0, <2>1, Constants DEF Lowest, Pending, Place
    <3> QED BY <3>1
  <2>7. k.call = "rearm" /\ k.pc = "open" /\ k.todo = later
    BY DEF In
  <2>8. task'[t] = k
    BY <1>0, <2>3 DEF Goto, TypeOK
  <2>9. Repaired'
    <3>1. CASE Refused
      BY <1>3, <3>1 DEF Repaired
    <3>2. CASE Unarmed \subseteq Pending(task[t].todo)
      <4>1. Unarmed' \subseteq later
        BY <2>5, <2>6, <3>2
      <4> HIDE DEF k, later
      <4>2. Rearms(task'[t], Unarmed')
        BY <2>7, <2>8, <4>1 DEF Rearms
      <4> QED BY <4>2 DEF Repaired
    <3> QED BY <2>4, <3>1, <3>2
  <2> QED BY <2>3, <2>9
<1>15. ASSUME RearmDone(t)
       PROVE  LiveOwned' /\ (\A u \in Tasks : Knows(task'[u], sr')) /\ Repaired'
  <2>1. /\ UNCHANGED <<used, sn, opened, listening, owner, sr>>
        /\ task[t].pc = "rearm" /\ Goto(t, Idle) /\ Idle.pc = "idle"
        /\ FreeSocks = {} \/ Pending(task[t].todo) = {}
    BY <1>15 DEF RearmDone, At, descVars, chipVars, Idle
  <2>2. Refused \/ FreeSocks = {} \/ Unarmed = {}
    BY <1>h, <2>1
  <2>3. Repaired'
    BY <1>3, <2>1, <2>2, StillRepaired DEF FreeSocks, Unarmed
  <2> QED BY <1>c, <1>q, <2>1, <2>3
<1> QED BY <1>5, <1>6, <1>7, <1>8, <1>9, <1>10, <1>11, <1>12, <1>13, <1>14,
           <1>15 DEF Step

-----------------------------------------------------------------------------
(* The chip brings a socket to life only from SYN_SENT or LISTEN, and none  *)
(* that a task knows of leaves SOCK_INIT by itself.                         *)
LEMMA LiveChip ==
    ASSUME SockInv, (\E s \in Socks : Chip(s)) \/ AddressChange
    PROVE  LiveOwned' /\ (\A u \in Tasks : Knows(task'[u], sr')) /\ Repaired'
<1>0. /\ OwnInv /\ TypeOK /\ LiveOwned /\ Repaired
      /\ \A u \in Tasks : Knows(task[u], sr)
  BY DEF SockInv, OwnInv, TypeInv
<1>1. UNCHANGED <<used, sn, opened, listening, owner, task>>
  BY DEF Chip, SynArrives, HandshakeDone, HandshakeFails, PeerFin, PeerReset,
         ClosingDone, Becomes, AddressChange, descVars
<1> DEFINE Moves == \A s \in Socks : sr'[s] # sr[s] =>
                       /\ sr[s] \in (Live \ {"INIT"}) \cup {"CLOSING"}
                       /\ sr'[s] \in Live => sr[s] \in Live
                       /\ sr'[s] # "SYNSENT"
<1>2. Moves /\ (Refused => Refused')
  <2>1. ASSUME NEW s \in Socks, NEW x, sr' = [sr EXCEPT ![s] = x],
               sr[s] \in (Live \ {"INIT"}) \cup {"CLOSING"},
               x \in Live => sr[s] \in Live, x # "SYNSENT"
        PROVE  Moves
    BY <1>0, <2>1 DEF TypeOK
  <2>2. CASE AddressChange
    BY <2>2 DEF AddressChange, chipVars, Refused
  <2>3. ASSUME NEW s \in Socks, NEW c \in Clients, SynArrives(c, s)
        PROVE  Moves /\ (Refused => Refused')
    BY <1>0, <2>1, <2>3 DEF SynArrives, Live, CanAccept, Refused, TypeOK
  <2>4. ASSUME NEW s \in Socks, NEW before, NEW x, Becomes(s, before, x),
               before \subseteq (Live \ {"INIT"}) \cup {"CLOSING"},
               x = "CLOSED" \/ (x \in Live /\ before \subseteq Live),
               x # "SYNSENT"
        PROVE  Moves /\ (Refused => Refused')
    BY <2>1, <2>4 DEF Becomes, Live, CanAccept, Refused
  <2>5. ASSUME NEW s \in Socks, \/ HandshakeDone(s) \/ HandshakeFails(s)
                                 \/ PeerFin(s) \/ PeerReset(s) \/ ClosingDone(s)
        PROVE  Moves /\ (Refused => Refused')
    <3> HIDE DEF Moves
    <3>1. CASE HandshakeDone(s) \/ PeerFin(s)
      BY <2>4, <3>1 DEF HandshakeDone, PeerFin, Live, CanAccept
    <3>2. CASE HandshakeFails(s)
      BY <2>4, <3>2 DEF HandshakeFails, Live, CanAccept
    <3>3. CASE PeerReset(s)
      BY <2>4, <3>3 DEF PeerReset, Live, CanAccept
    <3>4. CASE ClosingDone(s)
      <4>1. /\ sr[s] = "CLOSING" /\ sr' = [sr EXCEPT ![s] = "CLOSED"]
            /\ "CLOSED" \notin Live /\ syn' = syn
        BY <3>4 DEF ClosingDone, Becomes, Live, CanAccept
      <4>2. Moves
        BY <2>1, <4>1
      <4> QED BY <4>1, <4>2 DEF Refused
    <3> QED BY <2>5, <3>1, <3>2, <3>3, <3>4
  <2> HIDE DEF Moves
  <2> QED BY <2>2, <2>3, <2>5 DEF Chip
<1>3. LiveOwned'
  <2>1. \A fd \in listening : sn[fd] # NONE => sn[fd] \in Socks
    BY <1>0 DEF TypeOK
  <2> QED BY <1>0, <1>1, <1>2, <2>1 DEF LiveOwned
<1>4. ASSUME NEW u \in Tasks PROVE Knows(task'[u], sr')
  <2>1. /\ task[u].pc \in {"open", "listen", "release"} => task[u].sn \in Socks
        /\ Knows(task[u], sr)
    <3>1. Fits(task[u], used, listening, sn, owner)
      BY DEF SockInv, OwnInv
    <3> QED BY <1>0, <3>1 DEF Fits
  <2> QED BY <1>1, <1>2, <2>1 DEF Knows, Live, CanAccept
<1>5. Repaired'
  <2>1. Unarmed' = Unarmed /\ FreeSocks' = FreeSocks
    BY <1>1 DEF Unarmed, FreeSocks
  <2> QED BY <1>0, <1>1, <1>2, <2>1 DEF Repaired, Rearms
<1> QED BY <1>3, <1>4, <1>5

(* The invariant of the two theorems below *)
LEMMA SockInvariant ==
    ASSUME Serial
    PROVE  Spec => []SockInv
<1>1. Init => SockInv
  <2> SUFFICES ASSUME Init PROVE SockInv
    OBVIOUS
  <2>1. OwnInv
    BY AcceptInit DEF AcceptInv
  <2>2. LiveOwned /\ \A t \in Tasks : Knows(task[t], sr)
    BY DEF Init, LiveOwned, Live, CanAccept, Knows, Idle
  <2>3. Unarmed = {}
    BY DEF Init, Unarmed
  <2> QED BY <2>1, <2>2, <2>3 DEF SockInv, Repaired
<1>2. SockInv /\ [Next]_vars => SockInv'
  <2> SUFFICES ASSUME SockInv, [Next]_vars PROVE SockInv'
    OBVIOUS
  <2>1. CASE UNCHANGED vars
    <3>1. OwnInv'
      BY <2>1 DEF vars, SockInv, OwnInv, TypeInv, TypeOK, Ownership
    <3>2. /\ Unarmed' = Unarmed /\ FreeSocks' = FreeSocks /\ Refused' = Refused
          /\ UNCHANGED <<task, sr>>
      BY <2>1 DEF vars, Unarmed, FreeSocks, Refused
    <3>3. LiveOwned'
      BY <2>1 DEF vars, SockInv, LiveOwned
    <3>4. Repaired'
      BY <3>2 DEF SockInv, Repaired
    <3> QED BY <3>1, <3>2, <3>3, <3>4 DEF SockInv
  <2>2. CASE Next
    <3>1. OwnInv'
      BY <2>2, OwnNewCall, OwnStep, OwnChip DEF Next, SockInv
    <3>2. LiveOwned' /\ (\A u \in Tasks : Knows(task'[u], sr')) /\ Repaired'
      BY <2>2, LiveNewCall, LiveStep, LiveChip DEF Next
    <3> QED BY <3>1, <3>2 DEF SockInv
  <2> QED BY <2>1, <2>2
<1> QED BY <1>1, <1>2, PTL DEF Spec

(* Under the same conditions the chip never has, and can never take, a      *)
(* client's connection on a socket that no descriptor owns: whatever gives  *)
(* a socket up closed it first, or knows it to be dead.                     *)
THEOREM NoneUnowned ==
    ASSUME Serial
    PROVE  Spec => []NoUnownedConnection
<1>1. SockInv => NoUnownedConnection
  BY DEF SockInv, OwnInv, TypeInv, TypeOK, LiveOwned, Live, NoUnownedConnection
<1> QED BY <1>1, SockInvariant, PTL

(* Under the same conditions no listener is forgotten: as long as the chip  *)
(* has refused no listen and every task is at a yield, a listener lacks a   *)
(* socket only while none is free.                                          *)
THEOREM NoneForgotten ==
    ASSUME Serial
    PROVE  Spec => []NoForgottenListener
<1>1. SockInv => NoForgottenListener
  <2> SUFFICES ASSUME SockInv, \A t \in Tasks : task[t].pc \in YieldPoints,
                      ~Refused
               PROVE  FreeSocks = {} \/ Unarmed = {}
    BY DEF NoForgottenListener, Refused, Unarmed
  <2> QED BY DEF SockInv, Repaired, Rearms, YieldPoints
<1> QED BY <1>1, SockInvariant, PTL

=============================================================================
