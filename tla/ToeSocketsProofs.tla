-------------------------- MODULE ToeSocketsProofs --------------------------
(* Proofs about ToeSockets: type correctness in every mode, and Ownership  *)
(* when tasks switch at yields and do not share descriptors.               *)
EXTENDS ToeSockets, TLAPS

Place == [pc : Places, call : Calls, fd : Descs \cup {NONE},
          sn : Socks \cup {NONE}, todo : SUBSET Descs]

(* What a place says about the descriptor and socket it names, in any mode *)
Named(k) ==
    /\ k.pc \in {"poll", "established"} => k.fd \in Descs
    /\ k.pc \in {"open", "listen"} => k.fd \in Descs /\ k.sn \in Socks

TypeInv == TypeOK /\ \A t \in Tasks : Named(task[t])

(* The marks -1 and -2 are no hardware socket and no descriptor. *)
LEMMA Constants ==
    /\ Socks \subseteq Nat /\ Descs \subseteq Nat
    /\ NONE \notin Socks /\ NONE \notin Descs
    /\ TOE_SN_FREE \notin Descs /\ TOE_SN_RAW \notin Descs
    /\ TOE_SN_FREE # TOE_SN_RAW
BY NumSocksAssumption, NumDescsAssumption
   DEF Socks, Descs, NONE, TOE_SN_FREE, TOE_SN_RAW

(* A place built by In is well formed, and has the fields it was given. *)
LEMMA InType ==
    ASSUME NEW pc \in Places, NEW call \in Calls,
           NEW fd \in Descs \cup {NONE}, NEW s \in Socks \cup {NONE}
    PROVE  /\ In(pc, call, fd, s) \in Place
           /\ In(pc, call, fd, s).pc = pc /\ In(pc, call, fd, s).call = call
           /\ In(pc, call, fd, s).fd = fd /\ In(pc, call, fd, s).sn = s
BY DEF In, Place

(* The idle place is well formed. *)
LEMMA IdleType == Idle \in Place /\ Named(Idle)
BY DEF Idle, Place, Named, Places, YieldPoints, Calls

(* The place that begins toe_rearm_pending_listeners() is well formed. *)
LEMMA RearmAllType == RearmAll \in Place /\ Named(RearmAll)
BY DEF RearmAll, In, Place, Named, Places, Calls

(* A turn of accept()'s loop ends in a well-formed place. *)
LEMMA AfterTurnType ==
    ASSUME NEW t \in Tasks, TypeInv, task[t].fd \in Descs,
           NEW k \in AfterTurn(t)
    PROVE  k \in Place /\ Named(k)
BY IdleType DEF AfterTurn, In, Place, Named, TypeInv, TypeOK, Places,
   YieldPoints, Calls

(* So does a return from toe_listener_reopen(). *)
LEMMA AfterReopenType ==
    ASSUME NEW t \in Tasks, TypeInv, task[t].fd \in Descs,
           NEW k \in AfterReopen(t)
    PROVE  k \in Place /\ Named(k)
<1>1. CASE task[t].call \in Accepting
  BY <1>1, AfterTurnType DEF AfterReopen, Accepting
<1>2. CASE task[t].call = "rearm"
  <2>1. k = [task[t] EXCEPT !.pc = "rearm"]
    BY <1>2 DEF AfterReopen, Accepting
  <2>2. task[t] \in Place
    BY DEF TypeInv, TypeOK, Place
  <2> QED BY <2>1, <2>2 DEF Place, Named, Places
<1>3. CASE task[t].call \notin Accepting /\ task[t].call # "rearm"
  BY <1>3, IdleType DEF AfterReopen, Accepting
<1> QED BY <1>1, <1>2, <1>3

(* A step moves one task to a well-formed place. *)
LEMMA GotoType ==
    ASSUME NEW t \in Tasks, NEW k \in Place, Named(k), TypeInv, Goto(t, k)
    PROVE  task' \in [Tasks -> Place] /\ \A u \in Tasks : Named(task'[u])
BY DEF Goto, TypeInv, TypeOK, Place

-----------------------------------------------------------------------------
(* Type correctness *)

LEMMA DescClearType ==
    ASSUME TypeOK, NEW fd \in Descs, DescClear(fd)
    PROVE  /\ used' \subseteq Descs /\ udp' \subseteq Descs
           /\ opened' \subseteq Descs /\ listening' \subseteq Descs
           /\ sn' \in [Descs -> Socks \cup {NONE}]
           /\ peer' \in [Descs -> Clients \cup {NoClient}]
BY DEF TypeOK, DescClear

(* Closing or opening a chip's socket keeps the chip's state well typed. *)
LEMMA ChipSetType ==
    ASSUME TypeOK, NEW s, NEW state \in Status, ChipSet(s, state)
    PROVE  /\ sr' \in [Socks -> Status]
           /\ client' \in [Socks -> Clients \cup {NoClient}]
BY DEF TypeOK, ChipSet

(* Types: the first step of every call of the socket API. *)
LEMMA TypeNewCall ==
    ASSUME TypeInv, NEW t \in Tasks, NewCall(t)
    PROVE  TypeInv'
<1> USE DEF TypeInv
<1>1. ASSUME NEW isUdp \in BOOLEAN, Socket(t, isUdp) PROVE TypeInv'
  <2>1. PICK fd \in Descs : Lowest(fd, Unused)
          /\ \/ \E s \in Socks :
                /\ Lowest(s, FreeSocks)
                /\ owner' = [owner EXCEPT ![s] = fd]
                /\ used' = used \cup {fd}
                /\ sn' = [sn EXCEPT ![fd] = s]
                /\ udp' = IF isUdp THEN udp \cup {fd} ELSE udp \ {fd}
                /\ opened' = opened \ {fd}
                /\ listening' = listening \ {fd}
                /\ peer' = [peer EXCEPT ![fd] = NoClient]
             \/ FreeSocks = {} /\ DescClear(fd) /\ UNCHANGED owner
    BY <1>1 DEF Socket
  <2>2. UNCHANGED <<chipVars, hasIp, syn, task>>
    BY <1>1 DEF Socket
  <2>3. CASE FreeSocks = {} /\ DescClear(fd) /\ UNCHANGED owner
    BY <2>2, <2>3, DescClearType DEF TypeOK, chipVars, Named
  <2>4. CASE ~(FreeSocks = {} /\ DescClear(fd) /\ UNCHANGED owner)
    <3>1. PICK s \in Socks :
            /\ owner' = [owner EXCEPT ![s] = fd]
            /\ used' = used \cup {fd}
            /\ sn' = [sn EXCEPT ![fd] = s]
            /\ udp' = IF isUdp THEN udp \cup {fd} ELSE udp \ {fd}
            /\ opened' = opened \ {fd}
            /\ listening' = listening \ {fd}
            /\ peer' = [peer EXCEPT ![fd] = NoClient]
      BY <2>1, <2>4
    <3>2. /\ used' \subseteq Descs /\ udp' \subseteq Descs
          /\ opened' \subseteq Descs /\ listening' \subseteq Descs
      BY <3>1 DEF TypeOK
    <3> QED BY <2>2, <3>1, <3>2 DEF TypeOK, chipVars, Named
  <2> QED BY <2>3, <2>4
<1>2. ASSUME NEW fd \in Descs, Bind(t, fd) PROVE TypeInv'
  BY <1>2, ChipSetType DEF Bind, TypeOK, Status, Named
<1>3. ASSUME NEW fd \in Descs, Listen(t, fd) PROVE TypeInv'
  <2>1. In("open", "listen", fd, sn[fd]) \in Place
        /\ Named(In("open", "listen", fd, sn[fd]))
    BY <1>3 DEF Listen, Plain, Ready, TypeOK, In, Place, Named, Places, Calls
  <2> QED BY <1>3, <2>1, GotoType DEF Listen, TypeOK, Place, chipVars
<1>4. ASSUME NEW fd \in Descs, Accept(t, fd) PROVE TypeInv'
  <2>1. PICK call \in Accepting : Goto(t, In("poll", call, fd, NONE))
    BY <1>4 DEF Accept
  <2>2. In("poll", call, fd, NONE) \in Place
        /\ Named(In("poll", call, fd, NONE))
    BY DEF In, Place, Named, Places, YieldPoints, Calls
  <2> QED BY <1>4, <2>1, <2>2, GotoType
      DEF Accept, TypeOK, Place, chipVars, descVars
<1>5. ASSUME NEW fd \in Descs, Connect(t, fd) PROVE TypeInv'
  <2>1. In("connecting", "connect", fd, sn[fd]) \in Place
        /\ Named(In("connecting", "connect", fd, sn[fd]))
    BY DEF TypeOK, In, Place, Named, Places, Calls
  <2> QED BY <1>5, <2>1, GotoType, ChipSetType
      DEF Connect, TypeOK, Place, Status
<1>6. ASSUME NEW fd \in Descs, NEW call \in {"shutdown", "close"},
             NEW next \in Place, Named(next), Disconnect(t, fd, call, next)
      PROVE  /\ sr' \in [Socks -> Status]
             /\ task' \in [Tasks -> Place] /\ \A u \in Tasks : Named(task'[u])
  <2>1. In("discon", call, fd, sn[fd]) \in Place
        /\ Named(In("discon", call, fd, sn[fd]))
    BY DEF TypeOK, In, Place, Named, Places, YieldPoints, Calls
  <2>2. sr' \in [Socks -> Status]
    BY <1>6 DEF Disconnect, TypeOK, Status
  <2> QED BY <1>6, <2>1, <2>2, GotoType DEF Disconnect
<1>7. ASSUME NEW fd \in Descs, Shutdown(t, fd) PROVE TypeInv'
  BY <1>6, <1>7, IdleType DEF Shutdown, TypeOK, Place, descVars
<1>8. ASSUME NEW fd \in Descs, Close(t, fd) PROVE TypeInv'
  <2>1. In("close", "close", fd, sn[fd]) \in Place
        /\ Named(In("close", "close", fd, sn[fd]))
    BY DEF TypeOK, In, Place, Named, Places, Calls
  <2>2. CASE sn[fd] = NONE
    BY <1>8, <2>2, RearmAllType, GotoType, DescClearType
       DEF Close, TypeOK, Place
  <2>3. CASE sn[fd] # NONE /\ fd \in udp
    BY <1>8, <2>1, <2>3, GotoType DEF Close, TypeOK, Place, descVars
  <2>4. CASE sn[fd] # NONE /\ fd \notin udp
    BY <1>6, <1>8, <2>1, <2>4 DEF Close, TypeOK, Place, descVars
  <2> QED BY <2>2, <2>3, <2>4
<1>9. ASSUME Reserve(t) PROVE TypeInv'
  BY <1>9 DEF Reserve, TypeOK, Named, descVars, chipVars
<1>10. ASSUME NEW s \in Socks, ReleaseRaw(t, s) PROVE TypeInv'
  <2>1. In("close", "raw", NONE, s) \in Place
        /\ Named(In("close", "raw", NONE, s))
    BY DEF In, Place, Named, Places, Calls
  <2> QED BY <1>10, <2>1, GotoType
      DEF ReleaseRaw, TypeOK, Place, descVars, chipVars
<1> QED BY <1>1, <1>2, <1>3, <1>4, <1>5, <1>7, <1>8, <1>9, <1>10 DEF NewCall

(* Types: every further step of a call. *)
LEMMA TypeStep ==
    ASSUME TypeInv, NEW t \in Tasks, Step(t)
    PROVE  TypeInv'
<1> USE DEF TypeInv
<1> task[t] \in Place
  BY DEF TypeOK, Place
<1>0. ASSUME NEW places, Resume(t, places),
             \A k \in places : k \in Place /\ Named(k)
      PROVE  task' \in [Tasks -> Place] /\ \A u \in Tasks : Named(task'[u])
  BY <1>0, GotoType DEF Resume
<1>1. ASSUME Open(t) PROVE TypeInv'
  <2>1. task[t].fd \in Descs /\ task[t].sn \in Socks
    BY <1>1 DEF Open, At, Named
  <2>2. [task[t] EXCEPT !.pc = "listen"] \in Place
        /\ Named([task[t] EXCEPT !.pc = "listen"])
    BY <2>1 DEF Place, Named, Places
  <2>3. CASE ~hasIp
    BY <1>0, <1>1, <2>1, <2>3, AfterReopenType DEF Open, TypeOK, Place, chipVars
  <2>4. CASE hasIp
    BY <1>1, <2>1, <2>2, <2>4, GotoType, ChipSetType
       DEF Open, TypeOK, Place, Status
  <2> QED BY <2>3, <2>4
<1>2. ASSUME ListenOk(t) PROVE TypeInv'
  <2>1. task[t].fd \in Descs /\ task[t].sn \in Socks
    BY <1>2 DEF ListenOk, At, Named
  <2> QED BY <1>0, <1>2, <2>1, AfterReopenType
      DEF ListenOk, TypeOK, Place, Status, descVars
<1>3. ASSUME ListenFail(t) PROVE TypeInv'
  <2>1. task[t].fd \in Descs /\ task[t].sn \in Socks
    BY <1>3 DEF ListenFail, At, Named
  <2>2. task' \in [Tasks -> Place] /\ \A u \in Tasks : Named(task'[u])
    BY <1>0, <1>3, <2>1, AfterReopenType DEF ListenFail
  <2>3. /\ sr' \in [Socks -> Status]
        /\ client' \in [Socks -> Clients \cup {NoClient}]
        /\ syn' \in [Clients -> {"none", "sent", "lost"}]
    BY <1>3, ChipSetType DEF ListenFail, TypeOK, chipVars, Status
  <2>4. /\ owner' \in [Socks -> Descs \cup {TOE_SN_FREE, TOE_SN_RAW}]
        /\ sn' \in [Descs -> Socks \cup {NONE}]
        /\ opened' \subseteq Descs /\ listening' \subseteq Descs
    BY <1>3 DEF ListenFail, Disarm, TypeOK
  <2> QED BY <1>3, <2>2, <2>3, <2>4 DEF ListenFail, TypeOK, Place
<1>4. ASSUME NEW fd \in Descs, NEW call \in Calls, NEW todo \in SUBSET Descs,
             Rearm(t, fd, call, todo)
      PROVE  /\ owner' \in [Socks -> Descs \cup {TOE_SN_FREE, TOE_SN_RAW}]
             /\ sn' \in [Descs -> Socks \cup {NONE}]
             /\ task' \in [Tasks -> Place] /\ \A u \in Tasks : Named(task'[u])
  <2>1. PICK s \in Socks :
          /\ owner' = [owner EXCEPT ![s] = fd]
          /\ sn' = [sn EXCEPT ![fd] = s]
          /\ Goto(t, [In("open", call, fd, s) EXCEPT !.todo = todo])
    BY <1>4 DEF Rearm
  <2>2. [In("open", call, fd, s) EXCEPT !.todo = todo] \in Place
        /\ Named([In("open", call, fd, s) EXCEPT !.todo = todo])
    BY DEF In, Place, Named, Places
  <2> QED BY <2>1, <2>2, GotoType DEF TypeOK
<1>5. ASSUME PollUnarmed(t) PROVE TypeInv'
  <2>1. task[t].fd \in Descs /\ task[t].call \in Calls
    BY <1>5 DEF PollUnarmed, At, Named, Place
  <2>2. CASE Rearm(t, task[t].fd, task[t].call, {})
    BY <1>4, <1>5, <2>1, <2>2 DEF PollUnarmed, TypeOK, Place, chipVars
  <2>3. CASE ~Rearm(t, task[t].fd, task[t].call, {})
    BY <1>0, <1>5, <2>1, <2>3, AfterTurnType DEF PollUnarmed, TypeOK, Place, chipVars
  <2> QED BY <2>2, <2>3
<1>6. ASSUME PollArmed(t) PROVE TypeInv'
  <2>1. task[t].fd \in Descs /\ task[t].call \in Calls
    BY <1>6 DEF PollArmed, At, Named, Place
  <2>2. sn[task[t].fd] \in Socks
    BY <1>6, <2>1 DEF PollArmed, TypeOK
  <2>3. ASSUME NEW pc \in {"established", "listen", "open"}
        PROVE  In(pc, task[t].call, task[t].fd, sn[task[t].fd]) \in Place
               /\ Named(In(pc, task[t].call, task[t].fd, sn[task[t].fd]))
    BY <2>1, <2>2 DEF In, Place, Named, Places
  <2>4. task' \in [Tasks -> Place] /\ \A u \in Tasks : Named(task'[u])
    BY <1>0, <1>6, <2>1, <2>3, AfterTurnType, GotoType DEF PollArmed
  <2> QED BY <1>6, <2>4 DEF PollArmed, TypeOK, Place, descVars, chipVars
<1>7. ASSUME EstablishedNoDesc(t) PROVE TypeInv'
  BY <1>7, IdleType, GotoType
     DEF EstablishedNoDesc, TypeOK, Place, descVars, chipVars
<1>8. ASSUME Established(t) PROVE TypeInv'
  <2> DEFINE fd == task[t].fd
             s  == sn[fd]
  <2>1. fd \in Descs /\ s \in Socks \cup {NONE}
    BY <1>8 DEF Established, At, Named, TypeOK
  <2>2. PICK cfd \in Descs :
          /\ used' = used \cup {cfd}
          /\ udp' = udp \ {cfd}
          /\ listening' = listening \ {cfd}
          /\ opened' = (opened \cup {cfd}) \ {fd}
          /\ peer' = [peer EXCEPT ![cfd] = IF s = NONE THEN NoClient
                                           ELSE client[s]]
          /\ LET to   == IF s = NONE THEN owner
                         ELSE [owner EXCEPT ![s] = cfd]
                 left == FreeSocks \ {s}
             IN \/ /\ left = {}
                   /\ owner' = to
                   /\ sn' = HandOver(fd, cfd)
                   /\ Goto(t, Idle)
                \/ \E n \in Socks :
                   /\ Lowest(n, left)
                   /\ owner' = [to EXCEPT ![n] = fd]
                   /\ sn' = [HandOver(fd, cfd) EXCEPT ![fd] = n]
                   /\ Goto(t, In("open", "accepted", fd, n))
    BY <1>8 DEF Established
  <2>3. HandOver(fd, cfd) \in [Descs -> Socks \cup {NONE}]
    BY <2>1 DEF HandOver, TypeOK
  <2>4. ASSUME NEW n \in Socks
        PROVE  In("open", "accepted", fd, n) \in Place
               /\ Named(In("open", "accepted", fd, n))
    BY <2>1 DEF In, Place, Named, Places, Calls
  <2>5. /\ task' \in [Tasks -> Place] /\ \A u \in Tasks : Named(task'[u])
        /\ owner' \in [Socks -> Descs \cup {TOE_SN_FREE, TOE_SN_RAW}]
        /\ sn' \in [Descs -> Socks \cup {NONE}]
    BY <2>1, <2>2, <2>3, <2>4, IdleType, GotoType DEF TypeOK
  <2>6. peer' \in [Descs -> Clients \cup {NoClient}]
    BY <2>1, <2>2 DEF TypeOK
  <2> QED BY <1>8, <2>1, <2>2, <2>5, <2>6
      DEF Established, TypeOK, Place, chipVars
<1>9. ASSUME ConnectReturns(t) PROVE TypeInv'
  BY <1>9, IdleType, GotoType
     DEF ConnectReturns, TypeOK, Place, descVars, chipVars
<1>10. ASSUME DisconnectReturns(t) PROVE TypeInv'
  <2>1. [task[t] EXCEPT !.pc = "close"] \in Place
        /\ Named([task[t] EXCEPT !.pc = "close"])
    BY DEF Place, Named, Places
  <2> QED BY <1>10, <2>1, IdleType, GotoType
      DEF DisconnectReturns, TypeOK, Place, descVars, chipVars
<1>11. ASSUME CloseChip(t) PROVE TypeInv'
  <2>1. [task[t] EXCEPT !.pc = "release"] \in Place
        /\ Named([task[t] EXCEPT !.pc = "release"])
    BY DEF Place, Named, Places
  <2>2. /\ sr' \in [Socks -> Status]
        /\ client' \in [Socks -> Clients \cup {NoClient}]
    BY <1>11, ChipSetType DEF CloseChip, TypeOK, chipVars, Status
  <2> QED BY <1>11, <2>1, <2>2, GotoType
      DEF CloseChip, TypeOK, Place, descVars
<1>12. ASSUME Release(t) PROVE TypeInv'
  <2>1. task' \in [Tasks -> Place] /\ \A u \in Tasks : Named(task'[u])
    BY <1>12, RearmAllType, GotoType DEF Release
  <2>2. owner' \in [Socks -> Descs \cup {TOE_SN_FREE, TOE_SN_RAW}]
    BY <1>12 DEF Release, TypeOK
  <2>3. /\ used' \subseteq Descs /\ udp' \subseteq Descs
        /\ opened' \subseteq Descs /\ listening' \subseteq Descs
        /\ sn' \in [Descs -> Socks \cup {NONE}]
        /\ peer' \in [Descs -> Clients \cup {NoClient}]
    BY <1>12 DEF Release, DescClear, TypeOK
  <2> QED BY <1>12, <2>1, <2>2, <2>3 DEF Release, TypeOK, Place, chipVars
<1>13. ASSUME RearmNext(t) PROVE TypeInv'
  <2>1. PICK fd \in Descs :
          Rearm(t, fd, "rearm", {d \in task[t].todo : d > fd})
    BY <1>13 DEF RearmNext
  <2>2. {d \in task[t].todo : d > fd} \in SUBSET Descs /\ "rearm" \in Calls
    BY DEF Place, Calls
  <2> QED BY <1>4, <1>13, <2>1, <2>2 DEF RearmNext, TypeOK, Place, chipVars
<1>14. ASSUME RearmDone(t) PROVE TypeInv'
  BY <1>14, IdleType, GotoType
     DEF RearmDone, TypeOK, Place, descVars, chipVars
<1> QED BY <1>1, <1>2, <1>3, <1>5, <1>6, <1>7, <1>8, <1>9, <1>10, <1>11,
           <1>12, <1>13, <1>14 DEF Step

(* Types: what the chip and the network do. *)
LEMMA TypeChip ==
    ASSUME TypeInv, (\E s \in Socks : Chip(s)) \/ AddressChange
    PROVE  TypeInv'
<1> USE DEF TypeInv
<1>1. ASSUME NEW s \in Socks, NEW c \in Clients, SynArrives(c, s)
      PROVE  TypeInv'
  BY <1>1 DEF SynArrives, TypeOK, Status, Named, descVars
<1>2. ASSUME NEW s \in Socks, NEW before, NEW after \in Status,
             Becomes(s, before, after)
      PROVE  TypeInv'
  BY <1>2 DEF Becomes, TypeOK, Named, descVars
<1>3. CASE AddressChange
  BY <1>3 DEF AddressChange, TypeOK, Named, descVars, chipVars
<1> QED BY <1>1, <1>2, <1>3
    DEF Chip, HandshakeDone, HandshakeFails, PeerFin, PeerReset, ClosingDone,
        Status

(* Every table entry, status and place a run can reach is one the code has *)
(* a meaning for, in every mode: in particular no descriptor is bound to   *)
(* an index outside the chip's sockets.                                    *)
THEOREM TypeCorrect == Spec => []TypeOK
<1>1. Init => TypeInv
  <2> SUFFICES ASSUME Init PROVE TypeInv
    OBVIOUS
  <2>1. task \in [Tasks -> Place] /\ \A t \in Tasks : Named(task[t])
    BY IdleType DEF Init
  <2> QED BY <2>1 DEF Init, TypeInv, TypeOK, Place, Status
<1>2. TypeInv /\ [Next]_vars => TypeInv'
  <2> SUFFICES ASSUME TypeInv, [Next]_vars PROVE TypeInv'
    OBVIOUS
  <2>1. CASE UNCHANGED vars
    BY <2>1 DEF vars, TypeInv, TypeOK, Named
  <2> QED BY <2>1, TypeNewCall, TypeStep, TypeChip DEF Next
<1>3. TypeInv => TypeOK
  BY DEF TypeInv
<1> QED BY <1>1, <1>2, <1>3, PTL DEF Spec

-----------------------------------------------------------------------------
(* Ownership.  Alone it is not inductive: that close() frees the socket its *)
(* descriptor still holds after the wait, and that a re-open gives up the  *)
(* socket it was called for, depend on what every task in the middle of a  *)
(* call knows, and on no other task having moved that socket meanwhile.    *)

(* A task's place k fits the tables U = used, L = listening, S = sn and    *)
(* O = owner. *)
Fits(k, U, L, S, O) ==
    /\ k.pc = "idle" => k = Idle
    /\ k.pc \in {"poll", "established"} => k.call \in Accepting
    /\ k.pc = "discon" => k.call \in {"close", "shutdown"}
    /\ k.pc \in {"close", "release"} => k.call \in {"close", "raw"}
    /\ k.pc = "rearm" => k.call = "rearm"
    /\ k.pc \in {"poll", "established", "open", "listen"} => k.fd \in U \cap L
    /\ k.pc \in {"established", "open", "listen"} =>
           S[k.fd] = k.sn /\ k.sn \in Socks
    /\ k.pc \in {"discon", "close", "release"} /\ k.call # "raw" =>
           k.fd \in U /\ S[k.fd] = k.sn /\ k.sn \in Socks
    /\ k.call = "raw" => k.sn \in Socks /\ O[k.sn] = TOE_SN_RAW
    /\ k.call = "raw" => k.pc \in {"close", "release"}

(* Two tasks are on one descriptor only when one of them re-arms the       *)
(* listener the other polls.                                               *)
MayMeet(j, k) == j.call = "rearm" /\ k.pc = "poll"
Apart(f) == \A t, u \in Tasks :
    t # u /\ f[t].fd = f[u].fd /\ f[t].fd # NONE
    => MayMeet(f[t], f[u]) \/ MayMeet(f[u], f[t])

(* At most one task is between two yields. *)
OneRuns(f) == \A t, u \in Tasks :
    t # u => f[t].pc \in YieldPoints \/ f[u].pc \in YieldPoints

OwnInv ==
    /\ TypeInv
    /\ Ownership
    /\ \A t \in Tasks : Fits(task[t], used, listening, sn, owner)
    /\ Apart(task)
    /\ OneRuns(task)

(* When a task runs, every other one is at a yield, and on another         *)
(* descriptor unless it polls the listener being re-armed.                 *)
LEMMA OthersYield ==
    ASSUME Serial, OwnInv, NEW t \in Tasks, MayRun(t),
           NEW u \in Tasks \ {t}
    PROVE  /\ task[u].pc \in YieldPoints /\ task[u].call # "rearm"
           /\ task[u].call = "raw" => FALSE
           /\ task[t].fd # NONE /\ task[u].fd = task[t].fd
              => task[t].call = "rearm" /\ task[u].pc = "poll"
<1>1. task[u].pc \in YieldPoints
  BY DEF MayRun, Serial
<1>2. Fits(task[u], used, listening, sn, owner)
  BY DEF OwnInv
<1>3. task[u].call # "rearm" /\ task[u].call # "raw"
  BY <1>1, <1>2 DEF Fits, YieldPoints, Idle, Accepting
<1> QED BY <1>1, <1>3 DEF OwnInv, Apart, MayMeet

(* A call may begin on a descriptor only if no other task is on it. *)
LEMMA FreshUse ==
    ASSUME Serial, OwnInv, NEW t \in Tasks, CanCall(t), NEW fd \in Descs,
           MayUse(fd), NEW u \in Tasks \ {t}
    PROVE  task[u].fd # fd
BY OthersYield DEF MayUse, InUse, Serial, CanCall

(* What a step of task t must show: its new place fits the new tables, and *)
(* it has not disturbed a descriptor that another task polls or closes.    *)
LEMMA Frame ==
    ASSUME Serial, OwnInv, NEW t \in Tasks, MayRun(t), NEW k \in Place,
           Goto(t, k),
           Fits(k, used', listening', sn', owner'),
           \A u \in Tasks \ {t} : task[u].fd # NONE =>
               \/ task[u].fd # k.fd
               \/ k.call = "rearm" /\ task[u].pc = "poll",
           \A u \in Tasks \ {t} : task[u].pc = "poll" =>
               task[u].fd \in used' \cap listening',
           \A u \in Tasks \ {t} : task[u].pc = "discon" =>
               task[u].fd \in used' /\ sn'[task[u].fd] = sn[task[u].fd]
    PROVE  /\ \A u \in Tasks : Fits(task'[u], used', listening', sn', owner')
           /\ Apart(task') /\ OneRuns(task')
<1>1. \A u \in Tasks : task'[u] = IF u = t THEN k ELSE task[u]
  BY DEF Goto, OwnInv, TypeInv, TypeOK
<1>2. \A u \in Tasks \ {t} : task[u].pc \in YieldPoints
  BY OthersYield
<1>3. OneRuns(task')
  BY <1>1, <1>2 DEF OneRuns
<1>4. Apart(task')
  <2> SUFFICES ASSUME NEW a \in Tasks, NEW b \in Tasks, a # b,
                      task'[a].fd = task'[b].fd, task'[a].fd # NONE
               PROVE  MayMeet(task'[a], task'[b]) \/ MayMeet(task'[b], task'[a])
    BY DEF Apart
  <2>1. CASE a # t /\ b # t
    BY <1>1, <2>1 DEF OwnInv, Apart
  <2>2. CASE a = t
    BY <1>1, <2>2 DEF MayMeet
  <2>3. CASE b = t
    BY <1>1, <2>3 DEF MayMeet
  <2> QED BY <2>1, <2>2, <2>3
<1>5. ASSUME NEW u \in Tasks
      PROVE  Fits(task'[u], used', listening', sn', owner')
  <2>1. CASE u = t
    BY <1>1, <2>1
  <2>2. CASE u # t
    <3>1. task'[u] = task[u] /\ Fits(task[u], used, listening, sn, owner)
      BY <1>1, <2>2 DEF OwnInv
    <3>2. task[u].pc \in YieldPoints /\ task[u].call # "raw"
      BY <2>2, OthersYield
    <3>3. task[u].pc = "poll" => task[u].fd \in used' \cap listening'
      BY <2>2
    <3>4. task[u].pc = "discon" =>
            task[u].fd \in used' /\ sn'[task[u].fd] = sn[task[u].fd]
      BY <2>2
    <3> QED BY <3>1, <3>2, <3>3, <3>4 DEF Fits, YieldPoints
  <2> QED BY <2>1, <2>2
<1> QED BY <1>3, <1>4, <1>5

(* The case of a step that leaves used, sn, listening and owner alone *)
LEMMA QuietFrame ==
    ASSUME Serial, OwnInv, TypeInv', NEW t \in Tasks, MayRun(t),
           NEW k \in Place, Goto(t, k),
           UNCHANGED <<used, sn, listening, owner>>,
           Fits(k, used, listening, sn, owner),
           \A u \in Tasks \ {t} : task[u].fd # NONE =>
               \/ task[u].fd # k.fd
               \/ k.call = "rearm" /\ task[u].pc = "poll"
    PROVE  OwnInv'
<1>1. Ownership'
  BY DEF OwnInv, Ownership
<1>2. ASSUME NEW u \in Tasks \ {t}
      PROVE  /\ task[u].pc = "poll" => task[u].fd \in used' \cap listening'
             /\ task[u].pc = "discon" =>
                  task[u].fd \in used' /\ sn'[task[u].fd] = sn[task[u].fd]
  <2>1. Fits(task[u], used, listening, sn, owner)
    BY DEF OwnInv
  <2>2. task[u].pc = "discon" => task[u].call # "raw"
    BY <2>1 DEF Fits
  <2> QED BY <2>1, <2>2 DEF Fits
<1>3. Fits(k, used', listening', sn', owner')
  OBVIOUS
<1> QED BY <1>1, <1>2, <1>3, Frame DEF OwnInv

-----------------------------------------------------------------------------
(* The steps, one by one *)

LEMMA OwnNewCall ==
    ASSUME Serial, OwnInv, NEW t \in Tasks, NewCall(t)
    PROVE  OwnInv'
<1>0. TypeInv /\ TypeInv'
  BY TypeNewCall DEF OwnInv
<1>i. ASSUME CanCall(t), task' = task
      PROVE  Goto(t, Idle) /\ Idle \in Place /\ MayRun(t)
             /\ Fits(Idle, used', listening', sn', owner')
  BY <1>0, <1>i, IdleType
     DEF CanCall, Goto, TypeInv, TypeOK, Fits, Idle, Accepting
<1>1. ASSUME NEW isUdp \in BOOLEAN, Socket(t, isUdp) PROVE OwnInv'
  <2>1. CanCall(t) /\ task' = task
    BY <1>1 DEF Socket
  <2>2. PICK fd \in Descs :
          /\ fd \notin used
          /\ \/ \E s \in FreeSocks :
                /\ owner' = [owner EXCEPT ![s] = fd]
                /\ used' = used \cup {fd}
                /\ sn' = [sn EXCEPT ![fd] = s]
                /\ listening' = listening \ {fd}
             \/ DescClear(fd) /\ UNCHANGED owner
    BY <1>1 DEF Socket, Lowest, Unused
  <2>3. sn[fd] = NONE
    BY <2>2 DEF OwnInv, Ownership
  <2>4. /\ used \subseteq used'
        /\ listening' = listening \ {fd}
        /\ \A g \in Descs \ {fd} : sn'[g] = sn[g]
    BY <1>0, <2>2 DEF DescClear, TypeInv, TypeOK
  <2>5. Ownership'
    <3>1. CASE DescClear(fd) /\ UNCHANGED owner
      BY <1>0, <2>2, <2>3, <3>1 DEF OwnInv, Ownership, DescClear, TypeInv, TypeOK
    <3>2. CASE ~(DescClear(fd) /\ UNCHANGED owner)
      <4>1. PICK s \in FreeSocks :
                /\ owner' = [owner EXCEPT ![s] = fd]
                /\ used' = used \cup {fd}
                /\ sn' = [sn EXCEPT ![fd] = s]
        BY <2>2, <3>2
      <4>2. s \in Socks /\ owner[s] = TOE_SN_FREE
        BY DEF FreeSocks
      <4> QED BY <1>0, <2>2, <2>3, <4>1, <4>2, Constants
          DEF OwnInv, Ownership, TypeInv, TypeOK
    <3> QED BY <3>1, <3>2
  <2>6. ASSUME NEW u \in Tasks \ {t}
        PROVE  /\ task[u].pc = "poll" => task[u].fd \in used' \cap listening'
               /\ task[u].pc = "discon" =>
                    task[u].fd \in used' /\ sn'[task[u].fd] = sn[task[u].fd]
    <3>1. Fits(task[u], used, listening, sn, owner)
      BY DEF OwnInv
    <3>2. used \subseteq Descs
      BY <1>0 DEF TypeInv, TypeOK
    <3> QED BY <2>2, <2>4, <3>1, <3>2, OthersYield, <1>i, <2>1 DEF Fits
  <2> QED BY <1>0, <1>i, <2>1, <2>5, <2>6, Frame DEF OwnInv, Idle
<1>2. ASSUME NEW fd \in Descs, Bind(t, fd) PROVE OwnInv'
  BY <1>0, <1>2, <1>i, QuietFrame DEF Bind, Idle
<1>3. ASSUME NEW fd \in Descs, Listen(t, fd) PROVE OwnInv'
  <2> DEFINE k == In("open", "listen", fd, sn[fd])
  <2>1. fd \in used /\ sn[fd] \in Socks
    BY <1>0, <1>3 DEF Listen, Plain, Ready, TypeInv, TypeOK
  <2>2. k \in Place
    BY <2>1 DEF In, Place, Places, Calls
  <2>3. /\ MayRun(t) /\ CanCall(t) /\ MayUse(fd) /\ Goto(t, k)
        /\ UNCHANGED <<used, sn, owner>> /\ listening' = listening \cup {fd}
    BY <1>3 DEF Listen, CanCall
  <2>4. Fits(k, used', listening', sn', owner')
    BY <2>1, <2>3 DEF Fits, In, Accepting
  <2>5. ASSUME NEW u \in Tasks \ {t}
        PROVE  /\ task[u].fd # k.fd
               /\ task[u].pc = "poll" => task[u].fd \in used' \cap listening'
               /\ task[u].pc = "discon" =>
                    task[u].fd \in used' /\ sn'[task[u].fd] = sn[task[u].fd]
    <3>1. Fits(task[u], used, listening, sn, owner)
      BY DEF OwnInv
    <3> QED BY <2>3, <3>1, FreshUse, OthersYield DEF Fits, In
  <2>6. Ownership'
    BY <2>3 DEF OwnInv, Ownership
  <2> HIDE DEF k
  <2> QED BY <1>0, <2>2, <2>3, <2>4, <2>5, <2>6, Frame DEF OwnInv
<1>4. ASSUME NEW fd \in Descs, Accept(t, fd) PROVE OwnInv'
  <2>1. PICK call \in Accepting : Goto(t, In("poll", call, fd, NONE))
    BY <1>4 DEF Accept
  <2> DEFINE k == In("poll", call, fd, NONE)
  <2>2. k \in Place /\ k.fd = fd
    BY DEF In, Place, Places, YieldPoints, Calls
  <2>3. Fits(k, used, listening, sn, owner)
    BY <1>4 DEF Accept, Fits, In, Accepting
  <2>4. /\ MayRun(t) /\ CanCall(t) /\ MayUse(fd) /\ Goto(t, k)
        /\ UNCHANGED <<used, sn, listening, owner>>
    BY <1>4, <2>1 DEF Accept, CanCall, descVars
  <2> HIDE DEF k
  <2> QED BY <1>0, <2>2, <2>3, <2>4, FreshUse, QuietFrame
<1>5. ASSUME NEW fd \in Descs, Connect(t, fd) PROVE OwnInv'
  <2> DEFINE k == In("connecting", "connect", fd, sn[fd])
  <2>2. k \in Place /\ k.fd = fd
    BY <1>0 DEF In, Place, Places, Calls, TypeInv, TypeOK
  <2>3. Fits(k, used, listening, sn, owner)
    BY DEF Fits, In
  <2>4. /\ MayRun(t) /\ CanCall(t) /\ MayUse(fd) /\ Goto(t, k)
        /\ UNCHANGED <<used, sn, listening, owner>>
    BY <1>5 DEF Connect, CanCall
  <2> HIDE DEF k
  <2> QED BY <1>0, <2>2, <2>3, <2>4, FreshUse, QuietFrame
<1>6. ASSUME NEW fd \in Descs, NEW call \in {"shutdown", "close"},
             NEW k \in Place, Disconnect(t, fd, call, k),
             CanCall(t), MayUse(fd), Ready(fd),
             k = Idle \/ k = In("close", "close", fd, sn[fd]),
             UNCHANGED <<used, sn, listening, owner>>
      PROVE  OwnInv'
  <2> DEFINE j == In("discon", call, fd, sn[fd])
  <2>1. fd \in used /\ sn[fd] \in Socks
    BY <1>0, <1>6 DEF Ready, TypeInv, TypeOK
  <2>2. j \in Place /\ j.fd = fd /\ Fits(j, used, listening, sn, owner)
    BY <2>1 DEF In, Place, Places, YieldPoints, Calls, Fits, Accepting
  <2>3. Fits(k, used, listening, sn, owner) /\ k.fd \in {NONE, fd}
    BY <1>6, <2>1 DEF Fits, In, Idle, Accepting
  <2>4. Goto(t, j) \/ Goto(t, k)
    BY <1>6 DEF Disconnect
  <2>5. MayRun(t)
    BY <1>6 DEF CanCall
  <2> HIDE DEF j
  <2> QED BY <1>0, <1>6, <2>2, <2>3, <2>4, <2>5, FreshUse, QuietFrame
<1>7. ASSUME NEW fd \in Descs, Shutdown(t, fd) PROVE OwnInv'
  BY <1>6, <1>7, IdleType DEF Shutdown, descVars
<1>8. ASSUME NEW fd \in Descs, Close(t, fd) PROVE OwnInv'
  <2> DEFINE k == In("close", "close", fd, sn[fd])
  <2>1. k \in Place /\ k.fd = fd
    BY <1>0 DEF In, Place, Places, Calls, TypeInv, TypeOK
  <2>2. CanCall(t) /\ MayUse(fd) /\ MayRun(t) /\ fd \in used
        /\ UNCHANGED owner
    BY <1>8 DEF Close, CanCall
  <2>3. CASE sn[fd] = NONE
    <3>1. DescClear(fd) /\ Goto(t, RearmAll)
      BY <1>8, <2>3 DEF Close
    <3>2. Ownership'
      BY <1>0, <2>2, <2>3, <3>1, Constants
         DEF OwnInv, Ownership, DescClear, TypeInv, TypeOK
    <3>3. Fits(RearmAll, used', listening', sn', owner') /\ RearmAll.fd = NONE
      BY DEF Fits, RearmAll, In
    <3>4. ASSUME NEW u \in Tasks \ {t}
          PROVE  /\ task[u].pc = "poll" => task[u].fd \in used' \cap listening'
                 /\ task[u].pc = "discon" =>
                      task[u].fd \in used' /\ sn'[task[u].fd] = sn[task[u].fd]
      <4>1. Fits(task[u], used, listening, sn, owner) /\ task[u].fd # fd
        BY <2>2, FreshUse DEF OwnInv
      <4> QED BY <1>0, <2>2, <3>1, <4>1, OthersYield
          DEF Fits, DescClear, TypeInv, TypeOK
    <3> QED BY <1>0, <2>2, <3>1, <3>2, <3>3, <3>4, RearmAllType, Frame
        DEF OwnInv
  <2>4. CASE sn[fd] # NONE /\ fd \in udp
    <3>1. Goto(t, k) /\ UNCHANGED <<used, sn, listening, owner>>
      BY <1>8, <2>4 DEF Close, descVars
    <3>2. Fits(k, used, listening, sn, owner)
      BY <1>0, <2>2, <2>4 DEF Fits, In, Accepting, TypeInv, TypeOK
    <3> HIDE DEF k
    <3> QED BY <1>0, <2>1, <2>2, <3>1, <3>2, FreshUse, QuietFrame
  <2>5. CASE sn[fd] # NONE /\ fd \notin udp
    BY <1>6, <1>8, <2>1, <2>2, <2>5 DEF Close, descVars, Ready
  <2> QED BY <2>3, <2>4, <2>5
<1>9. ASSUME Reserve(t) PROVE OwnInv'
  <2>1. PICK s \in FreeSocks : owner' = [owner EXCEPT ![s] = TOE_SN_RAW]
    BY <1>9 DEF Reserve, Lowest
  <2>2. CanCall(t) /\ task' = task /\ UNCHANGED <<used, sn, listening>>
    BY <1>9 DEF Reserve, descVars
  <2>3. Ownership'
    BY <1>0, <2>1, <2>2, Constants
       DEF OwnInv, Ownership, TypeInv, TypeOK, FreeSocks
  <2>4. ASSUME NEW u \in Tasks \ {t}
        PROVE  /\ task[u].pc = "poll" => task[u].fd \in used' \cap listening'
               /\ task[u].pc = "discon" =>
                    task[u].fd \in used' /\ sn'[task[u].fd] = sn[task[u].fd]
    <3>1. Fits(task[u], used, listening, sn, owner)
      BY DEF OwnInv
    <3> QED BY <1>i, <2>2, <3>1, OthersYield DEF Fits
  <2> QED BY <1>0, <1>i, <2>2, <2>3, <2>4, Frame DEF OwnInv, Idle
<1>10. ASSUME NEW s \in Socks, ReleaseRaw(t, s) PROVE OwnInv'
  <2> DEFINE k == In("close", "raw", NONE, s)
  <2>1. k \in Place /\ k.fd = NONE
    BY DEF In, Place, Places, Calls
  <2>2. Fits(k, used, listening, sn, owner)
    BY <1>10 DEF ReleaseRaw, Fits, In, Accepting
  <2>3. MayRun(t) /\ Goto(t, k) /\ UNCHANGED <<used, sn, listening, owner>>
    BY <1>10 DEF ReleaseRaw, CanCall, descVars
  <2> HIDE DEF k
  <2> QED BY <1>0, <2>1, <2>2, <2>3, QuietFrame
<1> QED BY <1>1, <1>2, <1>3, <1>4, <1>5, <1>7, <1>8, <1>9, <1>10 DEF NewCall

(* The places toe_listener_reopen() returns to fit tables in which the     *)
(* listener is still in use and listening, whichever socket it has.        *)
LEMMA AfterReopenFits ==
    ASSUME OwnInv, NEW t \in Tasks, task[t].pc \in {"open", "listen"},
           NEW k \in AfterReopen(t), NEW U, NEW L, NEW S, NEW O,
           task[t].call = "listen" \/ task[t].fd \in U \cap L
    PROVE  Fits(k, U, L, S, O) /\ (k.fd = NONE \/ k.fd = task[t].fd)
           /\ (k.call = task[t].call \/ k.fd = NONE)
<1>1. Fits(task[t], used, listening, sn, owner)
  BY DEF OwnInv
<1>2. task[t].call # "raw"
  BY <1>1 DEF Fits
<1>3. CASE task[t].call \in Accepting
  <2>1. k = In("poll", task[t].call, task[t].fd, NONE) \/ k = Idle
    BY <1>3 DEF AfterReopen, AfterTurn, Accepting
  <2> QED BY <1>3, <2>1 DEF Fits, In, Idle, Accepting
<1>4. CASE task[t].call = "rearm"
  <2>1. k = [task[t] EXCEPT !.pc = "rearm"]
    BY <1>4 DEF AfterReopen, Accepting
  <2>2. task[t] \in Place
    BY DEF OwnInv, TypeInv, TypeOK, Place
  <2> QED BY <1>4, <2>1, <2>2 DEF Fits, Place
<1>5. CASE task[t].call \notin Accepting /\ task[t].call # "rearm"
  <2>1. k = Idle
    BY <1>5 DEF AfterReopen, Accepting
  <2> QED BY <2>1 DEF Fits, Idle, Accepting
<1> QED BY <1>3, <1>4, <1>5

(* Claiming the lowest free socket for a listener that has none *)
LEMMA OwnRearm ==
    ASSUME Serial, OwnInv, TypeInv', NEW t \in Tasks, MayRun(t),
           NEW fd \in used \cap listening, sn[fd] = NONE,
           NEW call \in Accepting \cup {"rearm"}, NEW todo \in SUBSET Descs,
           Rearm(t, fd, call, todo), UNCHANGED <<used, listening>>,
           \A u \in Tasks \ {t} : task[u].fd # NONE =>
               \/ task[u].fd # fd
               \/ call = "rearm" /\ task[u].pc = "poll"
    PROVE  OwnInv'
<1>1. PICK s \in FreeSocks :
        /\ owner' = [owner EXCEPT ![s] = fd]
        /\ sn' = [sn EXCEPT ![fd] = s]
        /\ Goto(t, [In("open", call, fd, s) EXCEPT !.todo = todo])
  BY DEF Rearm, Lowest
<1> DEFINE k == [In("open", call, fd, s) EXCEPT !.todo = todo]
<1>2. s \in Socks /\ owner[s] = TOE_SN_FREE /\ fd \in Descs
  BY DEF FreeSocks, OwnInv, TypeInv, TypeOK
<1>3. sn'[fd] = s /\ \A g \in Descs \ {fd} : sn'[g] = sn[g]
  BY <1>1, <1>2 DEF OwnInv, TypeInv, TypeOK
<1>4. k \in Place /\ k.fd = fd /\ k.call = call
  BY <1>2 DEF In, Place, Places, Calls, Accepting
<1>5. Fits(k, used', listening', sn', owner')
  BY <1>2, <1>3 DEF Fits, In, Accepting
<1>6. Ownership'
  BY <1>1, <1>2, Constants DEF OwnInv, Ownership, TypeInv, TypeOK
<1>7. ASSUME NEW u \in Tasks \ {t}
      PROVE  /\ task[u].pc = "poll" => task[u].fd \in used' \cap listening'
             /\ task[u].pc = "discon" =>
                  task[u].fd \in used' /\ sn'[task[u].fd] = sn[task[u].fd]
  <2>1. Fits(task[u], used, listening, sn, owner) /\ used \subseteq Descs
    BY DEF OwnInv, TypeInv, TypeOK
  <2> QED BY <1>2, <1>3, <2>1, OthersYield, Constants DEF Fits
<1> HIDE DEF k
<1> QED BY <1>1, <1>4, <1>5, <1>6, <1>7, Frame DEF OwnInv, k

(* Giving up the socket of one descriptor keeps the tables inverse. *)
LEMMA OwnGiveUp ==
    ASSUME TypeOK, Ownership, NEW fd \in Descs, NEW s \in Socks, sn[fd] = s,
           owner' = [owner EXCEPT ![s] = TOE_SN_FREE],
           sn' = [sn EXCEPT ![fd] = NONE],
           used \ {fd} \subseteq used'
    PROVE  Ownership'
<1>1. sn'[fd] = NONE /\ \A g \in Descs \ {fd} : sn'[g] = sn[g]
  BY DEF TypeOK
<1>2. owner'[s] = TOE_SN_FREE /\ \A r \in Socks \ {s} : owner'[r] = owner[r]
  BY DEF TypeOK
<1>3. ASSUME NEW g \in Descs, sn'[g] # NONE
      PROVE  g \in used' /\ owner'[sn'[g]] = g
  <2>1. g # fd /\ sn'[g] = sn[g] /\ sn[g] \in Socks /\ owner[sn[g]] = g
    BY <1>1, <1>3 DEF Ownership, TypeOK
  <2>2. owner[s] = fd
    BY Constants DEF Ownership
  <2> QED BY <1>2, <1>3, <2>1, <2>2 DEF Ownership
<1>4. ASSUME NEW r \in Socks, owner'[r] \in Descs
      PROVE  sn'[owner'[r]] = r
  <2>1. r # s /\ owner'[r] = owner[r]
    BY <1>2, <1>4, Constants
  <2>2. sn[owner[r]] = r
    BY <1>4, <2>1 DEF Ownership
  <2> QED BY <1>1, <1>4, <2>1, <2>2
<1> QED BY <1>3, <1>4 DEF Ownership

(* So does handing the listener's socket to a new descriptor. *)
LEMMA OwnHandOver ==
    ASSUME TypeOK, Ownership, NEW fd \in used, NEW cfd \in Descs \ used,
           NEW s \in Socks, sn[fd] = s,
           owner' = [owner EXCEPT ![s] = cfd],
           sn' = [sn EXCEPT ![cfd] = s, ![fd] = NONE],
           used' = used \cup {cfd}
    PROVE  Ownership'
<1>0. fd \in Descs /\ cfd # fd
  BY DEF TypeOK
<1>1. /\ sn'[fd] = NONE /\ sn'[cfd] = s
      /\ \A g \in Descs \ {fd, cfd} : sn'[g] = sn[g]
  BY <1>0 DEF TypeOK
<1>2. owner'[s] = cfd /\ \A r \in Socks \ {s} : owner'[r] = owner[r]
  BY DEF TypeOK
<1>3. owner[s] = fd
  BY <1>0, Constants DEF Ownership
<1>4. ASSUME NEW g \in Descs, sn'[g] # NONE
      PROVE  g \in used' /\ owner'[sn'[g]] = g
  <2>1. CASE g = cfd
    BY <1>1, <1>2, <2>1
  <2>2. CASE g # cfd
    <3>1. g # fd /\ sn'[g] = sn[g] /\ sn[g] \in Socks /\ owner[sn[g]] = g
      BY <1>0, <1>1, <1>4, <2>2 DEF Ownership, TypeOK
    <3> QED BY <1>2, <1>3, <1>4, <3>1 DEF Ownership
  <2> QED BY <2>1, <2>2
<1>5. ASSUME NEW r \in Socks, owner'[r] \in Descs
      PROVE  sn'[owner'[r]] = r
  <2>1. CASE r = s
    BY <1>1, <1>2, <2>1
  <2>2. CASE r # s
    <3>1. owner'[r] = owner[r] /\ sn[owner[r]] = r
      BY <1>2, <1>5, <2>2 DEF Ownership
    <3>2. owner[r] # fd /\ owner[r] # cfd
      BY <1>5, <2>2, <3>1, Constants DEF Ownership
    <3> QED BY <1>1, <1>5, <3>1, <3>2
  <2> QED BY <2>1, <2>2
<1> QED BY <1>4, <1>5 DEF Ownership

(* Ownership: every further step of a call. *)
LEMMA OwnStep ==
    ASSUME Serial, OwnInv, NEW t \in Tasks, Step(t)
    PROVE  OwnInv'
<1>0. TypeInv /\ TypeInv' /\ task[t] \in Place
  BY TypeStep DEF OwnInv, TypeInv, TypeOK, Place
<1>f. Fits(task[t], used, listening, sn, owner)
  BY DEF OwnInv
<1>y. ASSUME MayRun(t), NEW u \in Tasks \ {t}
      PROVE  /\ task[u].fd # NONE => \/ task[u].fd # task[t].fd
                                     \/ /\ task[t].call = "rearm"
                                        /\ task[u].pc = "poll"
             /\ task[u].pc = "poll" => task[u].fd \in used \cap listening
             /\ task[u].pc = "discon" => task[u].fd \in used
                                         /\ sn[task[u].fd] \in Socks
             /\ task[u].pc \in {"poll", "discon"} => task[u].fd \in Descs
  <2>1. Fits(task[u], used, listening, sn, owner) /\ used \subseteq Descs
    BY DEF OwnInv, TypeInv, TypeOK
  <2> QED BY <1>y, <2>1, OthersYield DEF Fits
<1>q. ASSUME MayRun(t), NEW k \in Place, Goto(t, k),
             UNCHANGED <<used, sn, listening, owner>>,
             Fits(k, used, listening, sn, owner),
             k.fd = NONE \/ (k.fd = task[t].fd /\ k.call = task[t].call)
      PROVE  OwnInv'
  BY <1>0, <1>y, <1>q, QuietFrame
<1>r. ASSUME MayRun(t), task[t].pc \in {"open", "listen"},
             Resume(t, AfterReopen(t)),
             UNCHANGED <<used, sn, listening, owner>>
      PROVE  OwnInv'
  <2>1. PICK k \in AfterReopen(t) : Goto(t, k)
    BY <1>r DEF Resume
  <2>2. task[t].fd \in used \cap listening /\ task[t].fd \in Descs
    BY <1>0, <1>f, <1>r DEF Fits, TypeInv, TypeOK
  <2>3. k \in Place
    BY <1>0, <2>2, AfterReopenType
  <2>4. Fits(k, used, listening, sn, owner)
        /\ (k.fd = NONE \/ (k.fd = task[t].fd /\ k.call = task[t].call))
    BY <1>r, <2>2, AfterReopenFits
  <2> QED BY <1>q, <1>r, <2>1, <2>3, <2>4
<1>i. Idle.fd = NONE /\ Fits(Idle, used, listening, sn, owner)
  BY DEF Fits, Idle, Accepting
<1>1. ASSUME Open(t) PROVE OwnInv'
  <2>1. MayRun(t) /\ task[t].pc = "open"
        /\ UNCHANGED <<used, sn, listening, owner>>
    BY <1>1 DEF Open, At
  <2>2. CASE Resume(t, AfterReopen(t))
    BY <1>r, <2>1, <2>2
  <2>3. CASE ~Resume(t, AfterReopen(t))
    <3> DEFINE k == [task[t] EXCEPT !.pc = "listen"]
    <3>1. Goto(t, k)
      BY <1>1, <2>3 DEF Open
    <3>2. k \in Place /\ k.fd = task[t].fd /\ k.call = task[t].call
      BY <1>0 DEF Place, Places
    <3>3. Fits(k, used, listening, sn, owner)
      BY <1>0, <1>f, <2>1 DEF Fits, Place
    <3> HIDE DEF k
    <3> QED BY <1>q, <2>1, <3>1, <3>2, <3>3
  <2> QED BY <2>2, <2>3
<1>2. ASSUME ListenOk(t) PROVE OwnInv'
  BY <1>r, <1>2 DEF ListenOk, At, descVars
<1>3. ASSUME ListenFail(t) PROVE OwnInv'
  <2> DEFINE fd == task[t].fd
  <2>1. MayRun(t) /\ task[t].pc = "listen" /\ used' = used
        /\ Resume(t, AfterReopen(t))
    BY <1>3 DEF ListenFail, At
  <2>2. fd \in used \cap listening /\ fd \in Descs /\ sn[fd] \in Socks
    BY <1>0, <1>f, <2>1 DEF Fits, TypeInv, TypeOK
  <2>3. PICK k \in AfterReopen(t) : Goto(t, k)
    BY <2>1 DEF Resume
  <2>4. k \in Place
    BY <1>0, <2>2, AfterReopenType
  <2>5. /\ k.fd = NONE \/ (k.fd = fd /\ k.call = task[t].call)
        /\ Fits(k, used', listening', sn', owner')
    BY <1>3, <2>1, <2>2, AfterReopenFits DEF ListenFail
  <2>6. CASE task[t].call = "listen"
    <3>1. UNCHANGED <<used, owner, sn>> /\ listening' = listening \ {fd}
      BY <1>3, <2>6 DEF ListenFail
    <3>2. Ownership'
      BY <3>1 DEF OwnInv, Ownership
    <3>3. ASSUME NEW u \in Tasks \ {t}
          PROVE  /\ task[u].pc = "poll" => task[u].fd \in used' \cap listening'
                 /\ task[u].pc = "discon" =>
                      task[u].fd \in used' /\ sn'[task[u].fd] = sn[task[u].fd]
      BY <1>y, <2>1, <2>2, <2>6, <3>1, Constants
    <3> QED BY <1>0, <1>y, <2>1, <2>3, <2>4, <2>5, <3>2, <3>3, Frame DEF OwnInv
  <2>7. CASE task[t].call # "listen"
    <3>1. /\ UNCHANGED <<used, listening>>
          /\ owner' = [owner EXCEPT ![sn[fd]] = TOE_SN_FREE]
          /\ sn' = [sn EXCEPT ![fd] = NONE]
      BY <1>3, <2>2, <2>7, Constants DEF ListenFail, Disarm
    <3>2. Ownership'
      BY <1>0, <2>2, <3>1, OwnGiveUp DEF OwnInv, TypeInv
    <3>3. ASSUME NEW u \in Tasks \ {t}
          PROVE  /\ task[u].pc = "poll" => task[u].fd \in used' \cap listening'
                 /\ task[u].pc = "discon" =>
                      task[u].fd \in used' /\ sn'[task[u].fd] = sn[task[u].fd]
      BY <1>0, <1>y, <2>1, <2>2, <3>1, Constants DEF TypeInv, TypeOK
    <3> QED BY <1>0, <1>y, <2>1, <2>3, <2>4, <2>5, <3>2, <3>3, Frame DEF OwnInv
  <2> QED BY <2>6, <2>7
<1>4. ASSUME PollUnarmed(t) PROVE OwnInv'
  <2>1. MayRun(t) /\ task[t].pc = "poll" /\ sn[task[t].fd] = NONE
        /\ UNCHANGED <<used, listening>>
    BY <1>4 DEF PollUnarmed, At
  <2>2. task[t].fd \in used \cap listening /\ task[t].call \in Accepting
    BY <1>f, <2>1 DEF Fits
  <2>3. CASE Rearm(t, task[t].fd, task[t].call, {})
    BY <1>0, <1>y, <2>1, <2>2, <2>3, OwnRearm DEF Accepting
  <2>4. CASE ~Rearm(t, task[t].fd, task[t].call, {})
    <3>1. PICK k \in AfterTurn(t) : Goto(t, k)
      BY <1>4, <2>4 DEF PollUnarmed, Resume
    <3>2. k \in Place
      BY <1>0, <2>2, AfterTurnType DEF TypeInv, TypeOK
    <3>3. Fits(k, used, listening, sn, owner)
          /\ (k.fd = NONE \/ (k.fd = task[t].fd /\ k.call = task[t].call))
      BY <1>i, <2>2 DEF AfterTurn, Fits, In, Idle, Accepting
    <3>4. UNCHANGED <<sn, owner>>
      BY <1>4, <2>4 DEF PollUnarmed
    <3> QED BY <1>q, <2>1, <3>1, <3>2, <3>3, <3>4
  <2> QED BY <2>3, <2>4
<1>5. ASSUME PollArmed(t) PROVE OwnInv'
  <2> DEFINE j(pc) == In(pc, task[t].call, task[t].fd, sn[task[t].fd])
  <2>1. MayRun(t) /\ task[t].pc = "poll"
        /\ UNCHANGED <<used, sn, listening, owner>>
    BY <1>5 DEF PollArmed, At, descVars
  <2>2. /\ task[t].fd \in used \cap listening /\ task[t].call \in Accepting
        /\ task[t].fd \in Descs /\ sn[task[t].fd] \in Socks
    BY <1>0, <1>5, <1>f, <2>1 DEF Fits, PollArmed, TypeInv, TypeOK
  <2>3. ASSUME NEW pc \in {"established", "listen", "open"}
        PROVE  /\ j(pc) \in Place
               /\ Fits(j(pc), used, listening, sn, owner)
               /\ j(pc).fd = task[t].fd /\ j(pc).call = task[t].call
    BY <2>2 DEF In, Place, Places, Calls, Accepting, Fits
  <2>4. CASE Resume(t, AfterTurn(t))
    <3>1. PICK k \in AfterTurn(t) : Goto(t, k)
      BY <2>4 DEF Resume
    <3>2. k \in Place
      BY <1>0, <2>2, AfterTurnType
    <3>3. Fits(k, used, listening, sn, owner)
          /\ (k.fd = NONE \/ (k.fd = task[t].fd /\ k.call = task[t].call))
      BY <1>i, <2>2 DEF AfterTurn, Fits, In, Idle, Accepting
    <3> QED BY <1>q, <2>1, <3>1, <3>2, <3>3
  <2>5. CASE ~Resume(t, AfterTurn(t))
    <3>1. PICK pc \in {"established", "listen", "open"} : Goto(t, j(pc))
      BY <1>5, <2>5 DEF PollArmed
    <3> QED BY <1>q, <2>1, <2>3, <3>1
  <2> QED BY <2>4, <2>5
<1>6. ASSUME EstablishedNoDesc(t) PROVE OwnInv'
  BY <1>i, <1>q, <1>6, IdleType DEF EstablishedNoDesc, At, descVars
<1>7. ASSUME Established(t) PROVE OwnInv'
  <2> DEFINE fd == task[t].fd
             s  == sn[fd]
  <2>1. MayRun(t) /\ task[t].pc = "established"
    BY <1>7 DEF Established, At
  <2>2. /\ fd \in used \cap listening /\ fd \in Descs /\ s \in Socks
        /\ owner[s] = fd
    <3>1. fd \in used \cap listening /\ fd \in Descs /\ s \in Socks
      BY <1>0, <1>f, <2>1 DEF Fits, TypeInv, TypeOK
    <3> QED BY <3>1, Constants DEF OwnInv, Ownership
  <2>3. PICK cfd \in Descs \ used :
          /\ used' = used \cup {cfd}
          /\ listening' = listening \ {cfd}
          /\ \/ /\ owner' = [owner EXCEPT ![s] = cfd]
                /\ sn' = [sn EXCEPT ![cfd] = s, ![fd] = NONE]
                /\ Goto(t, Idle)
             \/ \E n \in FreeSocks \ {s} :
                /\ owner' = [[owner EXCEPT ![s] = cfd] EXCEPT ![n] = fd]
                /\ sn' = [[sn EXCEPT ![cfd] = s, ![fd] = NONE] EXCEPT ![fd] = n]
                /\ Goto(t, In("open", "accepted", fd, n))
    BY <1>7, <2>2, Constants DEF Established, Lowest, Unused, HandOver
  <2>4. cfd # fd /\ sn[cfd] = NONE
    BY <2>2, <2>3 DEF OwnInv, Ownership
  <2>5. \A g \in Descs \ {fd, cfd} : sn'[g] = sn[g]
    BY <1>0, <2>3 DEF TypeInv, TypeOK
  <2>6. ASSUME NEW u \in Tasks \ {t}
        PROVE  /\ task[u].fd # NONE => task[u].fd # fd
               /\ task[u].pc = "poll" => task[u].fd \in used' \cap listening'
               /\ task[u].pc = "discon" =>
                    task[u].fd \in used' /\ sn'[task[u].fd] = sn[task[u].fd]
    <3>1. task[t].call # "rearm"
      BY <1>f, <2>1 DEF Fits, Accepting
    <3> QED BY <1>y, <2>1, <2>3, <2>5, <3>1, Constants
  <2>7. CASE Goto(t, Idle)
             /\ owner' = [owner EXCEPT ![s] = cfd]
             /\ sn' = [sn EXCEPT ![cfd] = s, ![fd] = NONE]
    <3>1. Ownership'
      BY <1>0, <2>2, <2>3, <2>7, OwnHandOver DEF OwnInv, TypeInv
    <3>2. Fits(Idle, used', listening', sn', owner')
      BY DEF Fits, Idle, Accepting
    <3> QED BY <1>0, <1>i, <2>1, <2>6, <2>7, <3>1, <3>2, IdleType, Frame
        DEF OwnInv
  <2>8. ASSUME NEW n \in FreeSocks \ {s},
               owner' = [[owner EXCEPT ![s] = cfd] EXCEPT ![n] = fd],
               sn' = [[sn EXCEPT ![cfd] = s, ![fd] = NONE] EXCEPT ![fd] = n],
               Goto(t, In("open", "accepted", fd, n))
        PROVE  OwnInv'
    <3> DEFINE k == In("open", "accepted", fd, n)
    <3>1. n \in Socks /\ owner[n] = TOE_SN_FREE
      BY <2>8 DEF FreeSocks
    <3>2. Ownership'
      <4>1. /\ owner \in [Socks -> Descs \cup {TOE_SN_FREE, TOE_SN_RAW}]
            /\ sn \in [Descs -> Socks \cup {NONE}]
            /\ Ownership /\ cfd \in Descs \ used /\ fd \in used \cap Descs
        BY <1>0, <2>2, <2>3 DEF OwnInv, TypeInv, TypeOK, Unused, Lowest
      <4>2. /\ owner'[s] = cfd /\ owner'[n] = fd
            /\ \A r \in Socks \ {s, n} : owner'[r] = owner[r]
        BY <2>2, <2>8, <3>1, <4>1
      <4>3. /\ sn'[cfd] = s /\ sn'[fd] = n
            /\ \A g \in Descs \ {fd, cfd} : sn'[g] = sn[g]
        BY <2>2, <2>4, <2>8, <3>1, <4>1
      <4>4. ASSUME NEW g \in Descs, sn'[g] # NONE
            PROVE  g \in used' /\ owner'[sn'[g]] = g
        <5>1. CASE g \in {fd, cfd}
          BY <2>3, <2>4, <4>1, <4>2, <4>3, <5>1
        <5>2. CASE g \notin {fd, cfd}
          <6>1. sn'[g] = sn[g] /\ sn[g] \in Socks /\ g \in used
                /\ owner[sn[g]] = g
            BY <4>1, <4>3, <4>4, <5>2 DEF Ownership
          <6>2. sn[g] # s /\ sn[g] # n
            BY <2>2, <3>1, <4>1, <5>2, <6>1, Constants DEF Ownership
          <6> QED BY <2>3, <4>2, <6>1, <6>2
        <5> QED BY <5>1, <5>2
      <4>5. ASSUME NEW r \in Socks, owner'[r] \in Descs
            PROVE  sn'[owner'[r]] = r
        <5>1. CASE r \in {s, n}
          BY <4>2, <4>3, <5>1
        <5>2. CASE r \notin {s, n}
          <6>1. owner[r] = owner'[r] /\ sn[owner[r]] = r
            BY <4>1, <4>2, <4>5, <5>2 DEF Ownership
          <6>2. owner[r] # fd /\ owner[r] # cfd
            BY <2>2, <2>4, <3>1, <4>1, <5>2, <6>1, Constants DEF Ownership
          <6> QED BY <4>3, <4>5, <6>1, <6>2
        <5> QED BY <5>1, <5>2
      <4> QED BY <4>4, <4>5 DEF Ownership
    <3>3. k \in Place /\ k.fd = fd
      BY <2>2, <3>1 DEF In, Place, Places, Calls
    <3>4. sn'[fd] = n /\ fd \in used' \cap listening'
      BY <1>0, <2>2, <2>3, <2>4, <2>8 DEF TypeInv, TypeOK
    <3>5. Fits(k, used', listening', sn', owner')
      BY <3>1, <3>4 DEF Fits, In, Accepting
    <3>6. Goto(t, k)
      BY <2>8
    <3> HIDE DEF k
    <3> QED BY <1>0, <2>1, <2>6, <3>2, <3>3, <3>5, <3>6, Frame DEF OwnInv
  <2> QED BY <2>3, <2>7, <2>8
<1>8. ASSUME ConnectReturns(t) PROVE OwnInv'
  BY <1>i, <1>q, <1>8, IdleType DEF ConnectReturns, At, descVars
<1>9. ASSUME DisconnectReturns(t) PROVE OwnInv'
  <2> DEFINE k == [task[t] EXCEPT !.pc = "close"]
  <2>1. MayRun(t) /\ task[t].pc = "discon"
        /\ UNCHANGED <<used, sn, listening, owner>>
    BY <1>9 DEF DisconnectReturns, At, descVars
  <2>2. k \in Place /\ k.fd = task[t].fd /\ k.call = task[t].call
    BY <1>0 DEF Place, Places
  <2>3. task[t].call = "close" => Fits(k, used, listening, sn, owner)
    BY <1>0, <1>f, <2>1 DEF Fits, Place
  <2>4. (task[t].call = "close" /\ Goto(t, k)) \/ Goto(t, Idle)
    BY <1>9 DEF DisconnectReturns
  <2> HIDE DEF k
  <2> QED BY <1>i, <1>q, <2>1, <2>2, <2>3, <2>4, IdleType
<1>10. ASSUME CloseChip(t) PROVE OwnInv'
  <2> DEFINE k == [task[t] EXCEPT !.pc = "release"]
  <2>1. MayRun(t) /\ task[t].pc = "close" /\ Goto(t, k)
        /\ UNCHANGED <<used, sn, listening, owner>>
    BY <1>10 DEF CloseChip, At, descVars
  <2>2. k \in Place /\ k.fd = task[t].fd /\ k.call = task[t].call
    BY <1>0 DEF Place, Places
  <2>3. Fits(k, used, listening, sn, owner)
    BY <1>0, <1>f, <2>1 DEF Fits, Place
  <2> HIDE DEF k
  <2> QED BY <1>q, <2>1, <2>2, <2>3
<1>11. ASSUME Release(t) PROVE OwnInv'
  <2> DEFINE fd == task[t].fd
             s  == task[t].sn
  <2>1. MayRun(t) /\ task[t].pc = "release" /\ Goto(t, RearmAll)
    BY <1>11 DEF Release, At
  <2>2. s \in Socks /\ owner' = [owner EXCEPT ![s] = TOE_SN_FREE]
    BY <1>11, <1>f, <2>1, Constants DEF Fits, Release
  <2>3. Fits(RearmAll, used', listening', sn', owner') /\ RearmAll.fd = NONE
    BY DEF Fits, RearmAll, In
  <2>4. CASE task[t].call = "raw"
    <3>1. UNCHANGED <<used, sn, listening>> /\ owner[s] = TOE_SN_RAW
      BY <1>11, <1>f, <2>4 DEF Release, Fits
    <3>2. Ownership'
      BY <1>0, <2>2, <3>1, Constants DEF OwnInv, Ownership, TypeInv, TypeOK
    <3>3. ASSUME NEW u \in Tasks \ {t}
          PROVE  /\ task[u].pc = "poll" => task[u].fd \in used' \cap listening'
                 /\ task[u].pc = "discon" =>
                      task[u].fd \in used' /\ sn'[task[u].fd] = sn[task[u].fd]
      BY <1>y, <2>1, <3>1
    <3> QED BY <1>0, <2>1, <2>3, <3>2, <3>3, RearmAllType, Frame DEF OwnInv
  <2>5. CASE task[t].call # "raw"
    <3>1. fd \in used /\ fd \in Descs /\ sn[fd] = s /\ task[t].call = "close"
      BY <1>0, <1>f, <2>1, <2>5 DEF Fits, TypeInv, TypeOK
    <3>2. DescClear(fd)
      BY <1>11, <2>5 DEF Release
    <3>3. Ownership'
      BY <1>0, <2>2, <3>1, <3>2, OwnGiveUp DEF OwnInv, DescClear, TypeInv
    <3>4. ASSUME NEW u \in Tasks \ {t}
          PROVE  /\ task[u].pc = "poll" => task[u].fd \in used' \cap listening'
                 /\ task[u].pc = "discon" =>
                      task[u].fd \in used' /\ sn'[task[u].fd] = sn[task[u].fd]
      BY <1>0, <1>y, <2>1, <3>1, <3>2, Constants DEF DescClear, TypeInv, TypeOK
    <3> QED BY <1>0, <2>1, <2>3, <3>3, <3>4, RearmAllType, Frame DEF OwnInv
  <2> QED BY <2>4, <2>5
<1>12. ASSUME RearmNext(t) PROVE OwnInv'
  <2>1. PICK fd \in Descs :
          /\ fd \in Pending(task[t].todo)
          /\ Rearm(t, fd, "rearm", {d \in task[t].todo : d > fd})
    BY <1>12 DEF RearmNext, Lowest
  <2>2. {d \in task[t].todo : d > fd} \in SUBSET Descs
    BY <1>0 DEF Place
  <2>3. fd \in used \cap listening /\ sn[fd] = NONE
    BY <2>1 DEF Pending
  <2>4. MayRun(t) /\ UNCHANGED <<used, listening>>
    BY <1>12 DEF RearmNext, At
  <2>5. ASSUME NEW u \in Tasks \ {t}, task[u].fd = fd, task[u].fd # NONE
        PROVE  task[u].pc = "poll"
    <3>1. task[u].pc \in {"idle", "poll", "discon"}
      BY <2>4, OthersYield DEF YieldPoints
    <3>2. Fits(task[u], used, listening, sn, owner)
      BY DEF OwnInv
    <3> QED BY <1>y, <2>3, <2>4, <2>5, <3>1, <3>2, Constants DEF Fits, Idle
  <2> QED BY <1>0, <2>1, <2>2, <2>3, <2>4, <2>5, OwnRearm
<1>13. ASSUME RearmDone(t) PROVE OwnInv'
  BY <1>i, <1>q, <1>13, IdleType DEF RearmDone, At, descVars
<1> QED BY <1>1, <1>2, <1>3, <1>4, <1>5, <1>6, <1>7, <1>8, <1>9, <1>10,
           <1>11, <1>12, <1>13 DEF Step

(* Ownership: the chip and the network never write the tables. *)
LEMMA OwnChip ==
    ASSUME OwnInv, (\E s \in Socks : Chip(s)) \/ AddressChange
    PROVE  OwnInv'
<1>1. TypeInv'
  BY TypeChip DEF OwnInv
<1>2. UNCHANGED <<used, sn, listening, owner, task>>
  BY DEF Chip, SynArrives, HandshakeDone, HandshakeFails, PeerFin, PeerReset,
         ClosingDone, Becomes, AddressChange, descVars
<1> QED BY <1>1, <1>2 DEF OwnInv, Ownership

(* When tasks switch at yields only and do not share a descriptor, the two *)
(* tables stay inverse to each other whatever the tasks call, the chip     *)
(* does and however many sockets, descriptors and tasks there are: no      *)
(* hardware socket leaks, and none serves two descriptors.                 *)
THEOREM OwnershipKept ==
    ASSUME Serial
    PROVE  Spec => []Ownership
<1>1. Init => OwnInv
  <2> SUFFICES ASSUME Init PROVE OwnInv
    OBVIOUS
  <2>1. TypeInv
    <3>1. task \in [Tasks -> Place] /\ \A t \in Tasks : Named(task[t])
      BY IdleType DEF Init
    <3> QED BY <3>1 DEF Init, TypeInv, TypeOK, Place, Status
  <2>2. Ownership
    BY Constants DEF Init, Ownership
  <2>3. \A t \in Tasks : task[t] = Idle
    BY DEF Init
  <2> QED BY <2>1, <2>2, <2>3
      DEF OwnInv, Fits, Apart, OneRuns, Idle, Accepting, YieldPoints
<1>2. OwnInv /\ [Next]_vars => OwnInv'
  <2> SUFFICES ASSUME OwnInv, [Next]_vars PROVE OwnInv'
    OBVIOUS
  <2>1. CASE UNCHANGED vars
    BY <2>1 DEF vars, OwnInv, TypeInv, TypeOK, Ownership
  <2> QED BY <2>1, OwnNewCall, OwnStep, OwnChip DEF Next
<1>3. OwnInv => Ownership
  BY DEF OwnInv
<1> QED BY <1>1, <1>2, <1>3, PTL DEF Spec

=============================================================================
