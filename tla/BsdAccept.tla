------------------------------ MODULE BsdAccept ------------------------------
(***************************************************************************)
(* What listen() and accept() of a BSD socket promise, and so what          *)
(* wiznet_toe.c has to provide on a chip that has no backlog: a client's    *)
(* connection waits, is handed to the application under one descriptor, and *)
(* is there until the descriptor is closed.                                 *)
(***************************************************************************)
CONSTANTS Clients, Descs, NoClient

VARIABLES
    fresh,    \* clients that have not called yet
    waiting,  \* clients whose connections nobody has accepted
    conn      \* the client behind each descriptor, or NoClient

vars == <<fresh, waiting, conn>>

Init ==
    /\ fresh = Clients /\ waiting = {}
    /\ conn = [fd \in Descs |-> NoClient]

(* A client calls; its connection waits, or is refused. *)
Call(c) ==
    /\ c \in fresh /\ fresh' = fresh \ {c}
    /\ waiting' \in {waiting, waiting \cup {c}}
    /\ UNCHANGED conn

(* It may give up, or its listener may be closed, before it is accepted. *)
GiveUp(c) ==
    /\ c \in waiting /\ waiting' = waiting \ {c}
    /\ UNCHANGED <<fresh, conn>>

(* accept() returns fd. *)
Accept(c, fd) ==
    /\ c \in waiting /\ waiting' = waiting \ {c}
    /\ conn[fd] = NoClient /\ conn' = [conn EXCEPT ![fd] = c]
    /\ UNCHANGED fresh

(* close() *)
Close(fd) ==
    /\ conn[fd] # NoClient /\ conn' = [conn EXCEPT ![fd] = NoClient]
    /\ UNCHANGED <<fresh, waiting>>

Next ==
    \/ \E c \in Clients : Call(c) \/ GiveUp(c)
    \/ \E c \in Clients, fd \in Descs : Accept(c, fd)
    \/ \E fd \in Descs : Close(fd)

Spec == Init /\ [][Next]_vars
=============================================================================
