-------------------------------- MODULE Tftp --------------------------------
(***************************************************************************)
(* The TFTP read client of src/examples/tftp: the protocol of tftp_core.c, *)
(* driven by the task of tftp_client.c and by its one-second tick, over a  *)
(* network that loses, delays, duplicates and reorders datagrams.          *)
(*                                                                         *)
(* The server is what the client talks to: every request that reaches it   *)
(* opens a session on a port of its own, and a session sends the next      *)
(* block when the last one is acknowledged.  What it has sent may arrive   *)
(* any number of times, so the network is not a variable: block i of       *)
(* session p may arrive when served[p] >= i.                               *)
(***************************************************************************)
EXTENDS Integers, Sequences

CONSTANTS
    MaxBlocks,    \* bound: blocks of the file
    Sessions,     \* bound: requests that reach the server, 1 .. n
    Wrap,         \* block numbers are uint16_t: 2^16
    Timeout,      \* g_timeout, in ticks
    MaxRetry      \* resends before the client gives up

VARIABLES
    last, options,            \* the file's blocks; does the server send OACK
    leftover,                 \* last block, still repeated by the server, of
                              \* a transfer from before a restart
    served, acks,             \* sessions; ACKs that have been sent
    step,                     \* where tftp_client_task() is
    state, block, port,       \* g_tftp_state, g_block_num, g_server_port
    flag, time_cnt, retry_cnt,\* g_resend_flag and its counters
    progress,                 \* g_progress_state
    saved, outcome            \* save_data() calls; what the task reported

server == <<last, options, leftover, served, acks>>
timer  == <<flag, time_cnt, retry_cnt>>
client == <<state, block, port, progress>>
vars   == <<server, step, client, timer, saved, outcome>>

Old     == 0                   \* a port of no session
Unasked == -1                  \* no request has opened this session
Refused == -2                  \* ERROR was the answer

TypeOK ==
    /\ last \in 1 .. MaxBlocks /\ options \in BOOLEAN
    /\ leftover \in 0 .. MaxBlocks
    /\ served \in [Sessions -> Refused .. MaxBlocks]
    /\ step \in {"link", "timeout", "receive", "done"}
    /\ state \in {"NONE", "RRQ", "OACK", "DATA"}
    /\ block \in 0 .. Wrap - 1 /\ port \in Sessions \cup {Old}
    /\ flag \in BOOLEAN /\ time_cnt \in 0 .. Timeout
    /\ retry_cnt \in 0 .. MaxRetry
    /\ progress \in {"PROGRESS", "FAIL", "SUCCESS"}
    /\ outcome \in {"none", "received", "failed"}

Init ==
    /\ last \in 1 .. MaxBlocks /\ options \in BOOLEAN
    /\ leftover \in 0 .. MaxBlocks
    /\ served = [p \in Sessions |-> Unasked] /\ acks = {}
    /\ step = "link"
    /\ state = "NONE" /\ block = 0 /\ port = Old
    /\ flag = FALSE /\ time_cnt = 0 /\ retry_cnt = 0
    /\ progress = "PROGRESS" /\ saved = <<>> /\ outcome = "none"

-----------------------------------------------------------------------------
(* The server *)

OpenSession ==
    \E p \in Sessions :
        /\ state # "NONE" /\ served[p] = Unasked
        /\ \/ served' = [served EXCEPT ![p] = IF options THEN 0 ELSE 1]
           \/ served' = [served EXCEPT ![p] = Refused]
        /\ UNCHANGED <<last, options, leftover, acks, step, client, timer,
                       saved, outcome>>

ServeNext ==
    \E p \in Sessions :
        /\ served[p] >= 0 /\ served[p] < last
        /\ <<p, served[p] % Wrap>> \in acks
        /\ served' = [served EXCEPT ![p] = served[p] + 1]
        /\ UNCHANGED <<last, options, leftover, acks, step, client, timer,
                       saved, outcome>>

Packet(p, op, i, short) == [port |-> p, op |-> op, index |-> i,
                            num |-> i % Wrap, short |-> short]
Arriving ==
    {Packet(q[1], "DATA", q[2], q[2] = last) :
        q \in {r \in Sessions \X (1 .. last) : r[2] <= served[r[1]]}}
    \cup {Packet(p, "OACK", 0, FALSE) :
            p \in {q \in Sessions : options /\ served[q] >= 0}}
    \cup {Packet(p, "ERROR", 0, FALSE) :
            p \in {q \in Sessions : served[q] = Refused}}
    \cup {Packet(Old, "DATA", i, TRUE) : i \in {leftover} \ {0}}

-----------------------------------------------------------------------------
(* The protocol *)

(* init_tftp(); a state other than NONE is also a server address. *)
InitTftp(result) ==
    /\ state' = "NONE" /\ block' = 0 /\ port' = Old
    /\ flag' = FALSE /\ time_cnt' = 0 /\ retry_cnt' = 0
    /\ progress' = result

Register == flag' = TRUE          \* tftp_reg_timeout()
KeepCount_Not == time_cnt' = 0 /\ retry_cnt' = 0               \* mutant
KeepCount == UNCHANGED <<time_cnt, retry_cnt>>
Restart == time_cnt' = 0 /\ retry_cnt' = 0

(* The task sees the link, starts the tick, and requests the file. *)
Request ==
    /\ step = "link" /\ step' = "timeout"
    /\ state' = "RRQ" /\ Register /\ KeepCount
    /\ UNCHANGED <<server, block, port, progress, saved, outcome>>

(* tftp_tick() -> tftpc_timeout_handler(), on the esp_timer task *)
Tick ==
    /\ step # "done" /\ flag /\ time_cnt < Timeout
    /\ time_cnt' = time_cnt + 1
    /\ UNCHANGED <<server, step, client, flag, retry_cnt, saved, outcome>>

(* The first half of tftpc_run(): a request or an ACK is sent again. *)
Expired == flag /\ time_cnt >= Timeout
Ack(p, num) == acks' = acks \cup {<<p, num>>}
RunTimeout ==
    /\ step = "timeout" /\ step' = "receive"
    /\ \/ ~Expired /\ UNCHANGED <<acks, client, timer>>
       \/ /\ Expired
          /\ IF state = "RRQ" THEN UNCHANGED acks ELSE Ack(port, block)
          /\ \/ /\ retry_cnt + 1 < MaxRetry
                /\ time_cnt' = 0 /\ retry_cnt' = retry_cnt + 1
                /\ UNCHANGED <<client, flag>>
             \/ retry_cnt + 1 >= MaxRetry /\ InitTftp("FAIL")
    /\ UNCHANGED <<last, options, leftover, served, saved, outcome>>

(* recv_tftp_data(): block 1 first, then each next one, is saved; every    *)
(* block is acknowledged, and a short one is the end.                      *)
NextNum == IF state = "DATA" THEN block + 1 ELSE 1
Expected_Any(m) == TRUE                                         \* mutant
Expected(m) == m.num = NextNum
RecvData(m) ==
    /\ m.op = "DATA" /\ state # "NONE"
    /\ LET from == IF state = "RRQ" THEN m.port ELSE port
       IN  /\ Ack(from, m.num)
           /\ saved' = IF Expected(m) THEN Append(saved, m.index) ELSE saved
           /\ \/ m.short /\ InitTftp("SUCCESS")
              \/ /\ ~m.short /\ port' = from /\ Register
                 /\ \/ /\ Expected(m) /\ Restart
                       /\ state' = "DATA" /\ block' = m.num
                    \/ ~Expected(m) /\ KeepCount /\ UNCHANGED <<state, block>>
                 /\ UNCHANGED progress

RecvOack(m) ==
    /\ m.op = "OACK" /\ state = "RRQ"
    /\ state' = "OACK" /\ port' = m.port /\ Ack(m.port, 0)
    /\ Register /\ Restart
    /\ UNCHANGED <<block, progress, saved>>

RecvError(m) ==
    /\ m.op = "ERROR" /\ state # "NONE" /\ InitTftp("FAIL")
    /\ UNCHANGED <<acks, saved>>

Ignored(m) ==
    /\ state = "NONE" \/ (m.op = "OACK" /\ state # "RRQ")
    /\ UNCHANGED <<acks, client, timer, saved>>

(* The second half of tftpc_run(), and what the task makes of its result. *)
Report ==
    /\ step' = IF progress' = "PROGRESS" THEN "timeout" ELSE "done"
    /\ outcome' = CASE progress' = "SUCCESS" -> "received"
                    [] progress' = "FAIL"    -> "failed"
                    [] OTHER                 -> "none"

RunReceive ==
    /\ step = "receive"
    /\ \/ UNCHANGED <<acks, client, timer, saved>>
       \/ \E m \in Arriving :
             RecvData(m) \/ RecvOack(m) \/ RecvError(m) \/ Ignored(m)
    /\ Report
    /\ UNCHANGED <<last, options, leftover, served>>

Client == Request \/ RunTimeout \/ RunReceive
Next == OpenSession \/ ServeNext \/ Tick \/ Client

Spec == Init /\ [][Next]_vars

(* The task and the timer run; nothing is assumed of the server.  *)
Fairness == WF_vars(Tick) /\ WF_vars(Client)
FairSpec == Spec /\ Fairness

-----------------------------------------------------------------------------
(* "received" means the whole file, each block once and in order, whatever *)
(* the network loses, repeats and reorders (tftp_core.c:349-399).  Two     *)
(* things are beyond it: after block 65535 no block is the next one,       *)
(* block_num being compared as an int (:379), and a short block ends the   *)
(* transfer whoever sent it and whatever its number (:371, :388).          *)
WholeFile ==
    last < Wrap /\ leftover = 0 =>
        /\ saved = [i \in 1 .. Len(saved) |-> i]
        /\ outcome = "received" => Len(saved) = last

(* The transfer ends, in success or failure, whatever the server does: the *)
(* retries are counted from the last new block on (tftp_core.c:534-565).   *)
TransferEnds == (step = "timeout") ~> (step = "done")

=============================================================================
