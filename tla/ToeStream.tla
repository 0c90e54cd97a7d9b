------------------------------ MODULE ToeStream ------------------------------
(***************************************************************************)
(* The data path of one TCP connection: wiztoe_recv(), wiztoe_send() and   *)
(* wiztoe_shutdown() (wiznet_toe.c) under the vectored calls of the socket *)
(* wrap (wiztoe_wrap.c), against a chip and a peer that go on between any  *)
(* two register reads.  One task reads and one writes.  The bytes of each  *)
(* direction are numbered from 1.                                          *)
(***************************************************************************)
EXTENDS Integers, Sequences, SequencesExt

CONSTANTS
    PeerBytes,  \* bytes the peer sends, at most
    AppBytes,   \* bytes the application writes, at most
    RxSize,     \* bytes the chip's RX buffer holds
    TxSize,     \* bytes the chip's TX buffer holds
    Vectors,    \* the iovecs of the calls, as sequences of lengths
    HalfClose   \* TRUE: the application may call shutdown()

ASSUME SizeAssumption ==
    /\ PeerBytes \in Nat /\ AppBytes \in Nat
    /\ RxSize \in Nat \ {0} /\ TxSize \in Nat \ {0}
ASSUME VectorAssumption ==
    \A v \in Vectors : v # <<>> /\ v \in Seq(Nat \ {0})
ASSUME HalfCloseAssumption == HalfClose \in BOOLEAN

VARIABLES
    sr,         \* Sn_SR
    rx,         \* the chip's RX buffer
    tx,         \* the chip's TX buffer
    sending,    \* the last SEND has not been answered by SENDOK
    wait,       \* O_NONBLOCK and SO_RCVTIMEO / SO_SNDTIMEO of the descriptor
    rdShut,     \* g_desc[fd].rd_shutdown
    rd,         \* the read in progress
    wr,         \* the write in progress
    rdResult,   \* how the last read ended
    wrResult,   \* how the last write ended
    got,        \* the bytes reads have returned
    written,    \* the bytes writes have counted
    sent, fin,  \* what the peer has sent, and whether its FIN too
    arrived     \* what the peer has received

chipVars == <<sr, rx, tx, sending>>
fdVars   == <<wait, rdShut>>
rdVars   == <<rd, rdResult, got>>
wrVars   == <<wr, wrResult, written>>
peerVars == <<sent, fin, arrived>>
vars == <<chipVars, fdVars, rdVars, wrVars, peerVars>>

Connected == {"ESTABLISHED", "CLOSE_WAIT"}
Modes     == {"nonblocking", "timeout", "forever"}
Results   == {"none", "data", "eof", "wouldblock", "error"}

(* A call: where it is, the lengths of the buffers it has left, and what   *)
(* the buffers before them read, or how much they wrote.                   *)
NoRead  == [pc |-> "idle", left |-> <<>>, total |-> <<>>]
NoWrite == [pc |-> "idle", left |-> <<>>, total |-> 0, free |-> 0]

Upto(n) == [i \in 1 .. n |-> i]

(* The chip's buffers never hold more than they have room for. *)
TypeOK ==
    /\ sr \in Connected \cup {"CLOSING", "CLOSED"}
    /\ rx \in Seq(1 .. PeerBytes) /\ Len(rx) <= RxSize
    /\ tx \in Seq(1 .. AppBytes) /\ Len(tx) <= TxSize
    /\ sending \in BOOLEAN
    /\ wait \in Modes /\ rdShut \in BOOLEAN
    /\ rd \in [pc : {"idle", "avail", "recv", "rsr", "sr", "copy"},
               left : Seq(Nat), total : Seq(1 .. PeerBytes)]
    /\ wr \in [pc : {"idle", "sr", "fsr", "send", "discon"},
               left : Seq(Nat), total : Nat, free : 0 .. TxSize]
    /\ rdResult \in Results /\ wrResult \in Results
    /\ got \in Seq(1 .. PeerBytes) /\ written \in 0 .. AppBytes
    /\ sent \in 0 .. PeerBytes /\ fin \in BOOLEAN
    /\ arrived \in Seq(1 .. AppBytes)

(* A connection that accept() or connect() has just returned *)
Init ==
    /\ sr = "ESTABLISHED" /\ rx = <<>> /\ tx = <<>> /\ sending = FALSE
    /\ wait = "forever" /\ rdShut = FALSE
    /\ rd = NoRead /\ wr = NoWrite
    /\ rdResult = "none" /\ wrResult = "none"
    /\ got = <<>> /\ written = 0
    /\ sent = 0 /\ fin = FALSE /\ arrived = <<>>

-----------------------------------------------------------------------------
(* Waiting.  A call that finds nothing to do gives up at once when it is   *)
(* non-blocking, at some turn when it has a timeout, else never.           *)

MayGiveUp == wait \in {"nonblocking", "timeout"}
MayWait   == wait \in {"timeout", "forever"}

(* fcntl(F_SETFL), setsockopt(SO_RCVTIMEO / SO_SNDTIMEO), between calls *)
SetWait(mode) ==
    /\ rd.pc = "idle" /\ wr.pc = "idle"
    /\ mode # wait
    /\ wait' = mode
    /\ rdResult' = "none" /\ wrResult' = "none"
    /\ UNCHANGED <<chipVars, rdShut, rd, got, wr, written, peerVars>>

-----------------------------------------------------------------------------
(* readv(), and so read() and recv(), which are one buffer.                *)

ReadGoto(place) == rd' = [rd EXCEPT !.pc = place]

(* A read that has bytes in hand returns them, whatever stopped it. *)
ReadReturns(otherwise) ==
    /\ rd' = NoRead
    /\ got' = got \o rd.total
    /\ rdResult' = IF rd.total = <<>> THEN otherwise ELSE "data"

Readv(v) ==
    /\ rd.pc = "idle"
    /\ rd' = [pc |-> "recv", left |-> v, total |-> <<>>]
    /\ rdResult' = "none"
    /\ UNCHANGED <<chipVars, fdVars, got, wrVars, peerVars>>

(* A buffer after the first is filled only from what is there. *)
Available == rx # <<>>
ReadAvailable ==
    /\ rd.pc = "avail"
    /\ IF Available THEN ReadGoto("recv") /\ UNCHANGED <<got, rdResult>>
       ELSE ReadReturns("data")
    /\ UNCHANGED <<chipVars, fdVars, wrVars, peerVars>>

(* wiztoe_recv() *)
Recv ==
    /\ rd.pc = "recv"
    /\ IF rdShut THEN ReadReturns("eof")
       ELSE ReadGoto("rsr") /\ UNCHANGED <<got, rdResult>>
    /\ UNCHANGED <<chipVars, fdVars, wrVars, peerVars>>

RecvSize ==
    /\ rd.pc = "rsr"
    /\ ReadGoto(IF rx = <<>> THEN "sr" ELSE "copy")
    /\ UNCHANGED <<chipVars, fdVars, got, rdResult, wrVars, peerVars>>

(* The state test comes before the question whether to wait. *)
Ended_ButNotNonblocking == sr # "ESTABLISHED" /\ MayWait        \* mutant
Ended == sr # "ESTABLISHED"
RecvEnds ==
    /\ rd.pc = "sr" /\ Ended
    /\ ReadReturns("eof")
    /\ UNCHANGED <<chipVars, fdVars, wrVars, peerVars>>

RecvGivesUp ==
    /\ rd.pc = "sr" /\ ~Ended /\ MayGiveUp
    /\ ReadReturns("wouldblock")
    /\ UNCHANGED <<chipVars, fdVars, wrVars, peerVars>>

RecvWaits ==
    /\ rd.pc = "sr" /\ ~Ended /\ MayWait
    /\ ReadGoto("rsr")
    /\ UNCHANGED <<chipVars, fdVars, got, rdResult, wrVars, peerVars>>

(* ioLibrary recv() of at most n bytes.  It refuses a socket that is not   *)
(* connected any more, which is EOF to the caller.                         *)
Remaining_Dropped(n) == <<>>                                    \* mutant
Remaining(n) == SubSeq(rx, n + 1, Len(rx))
RecvCopies ==
    /\ rd.pc = "copy" /\ sr \in Connected
    /\ LET size == Head(rd.left)
           n    == IF size < Len(rx) THEN size ELSE Len(rx)
           now  == rd.total \o SubSeq(rx, 1, n)
       IN /\ rx' = Remaining(n)
          /\ IF n < size \/ Len(rd.left) = 1
             THEN /\ rd' = NoRead
                  /\ got' = got \o now
                  /\ rdResult' = "data"
             ELSE /\ rd' = [pc |-> "avail", left |-> Tail(rd.left), total |-> now]
                  /\ UNCHANGED <<got, rdResult>>
    /\ UNCHANGED <<sr, tx, sending, fdVars, wrVars, peerVars>>

RecvRefused ==
    /\ rd.pc = "copy" /\ sr \notin Connected
    /\ ReadReturns("eof")
    /\ UNCHANGED <<chipVars, fdVars, wrVars, peerVars>>

-----------------------------------------------------------------------------
(* writev(), and so write() and send(), which are one buffer.  The         *)
(* application numbers its next bytes from what its writes have counted.   *)

WriteGoto(place) == wr' = [wr EXCEPT !.pc = place]

(* A write that has sent something counts it, whatever stopped it. *)
WriteReturns_Refused(otherwise) ==                              \* mutant
    /\ wr' = NoWrite
    /\ wrResult' = otherwise
    /\ UNCHANGED written
WriteReturns(otherwise) ==
    /\ wr' = NoWrite
    /\ written' = written + wr.total
    /\ wrResult' = IF wr.total = 0 THEN otherwise ELSE "data"

Writev(v) ==
    /\ wr.pc = "idle"
    /\ written + FoldLeft(+, 0, v) <= AppBytes
    /\ wr' = [NoWrite EXCEPT !.pc = "sr", !.left = v]
    /\ wrResult' = "none"
    /\ UNCHANGED <<chipVars, fdVars, rdVars, written, peerVars>>

(* wiztoe_send() *)
SendState ==
    /\ wr.pc = "sr"
    /\ IF sr \in Connected
       THEN WriteGoto("fsr") /\ UNCHANGED <<written, wrResult>>
       ELSE WriteReturns("error")
    /\ UNCHANGED <<chipVars, fdVars, rdVars, peerVars>>

Free == TxSize - Len(tx)
SendRoom ==
    /\ wr.pc = "fsr" /\ Free > 0
    /\ wr' = [wr EXCEPT !.pc = "send", !.free = Free]
    /\ UNCHANGED <<chipVars, fdVars, rdVars, written, wrResult, peerVars>>

(* ioLibrary's own wait for room instead: SO_SNDTIMEO is ignored. *)
SendGivesUp_Ignored ==                                          \* mutant
    /\ wr.pc = "fsr" /\ Free = 0 /\ wait = "nonblocking"
    /\ WriteReturns("wouldblock")
    /\ UNCHANGED <<chipVars, fdVars, rdVars, peerVars>>
SendGivesUp ==
    /\ wr.pc = "fsr" /\ Free = 0 /\ MayGiveUp
    /\ WriteReturns("wouldblock")
    /\ UNCHANGED <<chipVars, fdVars, rdVars, peerVars>>

SendWaits ==
    /\ wr.pc = "fsr" /\ Free = 0 /\ MayWait
    /\ WriteGoto("sr")
    /\ UNCHANGED <<chipVars, fdVars, rdVars, written, wrResult, peerVars>>

(* What is sent of a buffer: a short write where the room is short. *)
Clamped(size) == IF size < wr.free THEN size ELSE wr.free

(* ioLibrary send() of at most the room seen before.  It says SOCK_BUSY,   *)
(* whatever the mode, while the chip has not answered the last SEND, and   *)
(* refuses a socket that is not connected any more.                        *)
SendTakes ==
    /\ wr.pc = "send" /\ ~sending /\ sr \in Connected
    /\ LET size == Head(wr.left)
           n    == Clamped(size)
           now  == wr.total + n
       IN /\ tx' = tx \o [i \in 1 .. n |-> written + wr.total + i]
          /\ IF n < size \/ Len(wr.left) = 1
             THEN /\ wr' = NoWrite
                  /\ written' = written + now
                  /\ wrResult' = "data"
             ELSE /\ wr' = [pc |-> "sr", left |-> Tail(wr.left),
                            total |-> now, free |-> 0]
                  /\ UNCHANGED <<written, wrResult>>
    /\ sending' = TRUE
    /\ UNCHANGED <<sr, rx, fdVars, rdVars, peerVars>>

SendBusy ==
    /\ wr.pc = "send" /\ sending
    /\ WriteReturns("wouldblock")
    /\ UNCHANGED <<chipVars, fdVars, rdVars, peerVars>>

SendRefused ==
    /\ wr.pc = "send" /\ ~sending /\ sr \notin Connected
    /\ WriteReturns("error")
    /\ UNCHANGED <<chipVars, fdVars, rdVars, peerVars>>

-----------------------------------------------------------------------------
(* wiztoe_shutdown() *)

ShutRd ==
    /\ HalfClose /\ ~rdShut
    /\ rdShut' = TRUE
    /\ UNCHANGED <<chipVars, wait, rdVars, wrVars, peerVars>>

(* toe_tcp_disconnect_bounded(): the FIN, unless the link is down, and a   *)
(* wait that 250 ms end.                                                   *)
ShutWr ==
    /\ HalfClose
    /\ wr.pc = "idle" /\ sr \in Connected
    /\ sr' = "CLOSING"
    /\ WriteGoto("discon")
    /\ UNCHANGED <<rx, tx, sending, fdVars, rdVars, written, wrResult, peerVars>>

ShutWrReturns ==
    /\ wr.pc = "discon"
    /\ wr' = NoWrite
    /\ UNCHANGED <<chipVars, fdVars, rdVars, written, wrResult, peerVars>>

-----------------------------------------------------------------------------
(* The chip and the peer (not in src/) *)

PeerSends ==
    /\ sr \in {"ESTABLISHED", "CLOSING"} /\ ~fin
    /\ sent < PeerBytes /\ Len(rx) < RxSize
    /\ sent' = sent + 1
    /\ rx' = Append(rx, sent + 1)
    /\ UNCHANGED <<sr, tx, sending, fdVars, rdVars, wrVars, fin, arrived>>

PeerFin ==
    /\ sr \in {"ESTABLISHED", "CLOSING"} /\ ~fin
    /\ fin' = TRUE
    /\ sr' = IF sr = "ESTABLISHED" THEN "CLOSE_WAIT" ELSE "CLOSED"
    /\ UNCHANGED <<rx, tx, sending, fdVars, rdVars, wrVars, sent, arrived>>

PeerTakes ==
    /\ sr \in Connected \cup {"CLOSING"} /\ tx # <<>>
    /\ arrived' = Append(arrived, Head(tx))
    /\ tx' = Tail(tx)
    /\ UNCHANGED <<sr, rx, sending, fdVars, rdVars, wrVars, sent, fin>>

SendOk ==
    /\ sr \in Connected \cup {"CLOSING"} /\ sending
    /\ sending' = FALSE
    /\ UNCHANGED <<sr, rx, tx, fdVars, rdVars, wrVars, peerVars>>

(* A reset, the chip's retransmission timeout, or the end of a close *)
Gone ==
    /\ sr # "CLOSED"
    /\ sr' = "CLOSED" /\ sending' = FALSE
    /\ UNCHANGED <<rx, tx, fdVars, rdVars, wrVars, peerVars>>

-----------------------------------------------------------------------------
ReadCall  == \E v \in Vectors : Readv(v)
ReadStep  == ReadAvailable \/ Recv \/ RecvSize \/ RecvEnds \/ RecvGivesUp
             \/ RecvWaits \/ RecvCopies \/ RecvRefused
WriteStep == SendState \/ SendRoom \/ SendGivesUp \/ SendWaits
             \/ SendTakes \/ SendBusy \/ SendRefused \/ ShutWrReturns

Next ==
    \/ ReadCall \/ ReadStep
    \/ (\E v \in Vectors : Writev(v)) \/ WriteStep
    \/ ShutRd \/ ShutWr
    \/ \E mode \in Modes : SetWait(mode)
    \/ PeerSends \/ PeerFin \/ PeerTakes \/ SendOk \/ Gone

Spec == Init /\ [][Next]_vars

(* A call goes on, and a deadline passes.  The application reads again     *)
(* when a read has returned.  Nothing is assumed of the peer.              *)
FairSpec ==
    /\ Spec
    /\ WF_vars(ReadStep) /\ SF_vars(RecvGivesUp)
    /\ WF_vars(WriteStep) /\ SF_vars(SendGivesUp)
    /\ WF_vars(ReadCall)

-----------------------------------------------------------------------------
(* What the chip took is the application's stream: whichever of a gather   *)
(* write's buffers stopped it, the count it returned is what was taken, so *)
(* an application that goes on from the count neither repeats nor skips.   *)
StreamOut ==
    LET out == arrived \o tx
    IN /\ out = Upto(Len(out))
       /\ Len(out) = written + wr.total

(* Every byte the peer sent is, once and in order, with the application, in *)
(* the read in progress or in the chip; and a scatter read, which asks the *)
(* chip again for every buffer, never waits with data in hand.             *)
StreamIn ==
    /\ got \o rd.total \o rx = Upto(sent)
    /\ rd.pc = "sr" => rd.total = <<>>

(* The reader of a connection the peer has finished, or that is gone, gets *)
(* the end of the stream, also when it never waits (wiznet_toe.c:655-657). *)
EndIsSeen == (fin \/ sr = "CLOSED") ~> (rdResult = "eof")

(* A write ends, unless it may wait for ever: the peer that stops reading  *)
(* does not hold a writer that set a timeout.                              *)
WritesEnd == (wr.pc # "idle") ~> (wr.pc = "idle" \/ wait = "forever")

(* recv() drains what the peer sent before its FIN and then reports EOF. *)
EofIsEnd ==
    (rdResult = "eof" /\ sr # "CLOSED" /\ ~rdShut)
        => fin /\ got = Upto(sent)

=============================================================================
